---------------------------- MODULE SnapshotProof ----------------------------
(***************************************************************************)
(* Theorems about Snapshot, for any number of files, contents, workers,    *)
(* changes and runs.                                                       *)
(***************************************************************************)
EXTENDS Snapshot, TLAPS

\* What is hashed was selected.
Within ==
    /\ Entered \subseteq sel
    /\ \A w \in Worker : worker[w] # Free => worker[w].path \in sel

-----------------------------------------------------------------------------
(* Types.                                                                  *)

LEMMA JobType == ASSUME NEW w \in Worker, TypeOK, worker[w] # Free PROVE worker[w] \in Job
BY DEF TypeOK

LEMMA InitType == Init => TypeOK /\ Within
<1> SUFFICES ASSUME Init PROVE TypeOK /\ Within
  OBVIOUS
<1>1. TypeOK
  BY DEF Init, TypeOK, File, Resting
<1>2. Within
  BY DEF Init, Within, Entered
<1> QED BY <1>1, <1>2

LEMMA NextType == TypeOK /\ Within /\ [Next]_vars => TypeOK' /\ Within'
<1> SUFFICES ASSUME TypeOK, Within, [Next]_vars PROVE TypeOK' /\ Within'
  OBVIOUS
<1> USE SnapshotAssumption
<1> USE DEF TypeOK, Within, Entered, source, hashing, target
<1>1. ASSUME NEW p \in Path, NEW x \in Content, Write(p, x) PROVE TypeOK' /\ Within'
  BY <1>1 DEF Write, File
<1>2. ASSUME NEW p \in Path, Remove(p) PROVE TypeOK' /\ Within'
  BY <1>2 DEF Remove
<1>3. ASSUME NEW p \in Path, NEW x \in Content \cup {None}, Spoil(p, x)
      PROVE  TypeOK' /\ Within'
  BY <1>3 DEF Spoil, Resting
<1>4. ASSUME NEW m \in Modes, NEW S \in SUBSET Path, Start(m, S) PROVE TypeOK' /\ Within'
  BY <1>4 DEF Start
<1>5. ASSUME NEW w \in Worker, NEW p \in Path, Stat(w, p) PROVE TypeOK' /\ Within'
  <2>1. CASE src[p] = None /\ UNCHANGED <<entries, worker>> /\ unread' = unread \cup {p}
    BY <1>5, <2>1 DEF Stat, Turn
  <2>2. CASE Cached(p) /\ entries' = [entries EXCEPT ![p] = cache[p]]
             /\ UNCHANGED <<unread, worker>>
    BY <1>5, <2>2 DEF Stat, Turn, Cached
  <2>3. CASE /\ src[p] # None
             /\ worker' = [worker EXCEPT ![w] = [path |-> p, stamp |-> src[p].stamp,
                                                 size |-> SizeOf[src[p].data]]]
             /\ UNCHANGED <<unread, entries>>
    <3>1. [path |-> p, stamp |-> src[p].stamp, size |-> SizeOf[src[p].data]] \in Job
      BY <2>3 DEF File, Job
    <3> QED BY <1>5, <2>3, <3>1 DEF Stat, Turn
  <2> QED BY <1>5, <2>1, <2>2, <2>3 DEF Stat
<1>6. ASSUME NEW w \in Worker, Hash(w) PROVE TypeOK' /\ Within'
  <2>1. worker[w] \in Job /\ worker[w].path \in sel
    BY <1>6, JobType DEF Hash
  <2>2. PICK x \in Readable(w) :
           LET p == worker[w].path
               e == [stamp |-> worker[w].stamp, size |-> worker[w].size, digest |-> x]
           IN /\ entries' = [entries EXCEPT ![p] = e]
              /\ cache' = [cache EXCEPT ![p] = e]
    BY <1>6 DEF Hash
  <2>3. x \in Content
    BY <2>1, <2>2 DEF Readable, File, Job
  <2>4. [stamp |-> worker[w].stamp, size |-> worker[w].size, digest |-> x] \in Entry
    BY <2>1, <2>3 DEF Entry, Job
  <2> QED BY <1>6, <2>1, <2>2, <2>4 DEF Hash
<1>7. ASSUME NEW w \in Worker, FailHash(w) PROVE TypeOK' /\ Within'
  BY <1>7, JobType DEF FailHash
<1>8. CASE Hashed
  BY <1>8 DEF Hashed
<1>9. CASE SaveCache
  BY <1>9 DEF SaveCache, Resting
<1>10. CASE Ask
  <2>1. Want \subseteq Content
    BY DEF Want, Entry
  <2> QED BY <1>10, <2>1 DEF Ask
<1>11. ASSUME NEW p \in Path, NEW d \in Content, Put(p, d) PROVE TypeOK' /\ Within'
  BY <1>11 DEF Put
<1>12. CASE StopSending \/ Sent
  BY <1>12 DEF StopSending, Sent
<1>13. ASSUME NEW p \in Path, Place(p) PROVE TypeOK' /\ Within'
  BY <1>13 DEF Place
<1>14. CASE Commit
  BY <1>14 DEF Commit
<1>15. ASSUME NEW p \in Path, Recheck(p) \/ Check(p) PROVE TypeOK' /\ Within'
  BY <1>15 DEF Recheck, Check
<1>16. CASE Report \/ Fail
  BY <1>16 DEF Report, Fail, Resting
<1>17. CASE UNCHANGED vars
  BY <1>17 DEF vars
<1> QED BY <1>1, <1>2, <1>3, <1>4, <1>5, <1>6, <1>7, <1>8, <1>9, <1>10, <1>11, <1>12,
           <1>13, <1>14, <1>15, <1>16, <1>17 DEF Next, Rest

LEMMA Typed == Spec => [](TypeOK /\ Within)
BY InitType, NextType, PTL DEF Spec

\* The state of a run has its type, and all it keeps is about selected files.
THEOREM SnapshotTypeOK == Spec => []TypeOK
BY Typed, PTL

-----------------------------------------------------------------------------
(* The cache.                                                              *)

\* No stamp is of the future, so a change makes every entry one of the past.
Past ==
    \A p \in Path :
        /\ src[p] # None => src[p].stamp <= clock
        /\ cache[p] # None => cache[p].stamp <= clock
        /\ saved[p] # None => saved[p].stamp <= clock
        /\ entries[p] # None => entries[p].stamp <= clock

PastJobs == \A w \in Worker : worker[w] # Free => worker[w].stamp <= clock

\* An entry that has the file's stamp has its content.
True(e, p) == e # None /\ src[p] # None /\ src[p].stamp = e.stamp => src[p].data = e.digest

Recorded ==
    \A p \in Path : True(cache[p], p) /\ True(saved[p], p) /\ True(entries[p], p)

CInv == TypeOK /\ Within /\ Past /\ PastJobs /\ Recorded

LEMMA NextRecorded == CInv /\ [Next]_vars => CInv'
<1> SUFFICES ASSUME CInv, [Next]_vars PROVE CInv'
  OBVIOUS
<1> USE DEF CInv
<1>0. TypeOK' /\ Within'
  BY NextType
<1> DEFINE Goal == Past' /\ PastJobs' /\ Recorded'
<1>1. ASSUME NEW p \in Path, clock' = clock + 1,
             UNCHANGED <<cache, saved, entries, worker>>,
             \A q \in Path \ {p} : src'[q] = src[q],
             src'[p] # None => src'[p].stamp = clock + 1
      PROVE  Goal
  <2>1. ASSUME NEW n \in Nat, n <= clock PROVE n <= clock + 1 /\ n # clock + 1
    BY <2>1 DEF TypeOK
  <2>2. \A q \in Path : /\ src[q] # None => src[q].stamp \in Nat
                        /\ cache[q] # None => cache[q].stamp \in Nat
                        /\ saved[q] # None => saved[q].stamp \in Nat
                        /\ entries[q] # None => entries[q].stamp \in Nat
    BY DEF TypeOK, File, Entry
  <2>3. Past'
    BY <1>1, <2>1, <2>2 DEF Past, TypeOK
  <2>4. PastJobs'
    <3>1. ASSUME NEW w \in Worker, worker[w] # Free PROVE worker[w].stamp \in Nat
      BY <3>1, JobType DEF Job
    <3> QED BY <1>1, <2>1, <3>1 DEF PastJobs
  <2>5. Recorded'
    BY <1>1, <2>1, <2>2 DEF Recorded, True, Past
  <2> QED BY <2>3, <2>4, <2>5
<1>2. ASSUME NEW p \in Path, NEW x \in Content, Write(p, x) PROVE Goal
  BY <1>1, <1>2 DEF Write, hashing, TypeOK
<1>3. ASSUME NEW p \in Path, Remove(p) PROVE Goal
  BY <1>1, <1>3 DEF Remove, hashing, TypeOK
<1>4. ASSUME NEW m \in Modes, NEW S \in SUBSET Path, Start(m, S) PROVE Goal
  BY <1>4 DEF Start, source, Past, PastJobs, Recorded, True
<1>5. ASSUME NEW w \in Worker, NEW p \in Path, Stat(w, p) PROVE Goal
  <2>1. UNCHANGED <<source, cache, saved>>
    BY <1>5 DEF Stat
  <2>2. CASE UNCHANGED <<entries, worker>>
    BY <2>1, <2>2 DEF source, Past, PastJobs, Recorded, True
  <2>3. CASE entries' = [entries EXCEPT ![p] = cache[p]] /\ UNCHANGED worker
    BY <2>1, <2>3 DEF source, Past, PastJobs, Recorded, True, TypeOK
  <2>4. CASE /\ src[p] # None
             /\ worker' = [worker EXCEPT ![w] = [path |-> p, stamp |-> src[p].stamp,
                                                 size |-> SizeOf[src[p].data]]]
             /\ UNCHANGED entries
    BY <2>1, <2>4 DEF source, Past, PastJobs, Recorded, True, TypeOK
  <2> QED BY <1>5, <2>2, <2>3, <2>4 DEF Stat
<1>6. ASSUME NEW w \in Worker, Hash(w) PROVE Goal
  <2> DEFINE p == worker[w].path
             e(x) == [stamp |-> worker[w].stamp, size |-> worker[w].size, digest |-> x]
  <2>1. p \in Path
    BY <1>6, JobType DEF Hash, Job
  <2>2. PICK x \in Readable(w) : /\ entries' = [entries EXCEPT ![p] = e(x)]
                                 /\ cache' = [cache EXCEPT ![p] = e(x)]
    BY <1>6 DEF Hash
  <2>3. UNCHANGED <<source, saved>> /\ worker' = [worker EXCEPT ![w] = Free]
    BY <1>6 DEF Hash
  <2>4. e(x).stamp <= clock /\ True(e(x), p)
    BY <1>6, <2>2 DEF Hash, PastJobs, True, Readable
  <2>5. /\ \A q \in Path \ {p} : entries'[q] = entries[q] /\ cache'[q] = cache[q]
        /\ entries'[p] = e(x) /\ cache'[p] = e(x)
        /\ \A v \in Worker : worker'[v] \in {worker[v], Free}
    BY <2>1, <2>2, <2>3 DEF TypeOK
  <2> HIDE DEF p, e
  <2> QED BY <2>3, <2>4, <2>5 DEF source, Past, PastJobs, Recorded, True
<1>7. ASSUME NEW w \in Worker, FailHash(w) PROVE Goal
  BY <1>7 DEF FailHash, source, Past, PastJobs, Recorded, True, TypeOK
<1>8. ASSUME SaveCache PROVE Goal
  BY <1>8 DEF SaveCache, source, hashing, Past, PastJobs, Recorded, True
<1>9. ASSUME UNCHANGED <<src, clock, cache, saved, entries, worker>> PROVE Goal
  BY <1>9 DEF Past, PastJobs, Recorded, True
<1> QED
  BY <1>0, <1>2, <1>3, <1>4, <1>5, <1>6, <1>7, <1>8, <1>9
     DEF Next, Spoil, Hashed, Ask, Put, StopSending, Sent, Place, Commit, Recheck, Check,
         Report, Fail, Rest, vars, source, hashing

LEMMA InitRecorded == Init => CInv
<1> SUFFICES ASSUME Init PROVE CInv
  OBVIOUS
<1>1. TypeOK /\ Within
  BY InitType
<1>2. Past
  BY DEF Init, Past
<1>3. PastJobs /\ Recorded
  BY DEF Init, PastJobs, Recorded, True
<1> QED BY <1>1, <1>2, <1>3 DEF CInv

\* A cached digest that a later run takes for a file is that of its content, though
\* it was read unlocked: the time and size kept with it are those of before the
\* reading (digest.go:64-92).
THEOREM SnapshotCacheTrue == Spec => []CacheTrue
<1>1. CInv => CacheTrue
  BY DEF CInv, Recorded, True, CacheTrue
<1> QED BY <1>1, InitRecorded, NextRecorded, PTL DEF Spec
-----------------------------------------------------------------------------
(* The copy.                                                               *)

Copying == {"ask", "send", "place", "recheck", "done"}

\* Every selected path is accounted for, and has an entry once a copy is made.
Owned ==
    /\ phase = "hash" =>
          \A p \in sel \ (todo \cup unread \cup Entered) :
             \E w \in Worker : worker[w] # Free /\ worker[w].path = p
    /\ phase = "save" => sel \subseteq Entered \cup unread
    /\ phase \in Copying => sel \subseteq Entered

\* A file that still has its entry's stamp is what it was at the moment: the look
\* that gave the stamp was before it.
Still ==
    phase \in Copying \cup {"save"} =>
        \A p \in Entered : src[p] # None /\ src[p].stamp = entries[p].stamp =>
            moment[p] = src[p]

Delivered ==
    /\ phase = "send" => todo = sel
    /\ phase = "place" => \A p \in sel \ todo : tree[p] = entries[p].digest
    /\ phase \in {"recheck", "done"} /\ mode = "apply" =>
          \A p \in sel : tree[p] = entries[p].digest

\* What Recheck passed had its digest at the moment, whatever happens to it later.
Passed ==
    /\ phase \in {"recheck", "done"} =>
          \A p \in sel \ (rest \cup bad) :
             moment[p] # None /\ moment[p].data = entries[p].digest
    /\ phase \in {"check", "verified"} /\ mode = "deep" =>
          \A p \in Entered \ (rest \cup bad) : tree[p] = entries[p].digest
    /\ phase \in {"done", "verified"} => rest = {} /\ bad = {}

SInv == CInv /\ Owned /\ Still /\ Delivered /\ Passed

LEMMA NextOwned == SInv /\ [Next]_vars => Owned'
<1> SUFFICES ASSUME SInv, [Next]_vars PROVE Owned'
  OBVIOUS
<1> USE DEF SInv, CInv, Entered, Copying
<1>1. ASSUME NEW m \in Modes, NEW S \in SUBSET Path, Start(m, S) PROVE Owned'
  BY <1>1 DEF Start, Owned
<1>2. ASSUME NEW w \in Worker, NEW p \in Path, Stat(w, p) PROVE Owned'
  <2>1. phase = "hash" /\ phase' = "hash" /\ todo' = todo \ {p} /\ sel' = sel
    BY <1>2 DEF Stat
  <2>2. CASE unread' = unread \cup {p} /\ UNCHANGED <<entries, worker>>
    BY <2>1, <2>2 DEF Owned
  <2>3. CASE Cached(p) /\ entries' = [entries EXCEPT ![p] = cache[p]]
             /\ UNCHANGED <<unread, worker>>
    BY <2>1, <2>3 DEF Owned, Cached, TypeOK
  <2>4. CASE /\ worker' = [worker EXCEPT ![w] = [path |-> p, stamp |-> src[p].stamp,
                                                 size |-> SizeOf[src[p].data]]]
             /\ UNCHANGED <<unread, entries>>
    <3>1. /\ worker'[w].path = p /\ worker'[w] # Free
          /\ \A v \in Worker \ {w} : worker'[v] = worker[v]
          /\ worker[w] = Free
      BY <1>2, <2>4, SnapshotAssumption DEF TypeOK, Free, Stat
    <3> QED BY <2>1, <2>4, <3>1 DEF Owned
  <2> QED BY <1>2, <2>2, <2>3, <2>4 DEF Stat
<1>3. ASSUME NEW w \in Worker, Hash(w) PROVE Owned'
  <2> DEFINE p == worker[w].path
             e(x) == [stamp |-> worker[w].stamp, size |-> worker[w].size, digest |-> x]
  <2>1. p \in Path
    BY <1>3, JobType DEF Hash, Job
  <2>2. PICK x \in Readable(w) : entries' = [entries EXCEPT ![p] = e(x)]
    BY <1>3 DEF Hash
  <2>3. entries'[p] # None
    <3>1. x \in Content /\ worker[w] \in Job
      BY <1>3, <2>1, <2>2, JobType DEF Hash, Readable, TypeOK, File
    <3>2. e(x) \in Entry
      BY <3>1 DEF Entry, Job
    <3> QED BY <2>1, <2>2, <3>2, SnapshotAssumption DEF TypeOK
  <2>4. /\ \A q \in Path \ {p} : entries'[q] = entries[q]
        /\ worker'[w] = Free /\ \A v \in Worker \ {w} : worker'[v] = worker[v]
        /\ UNCHANGED <<phase, sel, todo, unread>> /\ phase = "hash"
    BY <1>3, <2>1, <2>2 DEF Hash, TypeOK
  <2>5. \A q \in Path : entries[q] # None => entries'[q] # None
    BY <2>3, <2>4
  <2>6. ASSUME NEW q \in sel \ (todo \cup unread), entries'[q] = None
        PROVE  \E v \in Worker : worker'[v] # Free /\ worker'[v].path = q
    <3>1. PICK v \in Worker : worker[v] # Free /\ worker[v].path = q
      BY <2>4, <2>5, <2>6 DEF Owned, TypeOK
    <3>2. v # w
      BY <2>3, <2>6, <3>1
    <3> QED BY <2>4, <3>1, <3>2
  <2> QED BY <2>4, <2>6 DEF Owned, TypeOK
<1>4. ASSUME NEW w \in Worker, FailHash(w) PROVE Owned'
  <2>1. /\ worker'[w] = Free /\ \A v \in Worker \ {w} : worker'[v] = worker[v]
        /\ unread' = unread \cup {worker[w].path}
        /\ UNCHANGED <<phase, sel, todo, entries>>
    BY <1>4 DEF FailHash, TypeOK
  <2> QED BY <1>4, <2>1 DEF Owned, FailHash
<1>5. ASSUME Hashed PROVE Owned'
  BY <1>5 DEF Hashed, Owned
<1>6. ASSUME SaveCache PROVE Owned'
  BY <1>6 DEF SaveCache, hashing, Owned
<1>7. ASSUME UNCHANGED <<sel, entries>>,
             \/ phase' \in Copying /\ phase \in Copying
             \/ phase' \notin Copying \cup {"hash", "save"}
      PROVE  Owned'
  BY <1>7 DEF Owned
<1>8. ASSUME UNCHANGED <<phase, sel, entries, todo, unread, worker>> PROVE Owned'
  BY <1>8 DEF Owned
<1>9. ASSUME Ask \/ Sent \/ StopSending \/ Commit \/ Report \/ Fail PROVE Owned'
  BY <1>7, <1>9 DEF Ask, Sent, StopSending, Commit, Report, Fail, hashing
<1>10. ASSUME NEW p \in Path, Place(p) PROVE Owned'
  BY <1>7, <1>10 DEF Place, hashing
<1>11. ASSUME NEW p \in Path, NEW x \in Content \cup {None}, Spoil(p, x) PROVE Owned'
  BY <1>7, <1>11 DEF Spoil, hashing
<1> QED
  BY <1>1, <1>2, <1>3, <1>4, <1>5, <1>6, <1>8, <1>9, <1>10, <1>11
     DEF Next, Write, Remove, Put, Recheck, Check, Rest, vars, hashing

LEMMA NextStill == SInv /\ [Next]_vars => Still'
<1> SUFFICES ASSUME SInv, [Next]_vars PROVE Still'
  OBVIOUS
<1> USE DEF SInv, CInv, Entered, Copying
<1>1. ASSUME NEW p \in Path, clock' = clock + 1,
             UNCHANGED <<entries, moment, phase>>,
             \A q \in Path \ {p} : src'[q] = src[q],
             src'[p] # None => src'[p].stamp = clock + 1
      PROVE  Still'
  <2>1. entries[p] # None => entries[p].stamp # clock + 1
    BY DEF Past, TypeOK, Entry
  <2> QED BY <1>1, <2>1 DEF Still
<1>2. ASSUME NEW p \in Path, NEW x \in Content, Write(p, x) PROVE Still'
  BY <1>1, <1>2 DEF Write, hashing, TypeOK
<1>3. ASSUME NEW p \in Path, Remove(p) PROVE Still'
  BY <1>1, <1>3 DEF Remove, hashing, TypeOK
<1>4. CASE Hashed
  BY <1>4 DEF Hashed, source, Still
<1>5. ASSUME UNCHANGED <<src, entries, moment>>,
             phase' \in Copying \cup {"save"} => phase \in Copying \cup {"save"}
      PROVE  Still'
  BY <1>5 DEF Still
<1>6. ASSUME phase' = "hash" PROVE Still'
  BY <1>6 DEF Still
<1>7. ASSUME NEW m \in Modes, NEW S \in SUBSET Path, Start(m, S) PROVE Still'
  BY <1>6, <1>7 DEF Start
<1>8. ASSUME NEW w \in Worker, Hash(w) \/ FailHash(w) \/ \E p \in Path : Stat(w, p)
      PROVE  Still'
  BY <1>6, <1>8 DEF Hash, FailHash, Stat
<1>9. ASSUME NEW p \in Path,
             Place(p) \/ Recheck(p) \/ Check(p) \/ (\E d \in Content : Put(p, d))
             \/ \E x \in Content \cup {None} : Spoil(p, x)
      PROVE  Still'
  BY <1>5, <1>9 DEF Place, Recheck, Check, Put, Spoil, source, hashing
<1>10. CASE SaveCache \/ Ask \/ StopSending \/ Sent \/ Commit \/ Report \/ Fail
  BY <1>5, <1>10 DEF SaveCache, Ask, StopSending, Sent, Commit, Report, Fail, source, hashing
<1>11. CASE UNCHANGED vars
  BY <1>5, <1>11 DEF vars, source, hashing
<1> QED BY <1>2, <1>3, <1>4, <1>7, <1>8, <1>9, <1>10, <1>11 DEF Next, Rest

LEMMA NextPassed == SInv /\ [Next]_vars => Delivered' /\ Passed'
<1> SUFFICES ASSUME SInv, [Next]_vars PROVE Delivered' /\ Passed'
  OBVIOUS
<1> USE DEF SInv, CInv, Entered, Copying
<1>1. ASSUME phase' \notin {"send", "place", "recheck", "done", "check", "verified"}
      PROVE  Delivered' /\ Passed'
  BY <1>1 DEF Delivered, Passed
<1>2. ASSUME UNCHANGED <<phase, mode, sel, todo, entries, moment, tree, rest, bad>>
      PROVE  Delivered' /\ Passed'
  BY <1>2 DEF Delivered, Passed
<1>3. ASSUME NEW p \in Path,
             (\E x \in Content : Write(p, x)) \/ Remove(p)
             \/ \E d \in Content : Put(p, d)
      PROVE  Delivered' /\ Passed'
  BY <1>2, <1>3 DEF Write, Remove, Put, hashing, target
<1>4. ASSUME NEW p \in Path, NEW x \in Content \cup {None}, Spoil(p, x)
      PROVE  Delivered' /\ Passed'
  BY <1>1, <1>4 DEF Spoil
<1>5. ASSUME NEW m \in Modes, NEW S \in SUBSET Path, Start(m, S)
      PROVE  Delivered' /\ Passed'
  BY <1>1, <1>5 DEF Start
<1>6. ASSUME NEW w \in Worker, Hash(w) \/ FailHash(w) \/ \E p \in Path : Stat(w, p)
      PROVE  Delivered' /\ Passed'
  BY <1>1, <1>6 DEF Hash, FailHash, Stat
<1>7. CASE Hashed \/ Fail
  BY <1>1, <1>7 DEF Hashed, Fail
<1>8. CASE SaveCache
  BY <1>8 DEF SaveCache, hashing, target, Delivered, Passed
<1>9. CASE Ask
  BY <1>9 DEF Ask, Delivered, Passed
<1>10. CASE StopSending \/ Sent
  BY <1>10 DEF StopSending, Sent, hashing, target, Delivered, Passed
<1>11. ASSUME NEW p \in Path, Place(p) PROVE Delivered' /\ Passed'
  BY <1>11 DEF Place, hashing, Delivered, Passed, TypeOK
<1>12. CASE Commit
  BY <1>12 DEF Commit, hashing, Delivered, Passed
<1>13. ASSUME NEW p \in Path, Recheck(p) PROVE Delivered' /\ Passed'
  <2>1. p \in Entered /\ True(entries[p], p)
    BY <1>13 DEF Recheck, Owned, TypeOK, Recorded
  <2>2. ~Moved(p) => moment[p] # None /\ moment[p].data = entries[p].digest
    BY <1>13, <2>1 DEF Recheck, Moved, Still, True
  <2>3. p \notin bad' => ~Moved(p)
    BY <1>13 DEF Recheck
  <2> QED BY <1>13, <2>2, <2>3 DEF Recheck, hashing, target, Delivered, Passed
<1>14. ASSUME NEW p \in Path, Check(p) PROVE Delivered' /\ Passed'
  <2>1. p \notin bad' => ~Differs(p)
    BY <1>14 DEF Check
  <2> QED BY <1>14, <2>1 DEF Check, Differs, hashing, target, Delivered, Passed
<1>15. CASE Report
  BY <1>15 DEF Report, hashing, target, Delivered, Passed
<1>16. CASE UNCHANGED vars
  BY <1>2, <1>16 DEF vars, hashing, target
<1> QED BY <1>3, <1>4, <1>5, <1>6, <1>7, <1>8, <1>9, <1>10, <1>11, <1>12, <1>13, <1>14,
           <1>15, <1>16 DEF Next, Rest

LEMMA InitSnapshot == Init => SInv
<1> SUFFICES ASSUME Init PROVE SInv
  OBVIOUS
<1>1. CInv
  BY InitRecorded
<1>2. Owned /\ Still /\ Delivered /\ Passed
  BY DEF Init, Copying, Owned, Still, Delivered, Passed
<1> QED BY <1>1, <1>2 DEF SInv

LEMMA NextSnapshot == SInv /\ [Next]_vars => SInv'
BY NextRecorded, NextOwned, NextStill, NextPassed DEF SInv

\* A copy reported without a warning is a copy of one moment, though nothing was
\* locked while it was made (main.go:197, content/verify.go:12).
THEOREM SnapshotOneMoment == Spec => []OneMoment
<1>1. SInv => OneMoment
  BY DEF SInv, OneMoment, Delivered, Passed
<1> QED BY <1>1, InitSnapshot, NextSnapshot, PTL DEF Spec

\* verify --deep passes no file whose bytes are not the source's, although it takes
\* the digests of the source from the cache (main.go:488-494).
THEOREM SnapshotDeepVerified == Spec => []DeepVerified
<1>1. SInv => DeepVerified
  BY DEF SInv, CInv, DeepVerified, Passed, Recorded, True, Moved, Entered
<1> QED BY <1>1, InitSnapshot, NextSnapshot, PTL DEF Spec
=============================================================================
