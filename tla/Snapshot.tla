------------------------------ MODULE Snapshot ------------------------------
(***************************************************************************)
(* The commands apply and verify around transfer.Apply: the selected files *)
(* are hashed by a pool of workers, with a cache of digests that outlives  *)
(* the run, while somebody may be writing into the installation; the copy  *)
(* is made; and content.Recheck looks whether the files are still what was *)
(* hashed.  A run that reports success claims to be a copy of one moment.  *)
(*                                                                         *)
(* The destination is a directory, whose steps are in FileTarget and Push: *)
(* here an upload, a placement and Commit are one step each.               *)
(***************************************************************************)
EXTENDS Integers

CONSTANTS
    NPaths,
    Content,     \* what a file may hold; a digest is the content it stands for
    SizeOf,      \* the size of each content
    Worker,      \* goroutines of HashTreeWithProgress
    Modes,       \* which commands are run: apply, apply --dry-run, verify [--deep]
    None,
    MaxWrites,   \* bound: changes somebody makes in the source
    MaxRuns      \* bound: runs of a command

Path  == 1 .. NPaths
File  == [stamp : Nat, data : Content]
Entry == [stamp : Nat, size : Nat, digest : Content]

ASSUME SnapshotAssumption ==
    /\ NPaths \in Nat \ {0}
    /\ SizeOf \in [Content -> Nat]
    /\ Modes \subseteq {"apply", "dry", "verify", "deep"}
    /\ MaxWrites \in Nat
    /\ MaxRuns \in Nat
    /\ None \notin Content \cup Path \cup File \cup Entry

VARIABLES
    src,      \* the installation: what is at each path, and its stamp
    clock,    \* the last stamp given: every change has a size and time of its own
    saved,    \* the cache on disk
    cache,    \* content.Cache of the run
    phase, mode,
    sel,      \* transfer.Selection
    todo,     \* selected paths no worker was handed, or not placed yet
    worker,   \* what each worker is reading
    entries,  \* Result.Entries
    unread,   \* Result.Errors
    need,     \* digests the target is missing
    blob,     \* digests the target has stored
    tree,     \* the destination
    rest,     \* paths Recheck or verify.Files has still to look at
    bad,      \* paths it found changed, missing or different
    moment,   \* history: the source when the last file was hashed
    runs

source  == <<src, clock>>
hashing == <<cache, worker, entries, unread, moment>>
target  == <<blob, tree>>
vars    == <<source, saved, hashing, target, phase, mode, sel, todo, need, rest, bad, runs>>

Free  == [path |-> None, stamp |-> 0, size |-> 0]
Job   == [path : Path, stamp : Nat, size : Nat]

Resting == {"ready", "done", "changed", "failed", "verified", "differs"}
Running == phase \notin Resting
Verifies == mode \in {"verify", "deep"}

Entered == {p \in Path : entries[p] # None}
Want    == {entries[p].digest : p \in Entered}

\* The selection is sorted, and handled in that order.
Turn(p) == p \in todo /\ \A q \in todo : p <= q

TypeOK ==
    /\ src \in [Path -> File \cup {None}]
    /\ clock \in Nat
    /\ saved \in [Path -> Entry \cup {None}]
    /\ cache \in [Path -> Entry \cup {None}]
    /\ phase \in Resting \cup {"hash", "save", "ask", "send", "place", "recheck", "check"}
    /\ mode \in Modes \cup {None}
    /\ sel \subseteq Path
    /\ todo \subseteq sel
    /\ worker \in [Worker -> Job \cup {Free}]
    /\ entries \in [Path -> Entry \cup {None}]
    /\ unread \subseteq sel
    /\ need \subseteq Content
    /\ blob \subseteq Content
    /\ tree \in [Path -> Content \cup {None}]
    /\ rest \subseteq sel
    /\ bad \subseteq sel
    /\ moment \in [Path -> File \cup {None}]
    /\ runs \in Nat

-----------------------------------------------------------------------------
(* The source, which nobody locks.                                         *)

\* Somebody writes p, or puts a file there.
Write(p, x) ==
    /\ clock < MaxWrites
    /\ clock' = clock + 1
    /\ src' = [src EXCEPT ![p] = [stamp |-> clock + 1, data |-> x]]
    /\ UNCHANGED <<saved, hashing, target, phase, mode, sel, todo, need, rest, bad, runs>>

Remove(p) ==
    /\ clock < MaxWrites
    /\ src[p] # None
    /\ clock' = clock + 1
    /\ src' = [src EXCEPT ![p] = None]
    /\ UNCHANGED <<saved, hashing, target, phase, mode, sel, todo, need, rest, bad, runs>>

\* Somebody changes the destination while nothing runs.
Spoil(p, x) ==
    /\ phase \in {"done", "changed", "verified"}
    /\ phase' = "ready"
    /\ tree' = [tree EXCEPT ![p] = x]
    /\ UNCHANGED <<source, saved, hashing, blob, mode, sel, todo, need, rest, bad, runs>>

-----------------------------------------------------------------------------
(* Hashing.                                                                *)

StartStale(m, S) ==      \* mutant: the errors of the last run are not forgotten
    /\ ~Running
    /\ runs < MaxRuns
    /\ runs' = runs + 1
    /\ mode' = m
    /\ phase' = "hash"
    /\ S # {}
    /\ \A p \in S : src[p] # None
    /\ sel' = S
    /\ todo' = S
    /\ cache' = saved
    /\ worker' = [w \in Worker |-> Free]
    /\ entries' = [p \in Path |-> None]
    /\ need' = {}
    /\ rest' = {}
    /\ bad' = {}
    /\ UNCHANGED <<source, saved, target, moment, unread>>

\* The selection is made and the cache opened.
Start(m, S) ==
    /\ ~Running
    /\ runs < MaxRuns
    /\ runs' = runs + 1
    /\ mode' = m
    /\ phase' = "hash"
    /\ S # {}
    /\ \A p \in S : src[p] # None
    /\ sel' = S
    /\ todo' = S
    /\ cache' = saved
    /\ worker' = [w \in Worker |-> Free]
    /\ entries' = [p \in Path |-> None]
    /\ unread' = {}
    /\ need' = {}
    /\ rest' = {}
    /\ bad' = {}
    /\ UNCHANGED <<source, saved, target, moment>>

\* content.Cache.Lookup of the file at p.
Cached(p) == src[p] # None /\ cache[p] # None /\ cache[p].stamp = src[p].stamp

\* A free worker takes the next path and looks at its size and time.
Stat(w, p) ==
    /\ phase = "hash"
    /\ worker[w] = Free
    /\ Turn(p)
    /\ todo' = todo \ {p}
    /\ \/ /\ src[p] = None
          /\ unread' = unread \cup {p}
          /\ UNCHANGED <<entries, worker>>
       \/ /\ Cached(p)
          /\ entries' = [entries EXCEPT ![p] = cache[p]]
          /\ UNCHANGED <<unread, worker>>
       \/ /\ src[p] # None
          /\ ~Cached(p)
          /\ worker' = [worker EXCEPT ![w] = [path |-> p, stamp |-> src[p].stamp,
                                            size |-> SizeOf[src[p].data]]]
          /\ UNCHANGED <<unread, entries>>
    /\ UNCHANGED <<source, saved, cache, moment, target>>
    /\ UNCHANGED <<phase, mode, sel, need, rest, bad, runs>>

\* What reading p from its look on may give: a file that changed meanwhile is read
\* before, after or across the change.
Readable(w) ==
    LET f == src[worker[w].path]
    IN IF f # None /\ f.stamp = worker[w].stamp THEN {f.data} ELSE Content

HashThenStat(w) ==       \* mutant: the entry has the time of after the reading
    /\ phase = "hash"
    /\ worker[w] # Free
    /\ src[worker[w].path] # None
    /\ \E x \in Readable(w) :
          LET p == worker[w].path
              e == [stamp |-> src[p].stamp, size |-> SizeOf[x], digest |-> x]
          IN /\ entries' = [entries EXCEPT ![p] = e]
             /\ cache' = [cache EXCEPT ![p] = e]
    /\ worker' = [worker EXCEPT ![w] = Free]
    /\ UNCHANGED <<source, saved, unread, moment, target>>
    /\ UNCHANGED <<phase, mode, sel, todo, need, rest, bad, runs>>

\* The file is read and its digest remembered with the size and time of before.
Hash(w) ==
    /\ phase = "hash"
    /\ worker[w] # Free
    /\ \E x \in Readable(w) :
          LET p == worker[w].path
              e == [stamp |-> worker[w].stamp, size |-> worker[w].size, digest |-> x]
          IN /\ entries' = [entries EXCEPT ![p] = e]
             /\ cache' = [cache EXCEPT ![p] = e]
    /\ worker' = [worker EXCEPT ![w] = Free]
    /\ UNCHANGED <<source, saved, unread, moment, target>>
    /\ UNCHANGED <<phase, mode, sel, todo, need, rest, bad, runs>>

\* The file is gone, or the disk refuses.
FailHash(w) ==
    /\ phase = "hash"
    /\ worker[w] # Free
    /\ unread' = unread \cup {worker[w].path}
    /\ worker' = [worker EXCEPT ![w] = Free]
    /\ UNCHANGED <<source, saved, cache, entries, moment, target>>
    /\ UNCHANGED <<phase, mode, sel, todo, need, rest, bad, runs>>

\* The workers have drained the channel and returned.
Hashed ==
    /\ phase = "hash"
    /\ todo = {}
    /\ \A w \in Worker : worker[w] = Free
    /\ phase' = "save"
    /\ moment' = src
    /\ UNCHANGED <<source, saved, cache, worker, entries, unread, target>>
    /\ UNCHANGED <<mode, sel, todo, need, rest, bad, runs>>

\* The cache replaces the one on disk by a rename; a copy then needs every file,
\* a verification goes on with those it could read.
SaveCache ==
    /\ phase = "save"
    /\ saved' = cache
    /\ \/ Verifies /\ phase' = "check" /\ rest' = Entered
       \/ ~Verifies /\ unread = {} /\ phase' = "ask" /\ UNCHANGED rest
       \/ ~Verifies /\ unread # {} /\ phase' = "failed" /\ UNCHANGED rest
    /\ UNCHANGED <<source, hashing, target, mode, sel, todo, need, bad, runs>>

-----------------------------------------------------------------------------
(* transfer.Apply.                                                         *)

Ask ==
    /\ phase = "ask"
    /\ need' = Want \ blob
    /\ IF mode = "dry"
       THEN phase' = "recheck" /\ rest' = sel /\ UNCHANGED todo
       ELSE phase' = "send" /\ todo' = sel /\ UNCHANGED rest
    /\ UNCHANGED <<source, saved, hashing, target, mode, sel, bad, runs>>

\* The file d is read from again is the first selected one that had it.
Carrier(p, d) ==
    /\ p \in Entered
    /\ entries[p].digest = d
    /\ \A q \in Entered : entries[q].digest = d => p <= q

\* The bytes must still hash to d, or Put refuses them and the run fails.
Put(p, d) ==
    /\ phase = "send"
    /\ d \in need
    /\ Carrier(p, d)
    /\ src[p] # None
    /\ src[p].data = d
    /\ need' = need \ {d}
    /\ blob' = blob \cup {d}
    /\ UNCHANGED <<source, saved, hashing, tree, phase, mode, sel, todo, rest, bad, runs>>

\* Stop in the panel drops the rest of the list, without an error.
StopSending ==
    /\ phase = "send"
    /\ need # {}
    /\ need' = {}
    /\ UNCHANGED <<source, saved, hashing, target, phase, mode, sel, todo, rest, bad, runs>>

Sent ==
    /\ phase = "send"
    /\ need = {}
    /\ phase' = "place"
    /\ UNCHANGED <<source, saved, hashing, target, mode, sel, todo, need, rest, bad, runs>>

Place(p) ==
    /\ phase = "place"
    /\ Turn(p)
    /\ entries[p].digest \in blob
    /\ tree' = [tree EXCEPT ![p] = entries[p].digest]
    /\ todo' = todo \ {p}
    /\ UNCHANGED <<source, saved, hashing, blob, phase, mode, sel, need, rest, bad, runs>>

CommitUnchecked ==       \* mutant: the files are not looked at again
    /\ phase = "place"
    /\ todo = {}
    /\ blob' = {}
    /\ phase' = "recheck"
    /\ UNCHANGED <<source, saved, hashing, tree, mode, sel, todo, need, rest, bad, runs>>

Commit ==
    /\ phase = "place"
    /\ todo = {}
    /\ blob' = {}
    /\ phase' = "recheck"
    /\ rest' = sel
    /\ UNCHANGED <<source, saved, hashing, tree, mode, sel, todo, need, bad, runs>>

-----------------------------------------------------------------------------
(* Recheck and verify.Files.                                               *)

Moved(p) == src[p] = None \/ src[p].stamp # entries[p].stamp

\* A map is walked in any order.
Recheck(p) ==
    /\ phase = "recheck"
    /\ p \in rest
    /\ rest' = rest \ {p}
    /\ bad' = IF Moved(p) THEN bad \cup {p} ELSE bad
    /\ UNCHANGED <<source, saved, hashing, target, phase, mode, sel, todo, need, runs>>

DiffersBySize(p) ==      \* mutant: --deep is not looked at
    tree[p] = None \/ SizeOf[tree[p]] # entries[p].size

\* Files compares sizes, and with deep also digests.
Differs(p) ==
    \/ tree[p] = None
    \/ SizeOf[tree[p]] # entries[p].size
    \/ mode = "deep" /\ tree[p] # entries[p].digest

Check(p) ==
    /\ phase = "check"
    /\ p \in rest
    /\ rest' = rest \ {p}
    /\ bad' = IF Differs(p) THEN bad \cup {p} ELSE bad
    /\ UNCHANGED <<source, saved, hashing, target, phase, mode, sel, todo, need, runs>>

Report ==
    /\ phase \in {"recheck", "check"}
    /\ rest = {}
    /\ phase' = IF phase = "recheck" THEN (IF bad = {} THEN "done" ELSE "changed")
                                     ELSE (IF bad = {} THEN "verified" ELSE "differs")
    /\ UNCHANGED <<source, saved, hashing, target, mode, sel, todo, need, rest, bad, runs>>

\* Any step of a run may fail, and the process may be killed at any of them.
Fail ==
    /\ Running
    /\ phase' = "failed"
    /\ UNCHANGED <<source, saved, hashing, target, mode, sel, todo, need, rest, bad, runs>>

-----------------------------------------------------------------------------

Init ==
    /\ src \in [Path -> {[stamp |-> 0, data |-> x] : x \in Content}]
    /\ clock = 0
    /\ saved = [p \in Path |-> None]
    /\ cache = [p \in Path |-> None]
    /\ phase = "ready"
    /\ mode = None
    /\ sel = {}
    /\ todo = {}
    /\ worker = [w \in Worker |-> Free]
    /\ entries = [p \in Path |-> None]
    /\ unread = {}
    /\ need = {}
    /\ blob = {}
    /\ tree = [p \in Path |-> None]
    /\ rest = {}
    /\ bad = {}
    /\ moment = [p \in Path |-> None]
    /\ runs = 0

\* Between runs the system may stay as it is for ever.
Rest == ~Running /\ UNCHANGED vars

Next ==
    \/ \E p \in Path : \/ \E x \in Content : Write(p, x)
                       \/ Remove(p)
                       \/ \E x \in Content \cup {None} : Spoil(p, x)
                       \/ \E w \in Worker : Stat(w, p)
                       \/ \E d \in Content : Put(p, d)
                       \/ Place(p) \/ Recheck(p) \/ Check(p)
    \/ \E m \in Modes, S \in SUBSET Path : Start(m, S)
    \/ \E w \in Worker : Hash(w) \/ FailHash(w)
    \/ Hashed \/ SaveCache \/ Ask \/ StopSending \/ Sent \/ Commit \/ Report
    \/ Fail
    \/ Rest

Spec == Init /\ [][Next]_vars

-----------------------------------------------------------------------------
(* Properties.                                                             *)

\* A copy that is reported made is a copy of one moment: every selected path has
\* at the destination what it had in the source when the last file was hashed,
\* whatever was written meanwhile (content.Recheck, main.go:197).
OneMoment ==
    phase = "done" /\ mode = "apply" =>
        \A p \in sel : moment[p] # None /\ tree[p] = moment[p].data

\* A cached digest that would be used is right: a file whose size and time are
\* those of its entry has the content the entry says, also when it was read
\* while it changed, and in every later run (HashTreeWithProgress, digest.go:64).
CacheTrue ==
    \A p \in Path : \A e \in {cache[p], saved[p]} \ {None} :
        src[p] # None /\ src[p].stamp = e.stamp => src[p].data = e.digest

\* What verify --deep passed is what the source has, for every file it could read
\* and that has not changed since.
DeepVerified ==
    phase = "verified" /\ mode = "deep" =>
        \A p \in Entered : ~Moved(p) => tree[p] = src[p].data

\* "Everything the plan selected is present and reads back identically"
\* (main.go:548), of which this is the first half.
Present ==
    phase = "verified" => \A p \in sel : tree[p] # None
=============================================================================
