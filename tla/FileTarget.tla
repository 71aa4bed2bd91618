----------------------------- MODULE FileTarget -----------------------------
(***************************************************************************)
(* The receiving side of a push: transfer.FileTarget, which writes an      *)
(* incoming tree, and the api.Server handlers that drive it.               *)
(*                                                                         *)
(* The disk is modelled down to inodes, because Place hard-links a blob to *)
(* its final name: two names may then be one file.  A size and modification*)
(* time are what the code compares to tell that a file is untouched; here  *)
(* they are the pair <<inode, what it holds>>, that is, every write of a   *)
(* file is assumed to change its size or its modification time.            *)
(*                                                                         *)
(* Each call the server is handling occupies a slot of Call and takes one  *)
(* step per system call another handler could come between.                *)
(***************************************************************************)
EXTENDS Integers, FiniteSets

CONSTANTS
    Digest,     \* the digests of the file contents that are pushed
    NPaths,     \* the destination paths are 1 .. NPaths, in sorted order
    NInodes,    \* bound: inodes in use at one time, names and index together
    Call,       \* slots for the calls the receiver handles at one time
    Remembers,  \* NewReceiver (fvtt-migrate serve), not NewFileTarget
    HardLinks,  \* the file system of the destination can hard-link
    Foreign,    \* a content no digest of Digest names
    None

Path    == 1 .. NPaths
Inode   == 1 .. NInodes
Content == Digest \cup {Foreign}
Entry   == [digest : Digest, inode : Inode, data : Content]

ASSUME FileTargetAssumption ==
    /\ NPaths \in Nat \ {0}
    /\ NInodes \in Nat
    /\ Remembers \in BOOLEAN
    /\ HardLinks \in BOOLEAN
    /\ Foreign \notin Digest \cup {None}
    /\ None \notin Digest \cup Path \cup Inode \cup Call \cup Entry

VARIABLES
    blob,   \* .fvtt-blobs: the inode stored under each digest
    file,   \* the destination tree: the inode at each path
    data,   \* what each inode holds
    index,  \* content.Cache in memory: what was remembered of each path
    held,   \* FileTarget.held: the path last remembered for each digest
    saved,  \* the index on disk, read when the receiver starts
    call    \* the calls being handled

targetVars == <<blob, file, data, index, held, saved, call>>

-----------------------------------------------------------------------------
(* Types.                                                                  *)

Batch  == [Path -> Digest \cup {None}]
Blob   == 0     \* where Place takes its bytes from: the blob, or a path
Source == {Blob} \cup Path

Op == {"idle", "missing", "put", "place", "commit"}
Pc == {"idle", "check", "open", "copy", "find", "unlink", "link",
       "record", "save", "clear", "ok", "rejected", "broken"}

\* ask: the digests Missing still has to look up, or the one Put stores;
\* lacks: those Missing found absent; batch: the placements still to make;
\* temp: what Put's temporary file comes to hold, None if there is none.
CallState == [op : Op, pc : Pc, ask : SUBSET Digest, lacks : SUBSET Digest,
              batch : Batch, from : Source, temp : Content \cup {None}]

NoFiles == [p \in Path |-> None]

Blank == [op |-> "idle", pc |-> "idle", ask |-> {}, lacks |-> {},
          batch |-> NoFiles, from |-> Blob, temp |-> None]

MissingCall(want) == [Blank EXCEPT !.op = "missing", !.pc = "check", !.ask = want]
PutCall(d)        == [Blank EXCEPT !.op = "put", !.pc = "open", !.ask = {d}]
PlaceCall(batch)  == [Blank EXCEPT !.op = "place", !.pc = "find", !.batch = batch]
CommitCall        == [Blank EXCEPT !.op = "commit", !.pc = "save"]

TargetTypeOK ==
    /\ blob \in [Digest -> Inode \cup {None}]
    /\ file \in [Path -> Inode \cup {None}]
    /\ data \in [Inode -> Content]
    /\ index \in [Path -> Entry \cup {None}]
    /\ held \in [Digest -> Path \cup {None}]
    /\ saved \in [Path -> Entry \cup {None}]
    /\ call \in [Call -> CallState]

-----------------------------------------------------------------------------
(* What the code looks up.                                                 *)

\* An inode number is free again once no name and no remembered entry has it.
Used == {blob[d] : d \in Digest} \cup {file[p] : p \in Path}
        \cup {e.inode : e \in {index[p] : p \in Path} \ {None}}
        \cup {e.inode : e \in {saved[p] : p \in Path} \ {None}}

\* A new file takes the lowest free number: which one it is says nothing.
Fresh(i) == i \in Inode \ Used /\ \A j \in Inode \ Used : i <= j

UntouchedByName(p) ==    \* mutant: the file is there, whatever file it is
    /\ file[p] # None
    /\ index[p] # None

\* content.Cache.Lookup of what lies at p now.
Untouched(p) ==
    /\ file[p] # None
    /\ index[p] # None
    /\ index[p].inode = file[p]
    /\ index[p].data = data[file[p]]

PlacedAtUnchecked(d) ==  \* mutant: what was placed is still there
    IF held[d] # None /\ file[held[d]] # None THEN held[d] ELSE None

PlacedAt(d) ==
    IF held[d] # None /\ Untouched(held[d]) THEN held[d] ELSE None

\* Missing leaves d out of its answer.
Has(d) == blob[d] # None \/ PlacedAt(d) # None

\* The inode the bytes of d would be taken from.
Serving(d) == IF blob[d] # None THEN blob[d] ELSE file[PlacedAt(d)]

\* The placement whose turn it is in a batch, which is sorted by path.
Todo(c)    == {p \in Path : call[c].batch[p] # None}
Turn(c, p) == p \in Todo(c) /\ \A q \in Todo(c) : p <= q

Finished(c) == call[c].pc \in {"ok", "rejected", "broken"}
Idle        == \A c \in Call : call[c].op = "idle"

Goto(c, pc) == call' = [call EXCEPT ![c].pc = pc]

-----------------------------------------------------------------------------
(* Missing.                                                                *)

CheckDigest(c, d) ==
    /\ call[c].pc = "check"
    /\ d \in call[c].ask
    /\ call' = [call EXCEPT
                  ![c].ask   = @ \ {d},
                  ![c].lacks = IF Has(d) THEN @ ELSE @ \cup {d},
                  ![c].pc    = IF call[c].ask = {d} THEN "ok" ELSE "check"]
    /\ UNCHANGED <<blob, file, data, index, held, saved>>

-----------------------------------------------------------------------------
(* Put: the body goes to a temporary file, hashed on its way, and takes    *)
(* the name of the blob only when it is whole and hashes to that name.     *)

\* What arrives is the body that was named, or part of it, or another: the source
\* file is no longer what was hashed.
OpenTemp(c) ==
    /\ call[c].pc = "open"
    /\ \E x \in call[c].ask \cup {Foreign} :
          call' = [call EXCEPT ![c].temp = x, ![c].pc = "copy"]
    /\ UNCHANGED <<blob, file, data, index, held, saved>>

\* The connection broke, the disk is full, or the body is not what it was named.
RejectBody(c) ==
    /\ call[c].pc \in {"open", "copy"}
    /\ call' = [call EXCEPT ![c].temp = None, ![c].pc = "rejected"]
    /\ UNCHANGED <<blob, file, data, index, held, saved>>

StoreBlobUnchecked(c) == \* mutant: the body is not compared with its name
    /\ call[c].pc = "copy"
    /\ call[c].temp # None
    /\ \E i \in Inode : \E d \in call[c].ask :
          /\ Fresh(i)
          /\ data' = [data EXCEPT ![i] = call[c].temp]
          /\ blob' = [blob EXCEPT ![d] = i]
    /\ call' = [call EXCEPT ![c].temp = None, ![c].pc = "ok"]
    /\ UNCHANGED <<file, index, held, saved>>

StoreBlob(c) ==
    /\ call[c].pc = "copy"
    /\ call[c].temp # None
    /\ \E i \in Inode : \E d \in call[c].ask :
          /\ call[c].temp = d
          /\ Fresh(i)
          /\ data' = [data EXCEPT ![i] = call[c].temp]
          /\ blob' = [blob EXCEPT ![d] = i]
    /\ call' = [call EXCEPT ![c].temp = None, ![c].pc = "ok"]
    /\ UNCHANGED <<file, index, held, saved>>

\* A Commit of another call removed the temporary file first.
LoseTemp(c) ==
    /\ call[c].pc = "copy"
    /\ call[c].temp = None
    /\ Goto(c, "rejected")
    /\ UNCHANGED <<blob, file, data, index, held, saved>>

-----------------------------------------------------------------------------
(* Place, for each entry of a batch in turn.                               *)

FindBytesOrSkip(c, p) == \* mutant: a path without bytes is passed over
    /\ call[c].pc = "find"
    /\ Turn(c, p)
    /\ LET d    == call[c].batch[p]
           from == IF blob[d] = None THEN PlacedAt(d) ELSE None
       IN call' = [call EXCEPT
                     ![c].from = IF from = None THEN Blob ELSE from,
                     ![c].pc = IF ~Has(d) \/ from = p THEN "record" ELSE "unlink"]
    /\ UNCHANGED <<blob, file, data, index, held, saved>>

FindBytes(c, p) ==
    /\ call[c].pc = "find"
    /\ Turn(c, p)
    /\ LET d == call[c].batch[p]
       IN \/ /\ blob[d] # None
             /\ call' = [call EXCEPT ![c].from = Blob, ![c].pc = "unlink"]
          \/ /\ blob[d] = None
             /\ PlacedAt(d) # None
             /\ call' = [call EXCEPT
                           ![c].from = PlacedAt(d),
                           ![c].pc = IF PlacedAt(d) = p THEN "record" ELSE "unlink"]
          \/ /\ ~Has(d)
             /\ Goto(c, "rejected")
    /\ UNCHANGED <<blob, file, data, index, held, saved>>

Unlink(c, p) ==
    /\ call[c].pc = "unlink"
    /\ Turn(c, p)
    /\ file' = [file EXCEPT ![p] = None]
    /\ Goto(c, "link")
    /\ UNCHANGED <<blob, data, index, held, saved>>

\* The inode under the name the placement takes its bytes from.
Bytes(c, p) ==
    IF call[c].from = Blob THEN blob[call[c].batch[p]] ELSE file[call[c].from]

Link(c, p) ==
    /\ call[c].pc = "link"
    /\ Turn(c, p)
    /\ HardLinks
    /\ file[p] = None
    /\ Bytes(c, p) # None
    /\ file' = [file EXCEPT ![p] = Bytes(c, p)]
    /\ Goto(c, "record")
    /\ UNCHANGED <<blob, data, index, held, saved>>

CopyShared(c, p) ==      \* mutant: the copy is another name of the source
    /\ call[c].pc = "link"
    /\ Turn(c, p)
    /\ ~HardLinks \/ file[p] # None
    /\ Bytes(c, p) # None
    /\ file' = [file EXCEPT ![p] = Bytes(c, p)]
    /\ Goto(c, "record")
    /\ UNCHANGED <<blob, data, index, held, saved>>

\* The link failed: the destination exists again, or links are unsupported.
Copy(c, p) ==
    /\ call[c].pc = "link"
    /\ Turn(c, p)
    /\ ~HardLinks \/ file[p] # None
    /\ Bytes(c, p) # None
    /\ \E i \in Inode :
          /\ Fresh(i)
          /\ data' = [data EXCEPT ![i] = data[Bytes(c, p)]]
          /\ file' = [file EXCEPT ![p] = i]
    /\ Goto(c, "record")
    /\ UNCHANGED <<blob, index, held, saved>>

\* The disk refuses, or the source is gone since it was found.
FailPlace(c, p) ==
    /\ call[c].pc \in {"unlink", "link"}
    /\ Turn(c, p)
    /\ Goto(c, "rejected")
    /\ UNCHANGED <<blob, file, data, index, held, saved>>

Remember(c, p) ==
    /\ call[c].pc = "record"
    /\ Turn(c, p)
    /\ IF Remembers /\ file[p] # None
       THEN /\ index' = [index EXCEPT ![p] = [digest |-> call[c].batch[p],
                                              inode  |-> file[p],
                                              data   |-> data[file[p]]]]
            /\ held' = [held EXCEPT ![call[c].batch[p]] = p]
       ELSE UNCHANGED <<index, held>>
    /\ call' = [call EXCEPT
                  ![c].batch = [@ EXCEPT ![p] = None],
                  ![c].pc = IF Todo(c) = {p} THEN "ok" ELSE "find"]
    /\ UNCHANGED <<blob, file, data, saved>>

-----------------------------------------------------------------------------
(* Commit: save the index, then remove the blob directory name by name.    *)

SaveIndex(c) ==
    /\ call[c].pc = "save"
    /\ saved' = IF Remembers THEN index ELSE saved
    /\ Goto(c, "clear")
    /\ UNCHANGED <<blob, file, data, index, held>>

\* The index could not be written, or a name not be removed: an error 500.
FailCommit(c) ==
    /\ call[c].pc \in (IF Remembers THEN {"save", "clear"} ELSE {"clear"})
    /\ Goto(c, "broken")
    /\ UNCHANGED <<blob, file, data, index, held, saved>>

RemoveBlob(c, d) ==
    /\ call[c].pc = "clear"
    /\ blob[d] # None
    /\ blob' = [blob EXCEPT ![d] = None]
    /\ UNCHANGED <<file, data, index, held, saved, call>>

RemoveTemp(c, other) ==
    /\ call[c].pc = "clear"
    /\ call[other].temp # None
    /\ call' = [call EXCEPT ![other].temp = None]
    /\ UNCHANGED <<blob, file, data, index, held, saved>>

ClearedUnlooked(c) ==    \* mutant: what could not be removed is left behind
    /\ call[c].pc = "clear"
    /\ Goto(c, "ok")
    /\ UNCHANGED <<blob, file, data, index, held, saved>>

Cleared(c) ==
    /\ call[c].pc = "clear"
    /\ \A d \in Digest : blob[d] = None
    /\ \A other \in Call : call[other].temp = None
    /\ Goto(c, "ok")
    /\ UNCHANGED <<blob, file, data, index, held, saved>>

-----------------------------------------------------------------------------

TargetInit ==
    /\ blob = [d \in Digest |-> None]
    /\ file = [p \in Path |-> None]
    /\ data = [i \in Inode |-> Foreign]
    /\ index = [p \in Path |-> None]
    /\ held = [d \in Digest |-> None]
    /\ saved = [p \in Path |-> None]
    /\ call = [c \in Call |-> Blank]

ReloadedEmpty ==         \* mutant: a new receiver starts without a memory
    {[d \in Digest |-> None]}

\* What NewReceiver loads: one of the paths the saved index gives a digest.
Reloaded ==
    {h \in [Digest -> Path \cup {None}] :
        \A d \in Digest :
            LET known == {p \in Path : saved[p] # None /\ saved[p].digest = d}
            IN IF known = {} THEN h[d] = None ELSE h[d] \in known}

\* The process goes away with the calls it was handling; a new one starts.
Restart ==
    /\ call' = [c \in Call |-> Blank]
    /\ index' = saved
    /\ held' \in Reloaded
    /\ UNCHANGED <<blob, file, data, saved>>

\* One step of a call.
Handle(c) ==
    \/ \E d \in Digest : CheckDigest(c, d)
    \/ OpenTemp(c) \/ RejectBody(c) \/ StoreBlob(c) \/ LoseTemp(c)
    \/ \E p \in Path : \/ FindBytes(c, p) \/ Unlink(c, p) \/ Link(c, p) \/ Copy(c, p)
                      \/ FailPlace(c, p) \/ Remember(c, p)
    \/ SaveIndex(c) \/ FailCommit(c) \/ Cleared(c)
    \/ \E d \in Digest : RemoveBlob(c, d)
    \/ \E other \in Call : RemoveTemp(c, other)
=============================================================================
