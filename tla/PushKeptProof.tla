--------------------------- MODULE PushKeptProof ----------------------------
(***************************************************************************)
(* What apply reports in place stays in place, what the receiver says it   *)
(* has it can serve, and a run does to the destination what Delivery       *)
(* allows: for every number of paths, digests, runs, restarts, lost calls  *)
(* and edits, as long as Calm holds, that is                               *)
(*   - the receiver handles no call its sender has given up,               *)
(*   - nobody writes into a file at the destination that is a hard link,   *)
(*     and                                                                 *)
(*   - the source files a remembering receiver is sent do not change.      *)
(* push_late shows what becomes of Kept without the first of these, and    *)
(* push_overwritten what becomes of AnswersTrue without the third.         *)
(***************************************************************************)
EXTENDS PushProof

\* Digest d is what the source has at path p.
Origin(p, d) == d # None /\ \E t \in Trees : t[p] = d

Stable == \A p \in Path, d, e \in Digest : Origin(p, d) /\ Origin(p, e) => d = e

Calm == ~LateCalls /\ Unshared /\ (Remembers => Stable)

-----------------------------------------------------------------------------
(* The inductive invariant.                                                *)

Active(c) == call[c].pc \notin {"idle", "ok", "rejected", "broken"}

Steps(op) ==
    CASE op = "idle"    -> {"idle"}
      [] op = "missing" -> {"check", "ok"}
      [] op = "put"     -> {"open", "copy", "ok", "rejected"}
      [] op = "place"   -> {"find", "unlink", "link", "record", "ok", "rejected"}
      [] op = "commit"  -> {"save", "clear", "ok", "broken"}

OpOf(ph) ==
    CASE ph = "negotiate" -> "missing"
      [] ph = "upload"    -> "put"
      [] ph = "place"     -> "place"
      [] ph = "commit"    -> "commit"

\* A handler is at a step of its operation, and only placements have a batch.
Shape ==
    \A c \in Call :
        /\ call[c].pc \in Steps(call[c].op)
        /\ call[c].op = "idle" => call[c] = Blank
        /\ call[c].pc = "ok" \/ call[c].op # "place" => call[c].batch = NoFiles

\* One handler at work at most, and it is the one the run waits for, or the last
\* one of a sender that died.
Alone ==
    /\ \A c \in Call : Active(c) =>
          /\ \A e \in Call : Active(e) => e = c
          /\ Running => awaited = c
          /\ Running \/ phase = "failed"
    /\ awaited # None => call[awaited].op = OpOf(phase)

\* The batch at work: from the run's selection, still to place, not promised.
Batches ==
    /\ sel \in Trees \cup {NoFiles}
    /\ \A c \in Call, p \in Path :
          call[c].batch[p] # None => call[c].batch[p] = sel[p]
    /\ \A c \in Call, p \in Path :
          Active(c) /\ call[c].batch[p] # None => promise[p] = None

\* Paths the run is through with hold what it selected for them.
Progress ==
    /\ Running => toPlace \subseteq Selected(sel)
    /\ phase \in {"negotiate", "upload"} => toPlace = Selected(sel)
    /\ phase = "commit" => toPlace = {}
    /\ Running => \A p \in Selected(sel) \ toPlace : Holds(p) = sel[p]
    /\ phase = "place" /\ awaited # None =>
          \A p \in Path :
             /\ call[awaited].batch[p] # None => p \in NextBatch
             /\ p \in NextBatch /\ call[awaited].batch[p] = None => Holds(p) = sel[p]

\* The bytes a placement is about to use, or has just used, are the right ones.
Sources ==
    \A c \in Call, p \in Path : Turn(c, p) =>
        /\ call[c].pc \in {"unlink", "link"} =>
              /\ call[c].from # p
              /\ Bytes(c, p) # None => data[Bytes(c, p)] = call[c].batch[p]
        /\ call[c].pc = "record" => Holds(p) = call[c].batch[p]

\* An entry says what the source has at its path, and what was found there.
Faithful(entries) ==
    \A p \in Path : entries[p] # None =>
        /\ Remembers
        /\ entries[p].data = entries[p].digest
        /\ Origin(p, entries[p].digest)

Memory ==
    /\ \A d \in Digest : held[d] # None => Remembers /\ Origin(held[d], d)
    /\ Faithful(index)
    /\ Faithful(saved)

KInv ==
    /\ TypeOK /\ Waiting /\ BlobsTrue /\ Apart
    /\ Shape /\ Alone /\ Batches /\ Progress /\ Sources /\ Memory /\ Kept

-----------------------------------------------------------------------------
(* One step of a handler.                                                  *)

\* Only placements have a batch, and only while they are at work on it.
LEMMA BatchMeansPlace ==
    ASSUME TypeOK, Shape, NEW c \in Call, NEW p \in Path, call[c].batch[p] # None
    PROVE  call[c].op = "place"
BY DEF Shape, NoFiles

\* A handler that takes a step is at work.
LEMMA HandleActive ==
    ASSUME NEW c \in Call, Handle(c)
    PROVE  Active(c)
BY DEF Handle, CheckDigest, OpenTemp, RejectBody, StoreBlob, LoseTemp, FindBytes, Unlink,
       Link, Copy, FailPlace, Remember, SaveIndex, FailCommit, Cleared, RemoveBlob,
       RemoveTemp, Active

\* A step of a handler is no other call's business, but for a temporary file; its
\* own batch it only makes smaller, by what it records.
LEMMA HandleCalls ==
    ASSUME TypeOK, NEW c \in Call, Handle(c)
    PROVE  /\ \A e \in Call : /\ call'[e].op = call[e].op
                              /\ e # c => call'[e].pc = call[e].pc
                              /\ e # c => call'[e].batch = call[e].batch
                              /\ e # c => call'[e].from = call[e].from
           /\ \A p \in Path : /\ call'[c].batch[p] \in {call[c].batch[p], None}
                              /\ call'[c].batch[p] # call[c].batch[p] =>
                                    call[c].pc = "record" /\ Turn(c, p)
<1> USE DEF TypeOK, TargetTypeOK, CallState, Batch
<1>1. ASSUME NEW p \in Path, Remember(c, p)
      PROVE  \E pc \in Pc : call' = [call EXCEPT ![c].batch = [@ EXCEPT ![p] = None],
                                                 ![c].pc = pc]
  BY <1>1 DEF Remember, Pc
<1>2. CASE \E p \in Path : Remember(c, p)
  <2>1. PICK p \in Path : Remember(c, p)
    BY <1>2
  <2>2. PICK pc \in Pc : call' = [call EXCEPT ![c].batch = [@ EXCEPT ![p] = None],
                                              ![c].pc = pc]
    BY <1>1, <2>1
  <2>3. call[c].pc = "record" /\ Turn(c, p)
    BY <2>1 DEF Remember
  <2> QED BY <2>2, <2>3
<1>3. ASSUME NEW d \in Digest, CheckDigest(c, d)
      PROVE  call'[c].op = call[c].op /\ call'[c].batch = call[c].batch
             /\ \A e \in Call \ {c} : call'[e] = call[e]
  BY <1>3 DEF CheckDigest
<1>4. ASSUME NEW other \in Call, RemoveTemp(c, other)
      PROVE  \A e \in Call : /\ call'[e].op = call[e].op
                             /\ call'[e].pc = call[e].pc
                             /\ call'[e].batch = call[e].batch
                             /\ call'[e].from = call[e].from
  BY <1>4 DEF RemoveTemp
<1>5. ASSUME OpenTemp(c) \/ RejectBody(c) \/ StoreBlob(c) \/ LoseTemp(c) \/ SaveIndex(c)
             \/ FailCommit(c) \/ Cleared(c)
      PROVE  call'[c].op = call[c].op /\ call'[c].batch = call[c].batch
             /\ \A e \in Call \ {c} : call'[e] = call[e]
  BY <1>5, OpenTempCall DEF RejectBody, StoreBlob, LoseTemp, SaveIndex, FailCommit, Cleared,
                            Goto
<1>6. ASSUME NEW p \in Path,
             FindBytes(c, p) \/ Unlink(c, p) \/ Link(c, p) \/ Copy(c, p) \/ FailPlace(c, p)
      PROVE  call'[c].op = call[c].op /\ call'[c].batch = call[c].batch
             /\ \A e \in Call \ {c} : call'[e] = call[e]
  BY <1>6 DEF FindBytes, Unlink, Link, Copy, FailPlace, Goto
<1>7. ASSUME NEW d \in Digest, RemoveBlob(c, d) PROVE call' = call
  BY <1>7 DEF RemoveBlob
<1> QED BY <1>2, <1>3, <1>4, <1>5, <1>6, <1>7 DEF Handle

\* It touches no path but the one whose turn it is: every other has the file it
\* had, and that file its bytes.
LEMMA HandleFile ==
    ASSUME TypeOK, NEW c \in Call, Handle(c), NEW p \in Path, ~Turn(c, p)
    PROVE  /\ file'[p] = file[p]
           /\ file[p] # None => data'[file[p]] = data[file[p]]
<1> USE DEF TypeOK, TargetTypeOK
<1>1. CASE UNCHANGED <<file, data>>
  BY <1>1
<1>2. CASE StoreBlob(c)
  BY <1>2, FreshIsNew DEF StoreBlob
<1>3. ASSUME NEW q \in Path, Turn(c, q), UNCHANGED data, \E i : file' = [file EXCEPT ![q] = i]
      PROVE  file'[p] = file[p] /\ data' = data
  BY <1>3
<1>4. ASSUME NEW q \in Path, Copy(c, q)
      PROVE  /\ file'[p] = file[p]
             /\ file[p] # None => data'[file[p]] = data[file[p]]
  <2>1. PICK i \in Inode :
           /\ Fresh(i)
           /\ data' = [data EXCEPT ![i] = data[Bytes(c, q)]]
           /\ file' = [file EXCEPT ![q] = i]
    BY <1>4 DEF Copy
  <2>2. p # q
    BY <1>4 DEF Copy
  <2>3. file'[p] = file[p] /\ file[p] # i
    BY <2>1, <2>2, FreshIsNew
  <2> QED BY <2>1, <2>3
<1> QED
  BY <1>1, <1>2, <1>3, <1>4
     DEF Handle, CheckDigest, OpenTemp, RejectBody, LoseTemp, FindBytes, Unlink, Link,
         FailPlace, Remember, SaveIndex, FailCommit, Cleared, RemoveBlob, RemoveTemp

LEMMA HandleHolds ==
    ASSUME TypeOK, NEW c \in Call, Handle(c), NEW p \in Path, ~Turn(c, p)
    PROVE  Holds(p)' = Holds(p)
BY HandleFile DEF Holds

-----------------------------------------------------------------------------
(* What is remembered is right.                                            *)

\* A digest the receiver has is served with its bytes: what is remembered of a
\* path can only be what the source has there, which is one content.
LEMMA MemoryAnswers ==
    ASSUME Calm, TypeOK, BlobsTrue, Memory
    PROVE  AnswersTrue
<1> SUFFICES ASSUME NEW d \in Digest, Has(d) PROVE data[Serving(d)] = d
  BY DEF AnswersTrue
<1>1. CASE blob[d] # None
  BY <1>1 DEF BlobsTrue, Serving
<1>2. CASE blob[d] = None
  <2> DEFINE p == held[d]
  <2>1. p # None /\ Untouched(p) /\ PlacedAt(d) = p /\ p \in Path
    BY <1>2 DEF Has, PlacedAt, TypeOK, TargetTypeOK
  <2>2. index[p] # None /\ index[p].digest \in Digest /\ data[file[p]] = index[p].digest
    BY <2>1 DEF Untouched, Memory, Faithful, TypeOK, TargetTypeOK, Entry
  <2>3. Remembers /\ Origin(p, d) /\ Origin(p, index[p].digest)
    BY <2>1, <2>2 DEF Memory, Faithful
  <2>4. index[p].digest = d
    BY <2>1, <2>2, <2>3 DEF Calm, Stable
  <2> QED BY <1>2, <2>1, <2>2, <2>4 DEF Serving
<1> QED BY <1>1, <1>2

LEMMA RestartMemory == TypeOK /\ Memory /\ Restart => Memory'
<1> SUFFICES ASSUME TypeOK, Memory, Restart PROVE Memory'
  OBVIOUS
<1>1. \A p \in Path : index'[p] = saved[p] /\ saved'[p] = saved[p]
  BY DEF Restart
<1>2. ASSUME NEW d \in Digest, held'[d] # None
      PROVE  Remembers /\ Origin(held'[d], d)
  <2>1. held'[d] \in {p \in Path : saved[p] # None /\ saved[p].digest = d}
    BY <1>2 DEF Restart, Reloaded
  <2> QED BY <2>1 DEF Memory, Faithful
<1> QED BY <1>1, <1>2 DEF Memory, Faithful, Origin

LEMMA HandleMemory ==
    ASSUME TypeOK, Batches, Sources, Memory, NEW c \in Call, Handle(c)
    PROVE  Memory'
<1>1. CASE UNCHANGED <<index, held, saved>>
  BY <1>1 DEF Memory, Faithful, Origin
<1>2. CASE SaveIndex(c)
  BY <1>2 DEF SaveIndex, Memory, Faithful, Origin
<1>3. ASSUME NEW p \in Path, Remember(c, p), Remembers, file[p] # None PROVE Memory'
  <2> DEFINE d == call[c].batch[p]
  <2>1. d \in Digest /\ Turn(c, p) /\ call[c].pc = "record"
    BY <1>3 DEF Remember, Turn, Todo, TypeOK, TargetTypeOK, CallState, Batch
  <2>2. data[file[p]] = d
    BY <1>3, <2>1 DEF Sources, Holds
  <2>3. Origin(p, d)
    <3>1. d = sel[p] /\ sel[p] # None
      BY <2>1 DEF Batches, Turn, Todo
    <3>2. sel \in Trees
      BY <3>1 DEF Batches, NoFiles
    <3> QED BY <3>1, <3>2 DEF Origin
  <2>4. index' = [index EXCEPT ![p] = [digest |-> d, inode |-> file[p], data |-> data[file[p]]]]
        /\ held' = [held EXCEPT ![d] = p] /\ saved' = saved
    BY <1>3 DEF Remember
  <2>5. Faithful(index)'
    BY <1>3, <2>2, <2>3, <2>4 DEF Memory, Faithful, Origin, TypeOK, TargetTypeOK
  <2>6. \A e \in Digest : held'[e] # None => Remembers /\ Origin(held'[e], e)
    BY <1>3, <2>1, <2>3, <2>4 DEF Memory, TypeOK, TargetTypeOK
  <2> QED BY <2>4, <2>5, <2>6 DEF Memory, Faithful, Origin
<1>4. ASSUME NEW p \in Path, Remember(c, p) PROVE Memory'
  BY <1>1, <1>3, <1>4 DEF Remember
<1> QED
  BY <1>1, <1>2, <1>4
     DEF Handle, CheckDigest, OpenTemp, RejectBody, StoreBlob, LoseTemp, FindBytes, Unlink,
         Link, Copy, FailPlace, FailCommit, Cleared, RemoveBlob, RemoveTemp

LEMMA NextMemory ==
    ASSUME TypeOK, Batches, Sources, Memory, [Next]_vars
    PROVE  Memory'
<1>1. CASE UNCHANGED <<index, held, saved>>
  BY <1>1 DEF Memory, Faithful, Origin
<1>2. ASSUME NEW c \in Call, Work(c) PROVE Memory'
  BY <1>2, HandleMemory DEF Work
<1>3. CASE Restart
  BY <1>3, RestartMemory
<1> QED
  BY <1>1, <1>2, <1>3
     DEF Next, Start, SendMissing, HandOver, SendBlob, SendPlacements, SendCommit, Send,
         Advance, AnswerMissing, AnswerBlob, AnswerPlacements, AnswerCommit,
         AnswerRejected, AnswerBroken, Receive, LoseRequest, LoseAnswer, Forget,
         StopUpload, Quit,
         RestartReceiver, Edit, Rest, vars, targetVars

-----------------------------------------------------------------------------
(* The invariant under a step of a handler.                                *)

LEMMA HandleShape ==
    ASSUME TypeOK, Shape, NEW c \in Call, Handle(c)
    PROVE  Shape'
<1> DEFINE Good(r) == /\ r.pc \in Steps(r.op)
                      /\ r.op = "idle" => r = Blank
                      /\ r.pc = "ok" \/ r.op # "place" => r.batch = NoFiles
<1> USE DEF TypeOK, TargetTypeOK
<1>1. \A e \in Call : Good(call[e])
  BY DEF Shape
<1>2. ASSUME NEW pc, call' = [call EXCEPT ![c].pc = pc], call[c].op # "idle",
             pc \in Steps(call[c].op), pc = "ok" => call[c].op # "place"
      PROVE  Shape'
  BY <1>1, <1>2 DEF CallState, Shape
<1>3. call[c].op # "idle" /\ call[c].pc \in Steps(call[c].op)
  <2>1. call[c].pc # "idle"
    BY HandleActive DEF Active
  <2> QED BY <2>1, <1>1 DEF Steps
<1>4. call[c].op \in Op
  BY DEF CallState
<1>5. ASSUME NEW d \in Digest, CheckDigest(c, d) PROVE Shape'
  <2>1. call[c].op = "missing"
    BY <1>3, <1>4, <1>5 DEF CheckDigest, Steps, Op
  <2>2. call'[c].op = "missing" /\ call'[c].pc \in {"check", "ok"}
        /\ call'[c].batch = call[c].batch /\ \A e \in Call \ {c} : call'[e] = call[e]
    BY <1>5, <2>1 DEF CheckDigest, CallState
  <2>3. \A e \in Call : Good(call'[e])
    BY <1>1, <2>1, <2>2 DEF Steps
  <2> QED BY <2>3 DEF Shape
<1>6. ASSUME OpenTemp(c) \/ RejectBody(c) \/ StoreBlob(c) \/ LoseTemp(c) PROVE Shape'
  <2>1. call[c].op = "put"
    BY <1>3, <1>4, <1>6 DEF OpenTemp, RejectBody, StoreBlob, LoseTemp, Steps, Op
  <2>2. call'[c].op = "put" /\ call'[c].pc \in {"copy", "ok", "rejected"}
        /\ call'[c].batch = call[c].batch /\ \A e \in Call \ {c} : call'[e] = call[e]
    BY <1>6, <2>1, OpenTempCall DEF RejectBody, StoreBlob, LoseTemp, Goto, CallState
  <2>3. \A e \in Call : Good(call'[e])
    BY <1>1, <2>1, <2>2 DEF Steps
  <2> QED BY <2>3 DEF Shape
<1>7. ASSUME NEW p \in Path,
             FindBytes(c, p) \/ Unlink(c, p) \/ Link(c, p) \/ Copy(c, p) \/ FailPlace(c, p)
      PROVE  Shape'
  <2>1. call[c].op = "place"
    BY <1>3, <1>4, <1>7 DEF FindBytes, Unlink, Link, Copy, FailPlace, Steps, Op
  <2>2. call'[c].op = "place" /\ call'[c].pc \in {"unlink", "link", "record", "rejected"}
        /\ \A e \in Call \ {c} : call'[e] = call[e]
    BY <1>7, <2>1 DEF FindBytes, Unlink, Link, Copy, FailPlace, Goto, CallState
  <2>3. \A e \in Call : Good(call'[e])
    BY <1>1, <2>2 DEF Steps
  <2> QED BY <2>3 DEF Shape
<1>8. ASSUME NEW p \in Path, Remember(c, p) PROVE Shape'
  <2>1. call[c].op = "place"
    BY <1>3, <1>4, <1>8 DEF Remember, Steps, Op
  <2>2. call'[c].op = "place" /\ call'[c].pc \in {"ok", "find"}
        /\ call'[c].batch = [call[c].batch EXCEPT ![p] = None]
        /\ (call'[c].pc = "ok" => Todo(c) = {p})
        /\ \A e \in Call \ {c} : call'[e] = call[e]
    BY <1>8, <2>1 DEF Remember, CallState
  <2>3. call'[c].pc = "ok" => call'[c].batch = NoFiles
    BY <2>2 DEF Todo, NoFiles, CallState, Batch
  <2>4. \A e \in Call : Good(call'[e])
    BY <1>1, <2>2, <2>3 DEF Steps
  <2> QED BY <2>4 DEF Shape
<1>9. ASSUME SaveIndex(c) \/ FailCommit(c) \/ Cleared(c) PROVE Shape'
  <2>1. call[c].op = "commit"
    BY <1>3, <1>4, <1>9 DEF SaveIndex, FailCommit, Cleared, Steps, Op
  <2>2. call'[c].op = "commit" /\ call'[c].pc \in {"clear", "ok", "broken"}
        /\ call'[c].batch = call[c].batch /\ \A e \in Call \ {c} : call'[e] = call[e]
    BY <1>9, <2>1 DEF SaveIndex, FailCommit, Cleared, Goto, CallState
  <2>3. \A e \in Call : Good(call'[e])
    BY <1>1, <2>1, <2>2 DEF Steps
  <2> QED BY <2>3 DEF Shape
<1>10. ASSUME NEW d \in Digest, RemoveBlob(c, d) PROVE Shape'
  BY <1>10 DEF RemoveBlob, Shape
<1>11. ASSUME NEW other \in Call, RemoveTemp(c, other) PROVE Shape'
  <2>1. call[other].op # "idle"
    BY <1>1, <1>11 DEF RemoveTemp, Blank
  <2>2. \A e \in Call : /\ call'[e].op = call[e].op
                        /\ call'[e].pc = call[e].pc
                        /\ call'[e].batch = call[e].batch
                        /\ e # other => call'[e] = call[e]
    BY <1>11 DEF RemoveTemp
  <2>3. \A e \in Call : Good(call'[e])
    BY <1>1, <2>1, <2>2
  <2> QED BY <2>3 DEF Shape
<1> QED BY <1>5, <1>6, <1>7, <1>8, <1>9, <1>10, <1>11 DEF Handle

LEMMA WorkAlone ==
    ASSUME TypeOK, Alone, NEW c \in Call, Work(c)
    PROVE  Alone'
<1>1. \A e \in Call : /\ call'[e].op = call[e].op
                      /\ e # c => call'[e].pc = call[e].pc
  BY HandleCalls DEF Work
<1>2. Active(c)
  BY HandleActive DEF Work
<1>3. UNCHANGED <<phase, awaited>>
  BY DEF Work, senderVars
<1>4. \A e \in Call : Active(e)' => Active(e)
  BY <1>1, <1>2 DEF Active
<1>5. awaited # None => awaited \in Call
  BY DEF TypeOK
<1> QED BY <1>1, <1>3, <1>4, <1>5 DEF Alone, Running

LEMMA WorkBatches ==
    ASSUME TypeOK, Batches, NEW c \in Call, Work(c)
    PROVE  Batches'
<1>1. \A e \in Call, p \in Path :
         /\ call'[e].batch[p] \in {call[e].batch[p], None}
         /\ Active(e)' => Active(e)
  BY HandleCalls, HandleActive DEF Work, Active
<1>2. UNCHANGED <<sel, promise>>
  BY DEF Work, senderVars
<1> QED BY <1>1, <1>2 DEF Batches

\* A path whose turn it is, in the call a run waits for, is still to place.
LEMMA TurnToPlace ==
    ASSUME TypeOK, Shape, Alone, Progress, Running,
           NEW c \in Call, Active(c), NEW p \in Path, Turn(c, p)
    PROVE  phase = "place" /\ p \in toPlace
<1>1. call[c].op = "place" /\ call[c].batch[p] # None
  BY BatchMeansPlace DEF Turn, Todo
<1>2. awaited = c /\ awaited # None
  BY FileTargetAssumption DEF Alone
<1>3. phase = "place"
  BY <1>1, <1>2 DEF Alone, OpOf, Running, Calling
<1> QED BY <1>1, <1>2, <1>3 DEF Progress, NextBatch

LEMMA WorkProgress ==
    ASSUME TypeOK, Shape, Alone, Batches, Progress, Sources, NEW c \in Call, Work(c)
    PROVE  Progress'
<1>1. UNCHANGED <<phase, sel, toPlace, awaited>> /\ Handle(c) /\ Active(c)
  BY HandleActive DEF Work, senderVars
<1>2. ASSUME Running, NEW p \in Path, p \in Selected(sel) \ toPlace
      PROVE  Holds(p)' = sel[p]
  BY <1>1, <1>2, TurnToPlace, HandleHolds DEF Progress
<1>3. ASSUME phase = "place", awaited # None, NEW p \in Path
      PROVE  /\ call'[awaited].batch[p] # None => p \in NextBatch
             /\ p \in NextBatch /\ call'[awaited].batch[p] = None => Holds(p)' = sel[p]
  <2>1. awaited = c
    BY <1>1, <1>3 DEF Alone, Running, Calling
  <2>2. call'[c].batch[p] # None => p \in NextBatch
    BY <1>1, <1>3, <2>1, HandleCalls DEF Progress
  <2>3. ASSUME p \in NextBatch, call[c].batch[p] = None
        PROVE  Holds(p)' = sel[p]
    BY <1>1, <1>3, <2>1, <2>3, HandleHolds DEF Progress, Turn, Todo
  <2>4. ASSUME call[c].batch[p] # None, call'[c].batch[p] = None
        PROVE  Holds(p)' = sel[p]
    <3>1. call[c].pc = "record" /\ Turn(c, p)
      BY <1>1, <2>4, HandleCalls
    <3>2. UNCHANGED <<file, data>>
      BY <1>1, <3>1 DEF Handle, CheckDigest, OpenTemp, RejectBody, StoreBlob, LoseTemp,
           FindBytes, Unlink, Link, Copy, FailPlace, Remember, SaveIndex, FailCommit,
           Cleared, RemoveBlob, RemoveTemp
    <3>3. Holds(p) = call[c].batch[p] /\ call[c].batch[p] = sel[p]
      BY <2>4, <3>1 DEF Sources, Batches
    <3> QED BY <3>2, <3>3 DEF Holds
  <2> QED BY <2>1, <2>2, <2>3, <2>4
<1> QED
  BY <1>1, <1>2, <1>3 DEF Progress, Running, Calling, Selected, NextBatch

LEMMA WorkKept ==
    ASSUME TypeOK, Batches, Kept, NEW c \in Call, Work(c)
    PROVE  Kept'
<1>1. UNCHANGED promise /\ Handle(c) /\ Active(c)
  BY HandleActive DEF Work, senderVars
<1>2. ASSUME NEW p \in Path, promise[p] # None PROVE Holds(p)' = promise[p]
  <2>1. ~Turn(c, p)
    BY <1>1, <1>2 DEF Batches, Turn, Todo
  <2> QED BY <1>1, <1>2, <2>1, HandleHolds DEF Kept
<1> QED BY <1>1, <1>2 DEF Kept

LEMMA OneTurn ==
    ASSUME NEW c \in Call, NEW p \in Path, NEW q \in Path, Turn(c, p), Turn(c, q)
    PROVE  p = q
BY FileTargetAssumption DEF Turn, Path

\* What a placement found has the bytes, and is another file than the path itself.
LEMMA FoundSource ==
    ASSUME TypeOK, BlobsTrue, AnswersTrue, NEW c \in Call, NEW p \in Path, FindBytes(c, p)
    PROVE  /\ call'[c].pc \in {"unlink", "link"} =>
                /\ call'[c].from # p
                /\ Bytes(c, p)' # None => data'[Bytes(c, p)'] = call'[c].batch[p]
           /\ call'[c].pc = "record" => Holds(p)' = call'[c].batch[p]
<1> DEFINE d == call[c].batch[p]
<1> USE DEF TypeOK, TargetTypeOK
<1>1. d \in Digest /\ call[c] \in CallState
  BY DEF FindBytes, Turn, Todo, CallState, Batch
<1>2. UNCHANGED <<blob, file, data>>
  BY DEF FindBytes
<1>3. CASE blob[d] # None /\ call' = [call EXCEPT ![c].from = Blob, ![c].pc = "unlink"]
  <2>1. call'[c].from = Blob /\ call'[c].pc = "unlink" /\ call'[c].batch = call[c].batch
    BY <1>1, <1>3 DEF CallState
  <2>2. Blob # p
    BY FileTargetAssumption DEF Blob, Path
  <2> QED BY <1>1, <1>2, <1>3, <2>1, <2>2 DEF BlobsTrue, Bytes
<1>4. CASE /\ blob[d] = None
           /\ PlacedAt(d) # None
           /\ call' = [call EXCEPT ![c].from = PlacedAt(d),
                                  ![c].pc = IF PlacedAt(d) = p THEN "record" ELSE "unlink"]
  <2>1. /\ call'[c].from = PlacedAt(d)
        /\ call'[c].pc = IF PlacedAt(d) = p THEN "record" ELSE "unlink"
        /\ call'[c].batch = call[c].batch
    BY <1>1, <1>4 DEF CallState
  <2>2. PlacedAt(d) \in Path /\ file[PlacedAt(d)] # None
    BY <1>1, <1>4 DEF PlacedAt, Untouched
  <2>3. data[file[PlacedAt(d)]] = d
    BY <1>1, <1>4 DEF AnswersTrue, Has, Serving
  <2>4. PlacedAt(d) # Blob
    BY <2>2, FileTargetAssumption DEF Path, Blob
  <2> QED BY <1>2, <2>1, <2>2, <2>3, <2>4 DEF Bytes, Holds
<1>5. CASE Goto(c, "rejected")
  BY <1>5 DEF Goto, CallState
<1> QED BY <1>3, <1>4, <1>5 DEF FindBytes

LEMMA WorkSources ==
    ASSUME TypeOK, BlobsTrue, AnswersTrue, Alone, Sources, NEW c \in Call, Work(c)
    PROVE  Sources'
<1> DEFINE Apt(p) ==
      /\ call'[c].pc \in {"unlink", "link"} =>
            /\ call'[c].from # p
            /\ Bytes(c, p)' # None => data'[Bytes(c, p)'] = call'[c].batch[p]
      /\ call'[c].pc = "record" => Holds(p)' = call'[c].batch[p]
<1> USE DEF TypeOK, TargetTypeOK
<1>1. Handle(c)
  BY DEF Work
<1>2. ASSUME NEW e \in Call, e # c
      PROVE  call'[e].pc \notin {"unlink", "link", "record"}
  <2>1. call'[e].pc = call[e].pc
    BY <1>1, <1>2, HandleCalls
  <2>2. ~Active(e)
    BY <1>1, <1>2, HandleActive DEF Alone
  <2> QED BY <2>1, <2>2 DEF Active
<1>3. SUFFICES ASSUME NEW p \in Path, Turn(c, p)',
                      call'[c].pc \in {"unlink", "link", "record"}
               PROVE  Apt(p)
  BY <1>2, <1>3 DEF Sources
<1>4. ASSUME NEW q \in Path, FindBytes(c, q) PROVE Apt(p)
  <2>1. call'[c].batch = call[c].batch
    BY <1>4 DEF FindBytes, Goto, CallState
  <2>2. q = p
    BY <1>3, <1>4, <2>1, OneTurn DEF FindBytes, Turn, Todo
  <2> QED BY <1>4, <2>2, FoundSource
<1>5. ASSUME NEW q \in Path, Unlink(c, q) PROVE Apt(p)
  <2>1. /\ call'[c].batch = call[c].batch
        /\ call'[c].from = call[c].from
        /\ call'[c].pc = "link"
        /\ call[c].pc = "unlink"
    BY <1>5 DEF Unlink, Goto, CallState
  <2>2. q = p /\ Turn(c, p)
    BY <1>3, <1>5, <2>1, OneTurn DEF Unlink, Turn, Todo
  <2>3. call[c].from # p /\ (Bytes(c, p) # None => data[Bytes(c, p)] = call[c].batch[p])
    BY <2>1, <2>2 DEF Sources
  <2>4. Bytes(c, p)' = Bytes(c, p) /\ data' = data
    BY <1>5, <2>1, <2>2, <2>3 DEF Unlink, Bytes, CallState, Source
  <2> QED BY <2>1, <2>3, <2>4
<1>6. ASSUME NEW q \in Path, Link(c, q) \/ Copy(c, q) PROVE Apt(p)
  <2>1. /\ call'[c].batch = call[c].batch
        /\ call'[c].pc = "record"
        /\ call[c].pc = "link"
    BY <1>6 DEF Link, Copy, Goto, CallState
  <2>2. q = p /\ Turn(c, p)
    BY <1>3, <1>6, <2>1, OneTurn DEF Link, Copy, Turn, Todo
  <2>3. Bytes(c, p) # None /\ data[Bytes(c, p)] = call[c].batch[p]
    BY <1>6, <2>1, <2>2 DEF Sources, Link, Copy
  <2>4. CASE Link(c, p)
    <3>1. file'[p] = Bytes(c, p) /\ data' = data
      BY <2>4 DEF Link
    <3> QED BY <2>1, <2>3, <3>1 DEF Holds
  <2>5. CASE Copy(c, p)
    <3>1. PICK i \in Inode : /\ data' = [data EXCEPT ![i] = data[Bytes(c, p)]]
                             /\ file' = [file EXCEPT ![p] = i]
      BY <2>5 DEF Copy
    <3>2. i # None
      BY FileTargetAssumption
    <3> QED BY <2>1, <2>3, <3>1, <3>2 DEF Holds
  <2> QED BY <1>6, <2>2, <2>4, <2>5
<1>7. ASSUME NEW q \in Path, FailPlace(c, q) \/ Remember(c, q) PROVE Apt(p)
  BY <1>3, <1>7 DEF FailPlace, Remember, Goto, CallState
<1>8. ASSUME NEW d \in Digest, CheckDigest(c, d) \/ RemoveBlob(c, d) PROVE Apt(p)
  BY <1>3, <1>8 DEF CheckDigest, RemoveBlob, CallState
<1>9. ASSUME NEW other \in Call, RemoveTemp(c, other) PROVE Apt(p)
  BY <1>3, <1>9 DEF RemoveTemp
<1>10. ASSUME OpenTemp(c) \/ RejectBody(c) \/ StoreBlob(c) \/ LoseTemp(c) \/ SaveIndex(c)
              \/ FailCommit(c) \/ Cleared(c)
       PROVE  Apt(p)
  BY <1>3, <1>10, OpenTempCall DEF RejectBody, StoreBlob, LoseTemp, SaveIndex, FailCommit,
                                   Cleared, Goto, CallState
<1> QED BY <1>1, <1>4, <1>5, <1>6, <1>7, <1>8, <1>9, <1>10 DEF Handle

LEMMA WorkKInv ==
    ASSUME Calm, KInv, NEW c \in Call, Work(c)
    PROVE  /\ Shape' /\ Alone' /\ Batches' /\ Progress' /\ Sources' /\ Kept'
<1>1. AnswersTrue
  BY MemoryAnswers DEF KInv
<1>2. Shape'
  BY HandleShape DEF KInv, Work
<1> QED
  BY <1>1, <1>2, WorkAlone, WorkBatches, WorkProgress, WorkSources, WorkKept DEF KInv
-----------------------------------------------------------------------------
(* The invariant under a step of the sender.                               *)

\* While a run waits for nothing, or for a call that is finished, nobody works.
LEMMA NobodyWorks ==
    ASSUME TypeOK, Alone, Running, awaited = None \/ Finished(awaited)
    PROVE  \A e \in Call : ~Active(e)
BY FileTargetAssumption DEF Alone, Active, Finished

LEMMA BlankIsIdle ==
    /\ ~(Blank.pc \in {"unlink", "link", "record"})
    /\ Blank.pc = "idle" /\ Blank.op = "idle" /\ Blank.batch = NoFiles
    /\ \A p \in Path : NoFiles[p] = None
BY DEF Blank, NoFiles

\* A step that only frees slots leaves the handlers' business as it was.
LEMMA FreeSlots ==
    ASSUME TypeOK, Shape, Sources, UNCHANGED <<blob, file, data>>,
           \A e \in Call : call'[e] \in {call[e], Blank}
    PROVE  /\ Shape' /\ Sources'
           /\ \A p \in Path : Holds(p)' = Holds(p)
           /\ \A e \in Call : Active(e)' => Active(e) /\ call'[e] = call[e]
<1>1. Shape'
  BY BlankIsIdle DEF Shape, Steps
<1>2. Sources'
  BY BlankIsIdle DEF Sources, Turn, Todo, Bytes, Holds
<1>3. \A p \in Path : Holds(p)' = Holds(p)
  BY DEF Holds
<1> QED BY <1>1, <1>2, <1>3, BlankIsIdle DEF Active

\* A run that lets go of a call, answered or lost, with nobody at work.
LEMMA LetGo ==
    ASSUME KInv, Running, awaited = None \/ Finished(awaited),
           UNCHANGED <<blob, file, data, sel>>, awaited' = None,
           \A e \in Call : call'[e] \in {call[e], Blank}
    PROVE  /\ Shape' /\ Alone' /\ Batches' /\ Sources'
           /\ \A p \in Path : Holds(p)' = Holds(p)
<1> USE DEF KInv
<1>1. \A e \in Call : ~Active(e)'
  BY NobodyWorks, FreeSlots
<1>2. Alone'
  BY <1>1 DEF Alone
<1>3. Batches'
  BY <1>1, BlankIsIdle DEF Batches
<1> QED BY <1>2, <1>3, FreeSlots

LEMMA StartKInv ==
    ASSUME Calm, KInv, NEW t \in Trees, Start(t)
    PROVE  /\ Shape' /\ Alone' /\ Batches' /\ Progress' /\ Sources' /\ Kept'
<1> USE DEF KInv
<1>1. UNCHANGED targetVars /\ UNCHANGED promise /\ awaited' = None /\ sel' = t
      /\ phase' = "negotiate" /\ toPlace' = Selected(t)
  BY DEF Start
<1>2. \A c \in Call : call[c] = Blank /\ call'[c] = Blank
  BY <1>1 DEF Calm, Start, Idle, Shape, targetVars
<1>3. Shape' /\ Sources' /\ \A p \in Path : Holds(p)' = Holds(p)
  BY <1>1, <1>2, FreeSlots DEF targetVars
<1>4. \A c \in Call : ~Active(c)'
  BY <1>2, BlankIsIdle DEF Active
<1>5. Alone'
  BY <1>1, <1>4 DEF Alone
<1>6. Batches'
  BY <1>1, <1>2, <1>4, BlankIsIdle DEF Batches
<1>7. Progress'
  BY <1>1 DEF Progress, Selected
<1>8. Kept'
  BY <1>1, <1>3 DEF Kept
<1> QED BY <1>3, <1>5, <1>6, <1>7, <1>8

LEMMA SendKInv ==
    ASSUME KInv, Running, NEW request \in CallState, Send(request),
           request.op = OpOf(phase), request.pc \in Steps(request.op),
           request.op # "idle", ~(request.pc \in {"unlink", "link", "record", "ok"}),
           request.op # "place" => request.batch = NoFiles,
           \A p \in Path : request.batch[p] # None =>
              p \in NextBatch /\ request.batch[p] = sel[p] /\ promise'[p] = None,
           phase = "place" => \A p \in NextBatch : request.batch[p] # None,
           \A p \in Path : promise'[p] \in {promise[p], None}
    PROVE  /\ Shape' /\ Alone' /\ Batches' /\ Progress' /\ Sources' /\ Kept'
<1> USE DEF KInv, TypeOK, TargetTypeOK
<1>1. PICK c \in Call : call' = [call EXCEPT ![c] = request] /\ awaited' = c
  BY DEF Send
<1>2. UNCHANGED <<blob, file, data, phase, sel, toPlace>> /\ awaited = None
  BY DEF Send
<1>3. call'[c] = request /\ \A e \in Call \ {c} : call'[e] = call[e]
  BY <1>1
<1>4. \A e \in Call : Active(e)' => e = c
  BY <1>2, <1>3, NobodyWorks DEF Active
<1>5. Shape'
  BY <1>3 DEF Shape
<1>6. Alone'
  BY <1>1, <1>2, <1>3, <1>4 DEF Alone, Running
<1>7. Batches'
  BY <1>2, <1>3, <1>4 DEF Batches
<1>8. \A p \in Path : Holds(p)' = Holds(p)
  BY <1>2 DEF Holds
<1>9. Progress'
  BY <1>1, <1>2, <1>3, <1>8 DEF Progress, Running, Selected, NextBatch
<1>10. Sources'
  <2>1. ASSUME NEW e \in Call \ {c}, NEW p \in Path
        PROVE  /\ Turn(e, p)' = Turn(e, p) /\ Bytes(e, p)' = Bytes(e, p)
    BY <1>2, <1>3, <2>1 DEF Turn, Todo, Bytes
  <2> QED BY <1>2, <1>3, <1>8, <2>1 DEF Sources
<1>11. Kept'
  BY <1>8 DEF Kept
<1> QED BY <1>5, <1>6, <1>7, <1>9, <1>10, <1>11

LEMMA SendsKInv ==
    ASSUME KInv, SendMissing \/ SendBlob \/ SendPlacements \/ SendCommit
    PROVE  /\ Shape' /\ Alone' /\ Batches' /\ Progress' /\ Sources' /\ Kept'
<1> USE BlankType, BlankIsIdle DEF Running, Calling, OpOf, Steps
<1>1. CASE SendMissing
  <2> DEFINE r == MissingCall(NextQuery)
  <2>1. r \in CallState
    <3>1. NextQuery \subseteq Digest
      BY DEF NextQuery, KInv, TypeOK
    <3> QED BY <3>1 DEF MissingCall, CallState, Op, Pc, Blank
  <2>2. r.op = "missing" /\ r.pc = "check" /\ r.batch = NoFiles
    BY DEF MissingCall, Blank
  <2>3. phase = "negotiate" /\ Send(r) /\ promise' = promise
    BY <1>1 DEF SendMissing
  <2> QED BY <2>1, <2>2, <2>3, SendKInv
<1>2. CASE SendBlob
  <2> DEFINE r == PutCall(job)
  <2>1. r \in CallState
    BY <1>2 DEF SendBlob, KInv, TypeOK, PutCall, CallState, Op, Pc, Blank
  <2>2. r.op = "put" /\ r.pc = "open" /\ r.batch = NoFiles
    BY DEF PutCall, Blank
  <2>3. phase = "upload" /\ Send(r) /\ promise' = promise
    BY <1>2 DEF SendBlob
  <2> QED BY <2>1, <2>2, <2>3, SendKInv
<1>3. CASE SendPlacements
  <2> DEFINE batch == [p \in Path |-> IF p \in NextBatch THEN sel[p] ELSE None]
             r == PlaceCall(batch)
  <2>1. batch \in Batch
    BY DEF Batch, KInv, TypeOK
  <2>2. r \in CallState
    BY <2>1 DEF PlaceCall, CallState, Op, Pc, Blank
  <2>3. r.op = "place" /\ r.pc = "find" /\ r.batch = batch
    BY DEF PlaceCall, Blank
  <2>4. phase = "place" /\ Send(r)
        /\ promise' = [p \in Path |-> IF p \in NextBatch THEN None ELSE promise[p]]
    BY <1>3 DEF SendPlacements
  <2>5. \A p \in NextBatch : p \in Path /\ sel[p] # None
    BY <2>4 DEF NextBatch, KInv, Progress, TypeOK, Selected
  <2> HIDE DEF r
  <2> QED BY <2>2, <2>3, <2>4, <2>5, SendKInv
<1>4. CASE SendCommit
  <2>1. CommitCall \in CallState
    BY DEF CommitCall, CallState, Op, Pc, Blank
  <2>2. CommitCall.op = "commit" /\ CommitCall.pc = "save" /\ CommitCall.batch = NoFiles
    BY DEF CommitCall, Blank
  <2>3. phase = "commit" /\ Send(CommitCall) /\ promise' = promise
    BY <1>4 DEF SendCommit
  <2> QED BY <2>1, <2>2, <2>3, SendKInv
<1> QED BY <1>1, <1>2, <1>3, <1>4
LEMMA AdvanceKInv ==
    ASSUME KInv, Advance
    PROVE  /\ Shape' /\ Alone' /\ Batches' /\ Progress' /\ Sources' /\ Kept'
<1> USE DEF KInv
<1>1. /\ Running /\ awaited = None /\ awaited' = None
      /\ UNCHANGED <<targetVars, sel, toPlace, promise>>
  BY DEF Advance, Running, Calling
<1>2. /\ Shape' /\ Alone' /\ Batches' /\ Sources'
      /\ \A p \in Path : Holds(p)' = Holds(p)
  BY <1>1, LetGo DEF targetVars
<1>3. \/ phase' = phase
      \/ phase' \in {"upload", "place"} /\ phase \in {"negotiate", "upload"}
      \/ phase' \in {"ready", "failed"}
      \/ phase' = "commit" /\ toPlace = {}
  BY DEF Advance
<1>4. Progress'
  BY <1>1, <1>2, <1>3 DEF Progress, Running, Calling, Selected
<1>5. Kept'
  BY <1>1, <1>2 DEF Kept
<1> QED BY <1>2, <1>4, <1>5

LEMMA AnswerKInv ==
    ASSUME KInv, NEW c \in Call,
           AnswerMissing(c) \/ AnswerBlob(c) \/ AnswerPlacements(c) \/ AnswerCommit(c)
           \/ AnswerRejected(c) \/ AnswerBroken(c)
    PROVE  /\ Shape' /\ Alone' /\ Batches' /\ Progress' /\ Sources' /\ Kept'
<1> USE DEF KInv
<1>1. /\ Running /\ awaited = c /\ Finished(c) /\ awaited' = None
      /\ UNCHANGED <<blob, file, data, sel>>
      /\ call' = [call EXCEPT ![c] = Blank]
  BY DEF AnswerMissing, AnswerBlob, AnswerPlacements, AnswerCommit, AnswerRejected,
         AnswerBroken, Receive, Running, Calling, Finished
<1>2. /\ Shape' /\ Alone' /\ Batches' /\ Sources'
      /\ \A p \in Path : Holds(p)' = Holds(p)
  <2>1. \A e \in Call : call'[e] \in {call[e], Blank}
    BY <1>1 DEF TypeOK, TargetTypeOK
  <2> QED BY <1>1, <2>1, LetGo
<1>3. c # None
  BY FileTargetAssumption
<1>4. CASE AnswerMissing(c) \/ AnswerBlob(c) \/ AnswerRejected(c) \/ AnswerBroken(c)
  <2>1. UNCHANGED <<toPlace, promise>>
    BY <1>4 DEF AnswerMissing, AnswerBlob, AnswerRejected, AnswerBroken, Retry, GiveUp
  <2>2. phase' \in {phase, "failed"}
    BY <1>4 DEF AnswerMissing, AnswerBlob, AnswerRejected, AnswerBroken, Retry, GiveUp
  <2>3. Progress'
    BY <1>1, <1>2, <2>1, <2>2 DEF Progress, Running, Calling, Selected
  <2>4. Kept'
    BY <1>2, <2>1 DEF Kept
  <2> QED BY <1>2, <2>3, <2>4
<1>5. CASE AnswerPlacements(c)
  <2>1. /\ phase = "place" /\ phase' = "place" /\ promise' = promise
        /\ toPlace' = toPlace \ NextBatch /\ call[c].pc = "ok"
    BY <1>5 DEF AnswerPlacements, Receive
  <2>2. \A p \in NextBatch : p \in Path /\ Holds(p) = sel[p]
    BY <1>1, <1>3, <2>1, BlankIsIdle DEF Progress, Shape, NextBatch, TypeOK
  <2>3. Progress'
    BY <1>1, <1>2, <2>1, <2>2 DEF Progress, Running, Calling, Selected
  <2>4. Kept'
    BY <1>2, <2>1 DEF Kept
  <2> QED BY <1>2, <2>3, <2>4
<1>6. CASE AnswerCommit(c)
  <2>1. /\ phase = "commit" /\ phase' = "done"
        /\ promise' = [p \in Path |-> IF sel[p] # None THEN sel[p] ELSE promise[p]]
    BY <1>6 DEF AnswerCommit
  <2>2. \A p \in Path : sel[p] # None => Holds(p) = sel[p]
    BY <1>1, <2>1 DEF Progress, Selected
  <2>3. Progress'
    BY <2>1 DEF Progress, Running, Calling
  <2>4. Kept'
    BY <1>2, <2>1, <2>2 DEF Kept
  <2> QED BY <1>2, <2>3, <2>4
<1> QED BY <1>4, <1>5, <1>6

LEMMA LossKInv ==
    ASSUME Calm, KInv, LoseRequest \/ \E c \in Call : LoseAnswer(c)
    PROVE  /\ Shape' /\ Alone' /\ Batches' /\ Progress' /\ Sources' /\ Kept'
<1> USE DEF KInv
<1>1. /\ Running /\ awaited' = None /\ (awaited = None \/ Finished(awaited))
      /\ UNCHANGED <<targetVars, sel, toPlace, promise>>
      /\ phase' \in {phase, "failed"}
  BY DEF LoseRequest, LoseAnswer, Retry, GiveUp, Running, Calling, Calm
<1>2. /\ Shape' /\ Alone' /\ Batches' /\ Sources'
      /\ \A p \in Path : Holds(p)' = Holds(p)
  BY <1>1, LetGo DEF targetVars
<1>3. Progress'
  BY <1>1, <1>2 DEF Progress, Running, Calling, Selected
<1>4. Kept'
  BY <1>1, <1>2 DEF Kept
<1> QED BY <1>2, <1>3, <1>4

LEMMA ForgetKInv ==
    ASSUME KInv, NEW c \in Call, Forget(c)
    PROVE  /\ Shape' /\ Alone' /\ Batches' /\ Progress' /\ Sources' /\ Kept'
<1> USE DEF KInv
<1>1. /\ UNCHANGED <<blob, file, data, senderVars>>
      /\ call' = [call EXCEPT ![c] = Blank] /\ awaited # c
  BY DEF Forget
<1>2. /\ \A e \in Call : call'[e] \in {call[e], Blank}
      /\ \A e \in Call \ {c} : call'[e] = call[e]
  BY <1>1 DEF TypeOK, TargetTypeOK
<1>3. /\ Shape' /\ Sources' /\ \A p \in Path : Holds(p)' = Holds(p)
      /\ \A e \in Call : Active(e)' => Active(e) /\ call'[e] = call[e]
  BY <1>1, <1>2, FreeSlots
<1>4. awaited # None => awaited \in Call /\ call'[awaited] = call[awaited]
  BY <1>1, <1>2 DEF TypeOK
<1>5. Alone'
  BY <1>1, <1>3, <1>4 DEF Alone, senderVars, Running
<1>6. Batches'
  BY <1>1, <1>2, <1>3, BlankIsIdle DEF Batches, senderVars
<1>7. Progress'
  BY <1>1, <1>3, <1>4 DEF Progress, senderVars, Running, Selected, NextBatch
<1>8. Kept'
  BY <1>1, <1>3 DEF Kept, senderVars
<1> QED BY <1>3, <1>5, <1>6, <1>7, <1>8

\* A sender or a receiver dies.
LEMMA CrashKInv ==
    ASSUME KInv, Quit \/ RestartReceiver
    PROVE  /\ Shape' /\ Alone' /\ Batches' /\ Progress' /\ Sources' /\ Kept'
<1> USE DEF KInv
<1>1. /\ UNCHANGED <<blob, file, data, sel, toPlace, promise>>
      /\ awaited' = None /\ phase' \in {phase, "failed"}
      /\ \A e \in Call : call'[e] \in {call[e], Blank}
  BY DEF Quit, RestartReceiver, Restart, Retry, GiveUp, targetVars, senderVars
<1>2. /\ Shape' /\ Sources' /\ \A p \in Path : Holds(p)' = Holds(p)
      /\ \A e \in Call : Active(e)' => Active(e) /\ call'[e] = call[e]
  BY <1>1, FreeSlots
<1>3. (\E e \in Call : Active(e)') => phase' = "failed"
  BY BlankIsIdle DEF Quit, RestartReceiver, Restart, Active
<1>4. Alone'
  BY <1>1, <1>2, <1>3 DEF Alone, Running, Calling
<1>5. Batches'
  BY <1>1, <1>2, BlankIsIdle DEF Batches
<1>6. Progress'
  BY <1>1, <1>2 DEF Progress, Running, Calling, Selected
<1>7. Kept'
  BY <1>1, <1>2 DEF Kept
<1> QED BY <1>2, <1>4, <1>5, <1>6, <1>7

\* Somebody who writes into a file writes into no other.
LEMMA WritesUnshared ==
    ASSUME Calm, KInv, NEW p \in Path, Edit(p), InPlaceEdits, file[p] # None
    PROVE  \A q \in Path : q # p => file[q] # file[p]
<1>1. ~HardLinks
  BY PushAssumption DEF Calm, Unshared, Edit, KInv, TypeOK
<1> QED BY <1>1 DEF KInv, Apart

\* A change somebody makes to one path is seen at no other.
LEMMA EditKInv ==
    ASSUME Calm, KInv, NEW p \in Path, Edit(p)
    PROVE  /\ Shape' /\ Alone' /\ Batches' /\ Progress' /\ Sources' /\ Kept'
<1> USE DEF KInv
<1>1. /\ Idle /\ ~Running /\ ~Running' /\ UNCHANGED <<call, sel, awaited, phase>>
      /\ promise' = [promise EXCEPT ![p] = None]
  BY DEF Edit, Calm, Running
<1>2. \A c \in Call : call'[c] = Blank
  BY <1>1 DEF Idle, Shape
<1>3. /\ Shape' /\ Alone' /\ Batches' /\ Progress' /\ Sources'
  <2>1. Shape'
    BY <1>1 DEF Shape
  <2>2. \A c \in Call : ~Active(c)'
    BY <1>2, BlankIsIdle DEF Active
  <2>3. awaited' = None
    BY <1>1 DEF Waiting
  <2> QED BY <1>1, <1>2, <2>1, <2>2, <2>3, BlankIsIdle
          DEF Alone, Batches, Progress, Running, Calling, Sources, Turn, Todo
<1>4. ASSUME NEW q \in Path, q # p PROVE Holds(q)' = Holds(q)
  <2>1. CASE UNCHANGED data /\ file' = [file EXCEPT ![p] = None]
    BY <1>4, <2>1 DEF Holds, TypeOK, TargetTypeOK
  <2>2. ASSUME NEW i \in Inode, Fresh(i), data' = [data EXCEPT ![i] = Foreign],
               file' = [file EXCEPT ![p] = i]
        PROVE  Holds(q)' = Holds(q)
    BY <1>4, <2>2, FreshIsNew DEF Holds, TypeOK, TargetTypeOK
  <2>3. ASSUME InPlaceEdits, file[p] # None, UNCHANGED file,
               data' = [data EXCEPT ![file[p]] = Foreign]
        PROVE  Holds(q)' = Holds(q)
    <3>1. file[q] # file[p]
      BY <1>4, <2>3, WritesUnshared
    <3> QED BY <2>3, <3>1 DEF Holds, TypeOK, TargetTypeOK
  <2> QED BY <2>1, <2>2, <2>3 DEF Edit
<1>5. Kept'
  BY <1>1, <1>4 DEF Kept, TypeOK, Batch
<1> QED BY <1>3, <1>5

-----------------------------------------------------------------------------

LEMMA InitKInv == Init => KInv
<1> SUFFICES ASSUME Init PROVE KInv
  OBVIOUS
<1> USE BlankIsIdle DEF Init, TargetInit
<1>1. TypeOK /\ Waiting
  BY InitType
<1>2. \A c \in Call : call[c] = Blank
  OBVIOUS
<1>3. Shape
  BY <1>2 DEF Shape, Steps
<1>4. Alone /\ Batches
  BY <1>2 DEF Alone, Batches, Active
<1>5. Progress
  BY DEF Progress, Running, Calling
<1>6. Sources
  BY <1>2 DEF Sources, Turn, Todo
<1>7. BlobsTrue /\ Apart /\ Kept
  BY InitStore DEF Kept
<1>8. Memory
  BY DEF Memory, Faithful
<1> QED BY <1>1, <1>3, <1>4, <1>5, <1>6, <1>7, <1>8 DEF KInv

LEMMA NextKInv == Calm /\ KInv /\ [Next]_vars => KInv'
<1> SUFFICES ASSUME Calm, KInv, [Next]_vars PROVE KInv'
  OBVIOUS
<1>1. /\ TypeOK' /\ Waiting' /\ BlobsTrue' /\ Apart' /\ Memory'
  BY NextType, NextBlobs, NextApart, NextMemory DEF KInv, Calm
<1>2. /\ Shape' /\ Alone' /\ Batches' /\ Progress' /\ Sources' /\ Kept'
  <2> DEFINE After == Shape' /\ Alone' /\ Batches' /\ Progress' /\ Sources' /\ Kept'
  <2>1. ASSUME NEW t \in Trees, Start(t) PROVE After
    BY <2>1, StartKInv
  <2>2. CASE SendMissing \/ SendBlob \/ SendPlacements \/ SendCommit
    BY <2>2, SendsKInv
  <2>3. CASE Advance
    BY <2>3, AdvanceKInv
  <2>4. ASSUME NEW c \in Call,
               AnswerMissing(c) \/ AnswerBlob(c) \/ AnswerPlacements(c) \/ AnswerCommit(c)
               \/ AnswerRejected(c) \/ AnswerBroken(c)
        PROVE  After
    BY <2>4, AnswerKInv
  <2>5. CASE LoseRequest \/ \E c \in Call : LoseAnswer(c)
    BY <2>5, LossKInv
  <2>6. ASSUME NEW c \in Call, Forget(c) PROVE After
    BY <2>6, ForgetKInv
  <2>7. ASSUME NEW c \in Call, Work(c) PROVE After
    BY <2>7, WorkKInv
  <2>8. CASE Quit \/ RestartReceiver
    BY <2>8, CrashKInv
  <2>9. ASSUME NEW p \in Path, Edit(p) PROVE After
    BY <2>9, EditKInv
  <2>10. CASE UNCHANGED <<targetVars, phase, sel, toPlace, awaited, promise>>
    BY <2>10 DEF KInv, targetVars, Shape, Alone, Active, Running, Batches,
         Progress, Selected, NextBatch, Holds, Sources, Turn, Todo, Bytes, Kept
  <2> QED
    BY <2>1, <2>2, <2>3, <2>4, <2>5, <2>6, <2>7, <2>8, <2>9, <2>10
       DEF Next, HandOver, StopUpload, Rest, vars, senderVars
<1> QED BY <1>1, <1>2 DEF KInv

\* What apply reported in place stays there, through lost calls, retries, crashes
\* and restarts of the receiver, later runs of other paths and changes of other
\* files, although files, blobs and source bytes are shared by hard links
\* (filetarget.go:102-178, apply.go:130-171).
THEOREM PushKept == Calm /\ Spec => []Kept
<1> SUFFICES ASSUME Calm PROVE Spec => []Kept
  OBVIOUS
<1>1. KInv /\ [Next]_vars => KInv'
  BY NextKInv
<1>2. KInv => Kept
  BY DEF KInv
<1> QED BY <1>1, <1>2, InitKInv, PTL DEF Spec

\* A digest the receiver says it has it can serve with its bytes, so nothing it
\* leaves out of its answer to Missing will be lacking or wrong when it is placed
\* (filetarget.go:50-93).
THEOREM PushAnswersTrue == Calm /\ Spec => []AnswersTrue
<1> SUFFICES ASSUME Calm PROVE Spec => []AnswersTrue
  OBVIOUS
<1>1. KInv /\ [Next]_vars => KInv'
  BY NextKInv
<1>2. KInv => AnswersTrue
  BY MemoryAnswers DEF KInv
<1> QED BY <1>1, <1>2, InitKInv, PTL DEF Spec
-----------------------------------------------------------------------------
(* Push implements Delivery.                                               *)

State == CASE phase \in {"negotiate", "upload"} -> "asking"
           [] phase \in {"place", "commit"}      -> "placing"
           [] OTHER                              -> phase

Tree == [p \in Path |-> Holds(p)]

LEMMA StateOf ==
    ASSUME phase \in Phase
    PROVE  /\ phase \in {"negotiate", "upload"} => State = "asking"
           /\ phase \in {"place", "commit"} => State = "placing"
           /\ phase \in {"ready", "done", "failed"} => State = phase
BY DEF State, Phase, Calling

\* A handler empties the path whose turn it is or gives it what was selected.
LEMMA WorkDelivers ==
    ASSUME Calm, KInv, KInv', NEW c \in Call, Work(c)
    PROVE  [Promised!Next]_Promised!dvars
<1> USE DEF KInv, TypeOK, TargetTypeOK
<1>1. Handle(c) /\ Active(c) /\ UNCHANGED <<phase, sel>> /\ State' = State
  BY HandleActive DEF Work, senderVars, State
<1>2. CASE UNCHANGED <<file, data>>
  <2>1. Tree' = Tree
    BY <1>2 DEF Tree, Holds
  <2> QED BY <1>1, <2>1 DEF Promised!dvars, Tree, State
<1>3. CASE StoreBlob(c)
  <2>1. call[c].batch = NoFiles
    BY <1>1, <1>3 DEF StoreBlob, Shape, Steps, Op, CallState
  <2>2. \A p \in Path : Holds(p)' = Holds(p)
    BY <1>1, <2>1, BlankIsIdle, HandleHolds DEF Turn, Todo
  <2>3. Tree' = Tree
    BY <2>2 DEF Tree
  <2> QED BY <1>1, <2>3 DEF Promised!dvars, Tree, State
<1>4. ASSUME NEW p \in Path, Turn(c, p), Holds(p)' \in {None, call[c].batch[p]}
      PROVE  Promised!Next
  <2>1. \A q \in Path \ {p} : Holds(q)' = Holds(q)
    BY <1>1, <1>4, HandleHolds, OneTurn
  <2>2. Tree' = [Tree EXCEPT ![p] = None] \/ Tree' = [Tree EXCEPT ![p] = sel[p]]
    BY <1>4, <2>1 DEF Tree, Batches, Turn, Todo
  <2>3. sel[p] # None
    BY <1>4 DEF Batches, Turn, Todo
  <2>4. State \in {"placing", "failed"}
    BY <1>1, <1>4, StateOf, TurnToPlace DEF Alone
  <2>5. Promised!Empty(p) \/ Promised!Deliver(p)
    BY <1>1, <2>2, <2>3, <2>4
       DEF Promised!Empty, Promised!Deliver, Promised!Writing, Promised!Wanted, Tree, State
  <2> QED BY <2>5 DEF Promised!Next
<1>5. ASSUME NEW p \in Path, Unlink(c, p) PROVE Promised!Next
  BY <1>4, <1>5 DEF Unlink, Holds
<1>6. ASSUME NEW p \in Path, Link(c, p) \/ Copy(c, p) PROVE Promised!Next
  <2>1. Turn(c, p) /\ Turn(c, p)' /\ call'[c].pc = "record"
        /\ call'[c].batch = call[c].batch
    BY <1>6 DEF Link, Copy, Goto, CallState, Turn, Todo
  <2>2. Holds(p)' = call[c].batch[p]
    BY <2>1 DEF Sources
  <2> QED BY <1>4, <2>1, <2>2
<1> QED
  BY <1>1, <1>2, <1>3, <1>5, <1>6
     DEF Handle, CheckDigest, OpenTemp, RejectBody, LoseTemp, FindBytes, FailPlace,
         Remember, SaveIndex, FailCommit, Cleared, RemoveBlob, RemoveTemp

LEMMA EditDelivers ==
    ASSUME Calm, KInv, NEW p \in Path, Edit(p)
    PROVE  Promised!Next
<1> USE DEF KInv, TypeOK, TargetTypeOK
<1>1. UNCHANGED <<phase, sel>> /\ State' = State /\ State \in {"ready", "done", "failed"}
  BY StateOf DEF Edit, State, Running, Phase
<1>2. ASSUME NEW x \in {Foreign, None}, Holds(p)' = x,
             \A q \in Path \ {p} : Holds(q)' = Holds(q)
      PROVE  Promised!Change(p)
  <2>1. Tree' = [Tree EXCEPT ![p] = x]
    BY <1>2 DEF Tree
  <2> QED BY <1>1, <2>1 DEF Promised!Change, Promised!Resting, Tree, State
<1>3. ASSUME UNCHANGED data, file' = [file EXCEPT ![p] = None]
      PROVE  Promised!Change(p)
  <2>1. Holds(p)' = None /\ \A q \in Path \ {p} : Holds(q)' = Holds(q)
    BY <1>3 DEF Holds
  <2> QED BY <1>2, <2>1
<1>4. ASSUME NEW i \in Inode, Fresh(i), data' = [data EXCEPT ![i] = Foreign],
             file' = [file EXCEPT ![p] = i]
      PROVE  Promised!Change(p)
  <2>1. i # None /\ Holds(p)' = Foreign
    BY <1>4, FileTargetAssumption DEF Holds
  <2>2. \A q \in Path \ {p} : Holds(q)' = Holds(q)
    BY <1>4, FreshIsNew DEF Holds
  <2> QED BY <1>2, <2>1, <2>2
<1>5. ASSUME InPlaceEdits, file[p] # None, UNCHANGED file,
             data' = [data EXCEPT ![file[p]] = Foreign]
      PROVE  Promised!Change(p)
  <2>1. Holds(p)' = Foreign
    BY <1>5 DEF Holds
  <2>2. \A q \in Path : q # p => file[q] # file[p]
    BY <1>5, WritesUnshared
  <2>3. \A q \in Path \ {p} : Holds(q)' = Holds(q)
    BY <1>5, <2>2 DEF Holds
  <2> QED BY <1>2, <2>1, <2>3
<1>6. Promised!Change(p)
  BY <1>3, <1>4, <1>5 DEF Edit
<1> QED BY <1>6 DEF Promised!Next

LEMMA NextDelivers ==
    Calm /\ KInv /\ KInv' /\ [Next]_vars => [Promised!Next]_Promised!dvars
<1> SUFFICES ASSUME Calm, KInv, KInv', [Next]_vars
             PROVE  [Promised!Next]_Promised!dvars
  OBVIOUS
<1> USE DEF KInv, TypeOK
<1>1. CASE UNCHANGED <<file, data, sel, phase>>
  BY <1>1 DEF Promised!dvars, Holds
<1>2. ASSUME UNCHANGED <<file, data, sel>>, Running, phase' = "failed"
      PROVE  Promised!Next
  <2>1. Tree' = Tree /\ State' = "failed" /\ State \in {"asking", "placing"}
    BY <1>2, StateOf DEF Tree, Holds, State, Running, Calling
  <2>2. Promised!Fail
    BY <1>2, <2>1 DEF Promised!Fail, Promised!Resting, Tree, State
  <2> QED BY <2>2 DEF Promised!Next
<1>3. ASSUME NEW t \in Trees, Start(t) PROVE Promised!Next
  <2>1. Tree' = Tree /\ State' = "asking" /\ State \in {"ready", "done", "failed"}
        /\ sel' = t
    BY <1>3, StateOf DEF Start, targetVars, Tree, Holds, State, Running, Phase
  <2>2. Promised!Begin(t)
    BY <2>1 DEF Promised!Begin, Promised!Resting, Tree, State
  <2> QED BY <2>2 DEF Promised!Next
<1>4. ASSUME Advance PROVE [Promised!Next]_Promised!dvars
  <2>1. Tree' = Tree /\ sel' = sel
    BY <1>4 DEF Advance, targetVars, Tree, Holds
  <2>2. \/ State' = State
        \/ State = "asking" /\ State' \in {"placing", "ready", "failed"}
    BY <1>4 DEF Advance, State
  <2>3. \/ Promised!Place \/ Promised!DryRun \/ Promised!Fail
        \/ UNCHANGED Promised!dvars
    BY <2>1, <2>2 DEF Promised!Place, Promised!DryRun, Promised!Fail, Promised!Resting,
                      Promised!dvars, Tree, State
  <2> QED BY <2>3 DEF Promised!Next
<1>6. ASSUME NEW c \in Call, AnswerCommit(c) PROVE Promised!Next
  <2>1. Tree' = Tree /\ sel' = sel /\ State = "placing" /\ State' = "done"
    BY <1>6 DEF AnswerCommit, Receive, Tree, Holds, State
  <2>2. \A p \in Path : sel[p] # None => Tree[p] = sel[p]
    BY <1>6 DEF AnswerCommit, Progress, Running, Calling, Selected, Tree
  <2>3. Promised!Finish
    BY <2>1, <2>2 DEF Promised!Finish, Promised!Wanted, Tree, State
  <2> QED BY <2>3 DEF Promised!Next
<1>7. CASE Quit \/ RestartReceiver
  BY <1>1, <1>2, <1>7
     DEF Quit, RestartReceiver, Restart, Retry, GiveUp, targetVars, senderVars, Waiting
<1>8. ASSUME NEW c \in Call,
             AnswerRejected(c) \/ AnswerBroken(c) \/ LoseAnswer(c) \/ LoseRequest
      PROVE  [Promised!Next]_Promised!dvars
  BY <1>1, <1>2, <1>8 DEF AnswerRejected, AnswerBroken, LoseAnswer, LoseRequest, Receive,
     Retry, GiveUp, targetVars, Running, Calling
<1>9. ASSUME LoseRequest PROVE [Promised!Next]_Promised!dvars
  BY <1>1, <1>2, <1>9 DEF LoseRequest, Retry, GiveUp, targetVars, Running, Calling
<1>10. ASSUME NEW c \in Call, Work(c) PROVE [Promised!Next]_Promised!dvars
  BY <1>10, WorkDelivers
<1>11. ASSUME NEW p \in Path, Edit(p) PROVE Promised!Next
  BY <1>11, EditDelivers
<1> QED
  BY <1>1, <1>3, <1>4, <1>6, <1>7, <1>8, <1>9, <1>10, <1>11
     DEF Next, SendMissing, HandOver, SendBlob, SendPlacements, SendCommit, Send,
         AnswerMissing, AnswerBlob,
         AnswerPlacements, Receive, Forget, StopUpload, Rest, vars, targetVars, senderVars

\* Whoever looks at the destination only ever sees what Delivery allows: paths the
\* run did not select stay as they are, a selected one goes from what it was to
\* nothing to its new content, and a run is done only with all of them in place.
THEOREM PushDelivers == Calm /\ Spec => Delivers
<1> SUFFICES ASSUME Calm PROVE Spec => Delivers
  OBVIOUS
<1>1. Init => Promised!Init
  BY StateOf DEF Init, TargetInit, Promised!Init, Holds, NoFiles
<1>2. KInv /\ [Next]_vars => KInv'
  BY NextKInv
<1>3. KInv /\ KInv' /\ [Next]_vars => [Promised!Next]_Promised!dvars
  BY NextDelivers
<1> QED BY <1>1, <1>2, <1>3, InitKInv, PTL DEF Spec, Delivers, Promised!Spec
=============================================================================
