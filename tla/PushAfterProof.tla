--------------------------- MODULE PushAfterProof ---------------------------
(***************************************************************************)
(* What a run leaves behind: no blob, and a receiver that remembers what   *)
(* it placed; and what stays true of the destination when calls that were  *)
(* given up are handled late.  For every number of paths, digests, call    *)
(* slots, runs, restarts and lost calls.  Each theorem names what it needs *)
(* of the surroundings:                                                    *)
(*   - PushNoLeftovers, that no call is handled late;                      *)
(*   - PushRemembered, what PushKept needs, and that the receiver is not   *)
(*     restarted while a run places or commits;                            *)
(*   - PushRightOrAbsent, that neither the source nor, but for runs, the   *)
(*     destination changes.                                                *)
(***************************************************************************)
EXTENDS PushKeptProof

-----------------------------------------------------------------------------
(* One handler at a time, from ~LateCalls alone.                           *)

LEMMA NextAlone ==
    ASSUME ~LateCalls, TypeOK, Waiting, Shape, Alone, [Next]_vars
    PROVE  Shape' /\ Alone'
<1> USE BlankIsIdle DEF TypeOK, TargetTypeOK
<1>1. ASSUME \A e \in Call : call'[e] \in {call[e], Blank} PROVE Shape'
  BY <1>1 DEF Shape, Steps
<1>2. ASSUME NEW c \in Call, Work(c) PROVE Shape' /\ Alone'
  BY <1>2, HandleShape, WorkAlone DEF Work
<1>3. ASSUME Running, awaited = None \/ Finished(awaited), awaited' = None,
             \A e \in Call : call'[e] \in {call[e], Blank}
      PROVE  Shape' /\ Alone'
  <2>1. \A e \in Call : ~Active(e)'
    BY <1>3, NobodyWorks DEF Active
  <2> QED BY <1>1, <1>3, <2>1 DEF Alone
<1>4. ASSUME Running, phase' = phase, NEW request \in CallState, Send(request),
             request.op = OpOf(phase), request.pc \in Steps(request.op),
             request.op # "idle", request.pc # "ok",
             request.op # "place" => request.batch = NoFiles
      PROVE  Shape' /\ Alone'
  <2>1. PICK c \in Call : call' = [call EXCEPT ![c] = request] /\ awaited' = c
    BY <1>4 DEF Send
  <2>2. call'[c] = request /\ \A e \in Call \ {c} : call'[e] = call[e]
    BY <2>1
  <2>3. \A e \in Call : Active(e)' => e = c
    BY <1>4, <2>2, NobodyWorks DEF Send, Active
  <2>4. Shape'
    BY <1>4, <2>2 DEF Shape
  <2> QED BY <1>4, <2>1, <2>2, <2>3, <2>4 DEF Alone, Running
<1>5. ASSUME NEW t \in Trees, Start(t) PROVE Shape' /\ Alone'
  <2>1. \A c \in Call : call'[c] = Blank
    BY <1>5 DEF Start, Idle, Shape, targetVars
  <2>2. \A c \in Call : ~Active(c)'
    BY <2>1 DEF Active
  <2> QED BY <1>1, <1>5, <2>1, <2>2 DEF Start, Alone
<1>6. CASE SendMissing
  <2> DEFINE r == MissingCall(NextQuery)
  <2>1. r \in CallState
    <3>1. NextQuery \subseteq Digest
      BY DEF NextQuery
    <3> QED BY <3>1, BlankType DEF MissingCall, CallState, Op, Pc, Blank
  <2>2. r.op = "missing" /\ r.pc = "check" /\ r.batch = NoFiles
    BY DEF MissingCall, Blank
  <2>3. Send(r) /\ Running /\ phase' = phase /\ phase = "negotiate"
    BY <1>6 DEF SendMissing, Send, Running, Calling
  <2> HIDE DEF r
  <2> QED BY <1>4, <2>1, <2>2, <2>3 DEF OpOf, Steps
<1>7. CASE SendBlob
  <2> DEFINE r == PutCall(job)
  <2>1. r \in CallState
    BY <1>7, BlankType DEF SendBlob, PutCall, CallState, Op, Pc, Blank
  <2>2. r.op = "put" /\ r.pc = "open" /\ r.batch = NoFiles
    BY DEF PutCall, Blank
  <2>3. Send(r) /\ Running /\ phase' = phase /\ phase = "upload"
    BY <1>7 DEF SendBlob, Send, Running, Calling
  <2> HIDE DEF r
  <2> QED BY <1>4, <2>1, <2>2, <2>3 DEF OpOf, Steps
<1>8. CASE SendPlacements
  <2> DEFINE batch == [p \in Path |-> IF p \in NextBatch THEN sel[p] ELSE None]
             r == PlaceCall(batch)
  <2>1. batch \in Batch
    BY DEF Batch
  <2>2. r \in CallState
    BY <2>1, BlankType DEF PlaceCall, CallState, Op, Pc, Blank
  <2>3. r.op = "place" /\ r.pc = "find"
    BY DEF PlaceCall, Blank
  <2>4. Send(r) /\ Running /\ phase' = phase /\ phase = "place"
    BY <1>8 DEF SendPlacements, Send, Running, Calling
  <2> HIDE DEF r
  <2> QED BY <1>4, <2>2, <2>3, <2>4 DEF OpOf, Steps
<1>9. CASE SendCommit
  <2>1. CommitCall \in CallState
    BY BlankType DEF CommitCall, CallState, Op, Pc, Blank
  <2>2. CommitCall.op = "commit" /\ CommitCall.pc = "save" /\ CommitCall.batch = NoFiles
    BY DEF CommitCall, Blank
  <2>3. Send(CommitCall) /\ Running /\ phase' = phase /\ phase = "commit"
    BY <1>9 DEF SendCommit, Send, Running, Calling
  <2> QED BY <1>4, <2>1, <2>2, <2>3 DEF OpOf, Steps
<1>10. CASE Advance
  <2>1. Running /\ awaited = None /\ awaited' = None /\ call' = call
    BY <1>10 DEF Advance, Running, Calling, targetVars
  <2> QED BY <1>3, <2>1
<1>11. ASSUME NEW c \in Call,
              AnswerMissing(c) \/ AnswerBlob(c) \/ AnswerPlacements(c) \/ AnswerCommit(c)
              \/ AnswerRejected(c) \/ AnswerBroken(c)
       PROVE  Shape' /\ Alone'
  <2>1. /\ Running /\ awaited = c /\ Finished(c) /\ awaited' = None
        /\ call' = [call EXCEPT ![c] = Blank]
    BY <1>11 DEF AnswerMissing, AnswerBlob, AnswerPlacements, AnswerCommit, AnswerRejected,
       AnswerBroken, Receive, Running, Calling, Finished
  <2>2. \A e \in Call : call'[e] \in {call[e], Blank}
    BY <2>1
  <2> QED BY <1>3, <2>1, <2>2
<1>12. CASE LoseRequest \/ \E c \in Call : LoseAnswer(c)
  <2>1. /\ Running /\ awaited' = None /\ (awaited = None \/ Finished(awaited))
        /\ call' = call
    BY <1>12 DEF LoseRequest, LoseAnswer, Running, Calling, targetVars
  <2> QED BY <1>3, <2>1
<1>13. ASSUME NEW c \in Call, Forget(c) PROVE Shape' /\ Alone'
  <2>1. /\ call'[c] = Blank /\ \A e \in Call \ {c} : call'[e] = call[e]
        /\ awaited # c /\ UNCHANGED <<phase, awaited>>
    BY <1>13 DEF Forget, senderVars
  <2>2. \A e \in Call : Active(e)' => Active(e) /\ e # c
    BY <2>1 DEF Active
  <2>3. Alone'
    BY <2>1, <2>2 DEF Alone, Running
  <2> QED BY <1>1, <2>1, <2>3
<1>14. CASE Quit \/ RestartReceiver
  <2>1. /\ awaited' = None /\ phase' \in {phase, "failed"}
        /\ \A e \in Call : call'[e] \in {call[e], Blank}
    BY <1>14 DEF Quit, RestartReceiver, Restart, Retry, GiveUp, targetVars, senderVars
  <2>2. \A e \in Call : Active(e)' => Active(e) /\ phase' = "failed"
    BY <1>14, <2>1 DEF Quit, RestartReceiver, Restart, Active
  <2>3. Alone'
    BY <2>1, <2>2 DEF Alone, Running, Calling
  <2> QED BY <1>1, <2>1, <2>3
<1>15. CASE UNCHANGED <<call, phase, awaited>>
  BY <1>15 DEF Shape, Alone, Active, Running
<1>16. ASSUME NEW p \in Path, Edit(p) PROVE UNCHANGED <<call, phase, awaited>>
  BY <1>16 DEF Edit
<1>17. CASE UNCHANGED vars
  BY <1>15, <1>17 DEF vars, targetVars, senderVars
<1> QED
  BY <1>2, <1>5, <1>6, <1>7, <1>8, <1>9, <1>10, <1>11, <1>12, <1>13, <1>14, <1>15, <1>16,
     <1>17 DEF Next, HandOver, StopUpload, Rest, targetVars

-----------------------------------------------------------------------------
(* No leftovers.                                                           *)

NoBlobs == \A d \in Digest : blob[d] = None

\* A commit that was answered, or is about to be, has emptied the blob store, and
\* nobody has put anything into it since.
Emptied ==
    /\ \A c \in Call : awaited = c /\ call[c].op = "commit" /\ call[c].pc = "ok" => NoBlobs
    /\ phase = "done" => NoBlobs

\* Only a handler that stores a blob brings one in.
LEMMA NextNoBlobs ==
    ASSUME NoBlobs, [Next]_vars, ~\E c \in Call : StoreBlob(c)
    PROVE  NoBlobs'
<1>1. CASE UNCHANGED blob
  BY <1>1 DEF NoBlobs
<1>2. ASSUME NEW c \in Call, NEW d \in Digest, RemoveBlob(c, d) PROVE NoBlobs'
  BY <1>2 DEF RemoveBlob, NoBlobs
<1>3. ASSUME NEW c \in Call, Work(c) PROVE NoBlobs'
  BY <1>1, <1>2, <1>3
     DEF Work, Handle, CheckDigest, OpenTemp, RejectBody, LoseTemp, FindBytes, Unlink, Link,
         Copy, FailPlace, Remember, SaveIndex, FailCommit, Cleared, RemoveTemp
<1> QED
  BY <1>1, <1>3
     DEF Next, Start, SendMissing, HandOver, SendBlob, SendPlacements, SendCommit, Send,
         Advance, AnswerMissing, AnswerBlob, AnswerPlacements, AnswerCommit,
         AnswerRejected, AnswerBroken, Receive, LoseRequest, LoseAnswer, Forget,
         StopUpload, Quit,
         RestartReceiver, Restart, Edit, Rest, vars, targetVars

\* A commit ends well in one way only.
LEMMA CommitEnds ==
    ASSUME TypeOK, Shape, NEW e \in Call, Handle(e), NEW c \in Call,
           call'[c].op = "commit", call'[c].pc = "ok", call[c].pc # "ok"
    PROVE  Cleared(e)
<1> USE DEF TypeOK, TargetTypeOK
<1>1. e = c /\ call[c].op = "commit"
  BY HandleCalls
<1>2. call[c].pc \in {"save", "clear", "ok", "broken"} /\ call[c] \in CallState
  BY <1>1 DEF Shape, Steps
<1>3. ASSUME NEW other \in Call, RemoveTemp(c, other) PROVE call'[c].pc = call[c].pc
  BY <1>3 DEF RemoveTemp
<1>4. ASSUME SaveIndex(c) \/ FailCommit(c) PROVE call'[c].pc # "ok"
  BY <1>2, <1>4 DEF SaveIndex, FailCommit, Goto, CallState
<1> QED
  BY <1>1, <1>2, <1>3, <1>4
     DEF Handle, CheckDigest, OpenTemp, RejectBody, StoreBlob, LoseTemp, FindBytes, Unlink,
         Link, Copy, FailPlace, Remember, RemoveBlob

LEMMA NextEmptied ==
    ASSUME TypeOK, Waiting, Shape, Alone, Emptied, [Next]_vars
    PROVE  Emptied'
<1> USE DEF TypeOK, TargetTypeOK
<1>1. \A c \in Call : StoreBlob(c) => Active(c) /\ call[c].pc = "copy"
  BY DEF StoreBlob, Active
<1>2. ASSUME phase' = "done" PROVE NoBlobs'
  <2>1. CASE phase = "done"
    <3>1. ~\E c \in Call : StoreBlob(c)
      BY <1>1, <2>1 DEF Alone, Running, Calling
    <3> QED BY <2>1, <3>1, NextNoBlobs DEF Emptied
  <2>2. CASE phase # "done"
    <3>1. PICK c \in Call : AnswerCommit(c)
      BY <1>2, <2>2
         DEF Next, Start, SendMissing, HandOver, SendBlob, SendPlacements, SendCommit,
             Send, Advance, AnswerMissing, AnswerBlob, AnswerPlacements, AnswerRejected,
             AnswerBroken, Receive, Retry, GiveUp, LoseRequest, LoseAnswer, Forget, StopUpload, Quit,
             RestartReceiver, Edit, Rest, vars, senderVars, Work
    <3>2. awaited = c /\ call[c].op = "commit" /\ call[c].pc = "ok" /\ blob' = blob
      BY <3>1, FileTargetAssumption DEF AnswerCommit, Receive, Alone, OpOf
    <3> QED BY <3>2 DEF Emptied, NoBlobs
  <2> QED BY <2>1, <2>2
<1>3. ASSUME NEW c \in Call, awaited' = c, call'[c].op = "commit", call'[c].pc = "ok"
      PROVE  NoBlobs'
  <2>1. awaited' # None
    BY <1>3, FileTargetAssumption
  <2>2. CASE \E request : Send(request) /\ request.pc # "ok"
    BY <1>3, <2>2, FileTargetAssumption DEF Send
  <2>3. CASE awaited = c /\ call[c].op = "commit" /\ call[c].pc = "ok"
    <3>1. ~\E e \in Call : StoreBlob(e)
      BY <1>1, <2>3, FileTargetAssumption DEF Alone, Waiting
    <3> QED BY <2>3, <3>1, NextNoBlobs DEF Emptied
  <2>4. ASSUME NEW e \in Call, Work(e), call[c].pc # "ok" PROVE NoBlobs'
    <3>1. Cleared(e)
      BY <1>3, <2>4, CommitEnds DEF Work
    <3> QED BY <3>1 DEF Cleared, NoBlobs
  <2>5. CASE awaited' = awaited /\ call'[c] = call[c]
    BY <1>3, <2>3, <2>5
  <2>6. ASSUME NEW e \in Call, Forget(e) PROVE NoBlobs'
    BY <1>3, <2>5, <2>6 DEF Forget, senderVars
  <2>7. ASSUME NEW e \in Call, Work(e) PROVE NoBlobs'
    <3>1. awaited = c /\ call'[c].op = call[c].op
      BY <1>3, <2>7, HandleCalls DEF Work, senderVars
    <3> QED BY <1>3, <2>3, <2>4, <2>7, <3>1
  <2>8. CASE SendMissing \/ SendBlob \/ SendPlacements \/ SendCommit
    <3>1. \A want, batch, d :
             /\ MissingCall(want).pc # "ok" /\ PutCall(d).pc # "ok"
             /\ PlaceCall(batch).pc # "ok" /\ CommitCall.pc # "ok"
      BY DEF MissingCall, PutCall, PlaceCall, CommitCall, Blank
    <3> QED BY <2>2, <2>8, <3>1 DEF SendMissing, SendBlob, SendPlacements, SendCommit
  <2>9. CASE Quit \/ RestartReceiver \/ LoseRequest
    BY <2>1, <2>5, <2>9, <1>3
       DEF Quit, RestartReceiver, LoseRequest, targetVars, senderVars
  <2> QED
    BY <2>1, <2>5, <2>6, <2>7, <2>8, <2>9
       DEF Next, Start, HandOver, Advance, AnswerMissing, AnswerBlob, AnswerPlacements, AnswerCommit,
           AnswerRejected, AnswerBroken, Receive, LoseAnswer, StopUpload, Edit, Rest, vars,
           targetVars, senderVars
<1> QED BY <1>2, <1>3 DEF Emptied

\* A run that is done left no blob behind, whatever was lost, retried or restarted
\* on the way: what an interrupted run left there goes as well (filetarget.go:201-208,
\* apply.go:111).  The invariant is that one handler at most is at work, so that
\* none stores a blob between the end of a commit and its answer.
THEOREM PushNoLeftovers == ~LateCalls /\ Spec => []NoLeftovers
<1> SUFFICES ASSUME ~LateCalls PROVE Spec => []NoLeftovers
  OBVIOUS
<1> DEFINE Inv == TypeOK /\ Waiting /\ Shape /\ Alone /\ Emptied
<1>1. Init => Inv
  <2> SUFFICES ASSUME Init PROVE Inv
    OBVIOUS
  <2>1. KInv
    BY InitKInv
  <2>2. Emptied
    BY BlankIsIdle DEF Init, TargetInit, Emptied
  <2> QED BY <2>1, <2>2 DEF KInv
<1>2. Inv /\ [Next]_vars => Inv'
  BY NextType, NextAlone, NextEmptied
<1>3. Inv => NoLeftovers
  BY DEF Emptied, NoBlobs, NoLeftovers
<1> QED BY <1>1, <1>2, <1>3, PTL DEF Spec
-----------------------------------------------------------------------------
(* What a receiver remembers.                                              *)

\* No restart falls between the placing of a run and the end of its commit.
Settled == Calm /\ Remembers /\ RestartPhases \cap {"place", "commit"} = {}

\* The entries know that p has the bytes of d, and nobody has touched p since.
Recorded(entries, p, d) ==
    /\ file[p] # None
    /\ entries[p] # None
    /\ entries[p] = [digest |-> d, inode |-> file[p], data |-> data[file[p]]]

\* What a run is through with is in the index, a commit has brought it to the disk
\* before it is reported in place, and every entry can be found by its digest.
Entered ==
    /\ \A p \in Path : promise[p] # None =>
          Recorded(index, p, promise[p]) /\ Recorded(saved, p, promise[p])
    /\ Running => \A p \in Selected(sel) \ toPlace : Recorded(index, p, sel[p])
    /\ phase = "place" /\ awaited # None =>
          \A p \in NextBatch :
             call[awaited].batch[p] = None => Recorded(index, p, sel[p])
    /\ phase = "commit" /\ awaited # None /\ call[awaited].pc \in {"clear", "ok"} =>
          saved = index
    /\ \A p \in Path : index[p] # None => held[index[p].digest] # None

\* A handler leaves alone what is recorded of a path that is not its turn.
LEMMA HandleRecorded ==
    ASSUME TypeOK, NEW c \in Call, Handle(c), NEW p \in Path, ~Turn(c, p), NEW d,
           Recorded(index, p, d)
    PROVE  /\ Recorded(index, p, d)'
           /\ Recorded(saved, p, d) => Recorded(saved, p, d)'
<1> USE DEF TypeOK, TargetTypeOK
<1>1. file'[p] = file[p] /\ data'[file[p]] = data[file[p]]
  BY HandleFile DEF Recorded
<1>2. ASSUME NEW q \in Path, Remember(c, q) PROVE index'[p] = index[p]
  BY <1>2 DEF Remember
<1>3. index'[p] = index[p] /\ saved'[p] \in {saved[p], index[p]}
  BY <1>2
     DEF Handle, CheckDigest, OpenTemp, RejectBody, StoreBlob, LoseTemp, FindBytes, Unlink,
         Link, Copy, FailPlace, Remember, SaveIndex, FailCommit, Cleared, RemoveBlob,
         RemoveTemp
<1> QED BY <1>1, <1>3 DEF Recorded

LEMMA WorkEntered ==
    ASSUME Settled, KInv, Entered, NEW c \in Call, Work(c)
    PROVE  Entered'
<1> USE DEF KInv, TypeOK, TargetTypeOK
<1>1. /\ Handle(c) /\ Active(c)
      /\ UNCHANGED <<phase, sel, toPlace, awaited, promise>>
  BY HandleActive DEF Work, senderVars
<1>2. ASSUME NEW p \in Path, promise[p] # None
      PROVE  Recorded(index, p, promise[p])' /\ Recorded(saved, p, promise[p])'
  <2>1. ~Turn(c, p)
    BY <1>1, <1>2 DEF Batches, Turn, Todo
  <2>2. Recorded(index, p, promise[p]) /\ Recorded(saved, p, promise[p])
    BY <1>2 DEF Entered
  <2> QED BY <1>1, <2>1, <2>2, HandleRecorded DEF Recorded
<1>3. ASSUME Running, NEW p \in Path, p \in Selected(sel) \ toPlace
      PROVE  Recorded(index, p, sel[p])'
  <2>1. ~Turn(c, p)
    BY <1>1, <1>3, TurnToPlace
  <2>2. Recorded(index, p, sel[p])
    BY <1>3 DEF Entered
  <2> QED BY <1>1, <2>1, <2>2, HandleRecorded DEF Recorded
<1>4. ASSUME phase = "place", awaited # None, NEW p \in Path, p \in NextBatch,
             call'[awaited].batch[p] = None
      PROVE  Recorded(index, p, sel[p])'
  <2>1. awaited = c
    BY <1>1, <1>4 DEF Alone, Running, Calling
  <2>2. CASE call[c].batch[p] = None
    <3>1. ~Turn(c, p)
      BY <2>2 DEF Turn, Todo
    <3>2. Recorded(index, p, sel[p])
      BY <1>4, <2>1, <2>2 DEF Entered
    <3> QED BY <1>1, <3>1, <3>2, HandleRecorded DEF Recorded
  <2>3. CASE call[c].batch[p] # None
    <3>1. call[c].pc = "record" /\ Turn(c, p)
      BY <1>1, <1>4, <2>1, <2>3, HandleCalls
    <3>2. Holds(p) = call[c].batch[p] /\ call[c].batch[p] = sel[p]
      BY <2>3, <3>1 DEF Sources, Batches
    <3>3. PICK q \in Path : Remember(c, q)
      BY <1>1, <3>1
         DEF Handle, CheckDigest, OpenTemp, RejectBody, StoreBlob, LoseTemp, FindBytes,
             Unlink, Link, Copy, FailPlace, SaveIndex, FailCommit, Cleared, RemoveBlob,
             RemoveTemp
    <3>4. q = p
      BY <3>1, <3>3, OneTurn DEF Remember
    <3>5. file[p] # None
      BY <2>3, <3>2 DEF Holds
    <3>6. /\ index'[p] = [digest |-> sel[p], inode |-> file[p], data |-> data[file[p]]]
          /\ UNCHANGED <<file, data>>
      BY <3>2, <3>3, <3>4, <3>5 DEF Remember, Settled
    <3>7. index'[p] \in Entry
      BY <2>3, <3>2, <3>5, <3>6 DEF Entry, CallState, Batch
    <3> QED BY <1>1, <3>5, <3>6, <3>7, FileTargetAssumption DEF Recorded
  <2> QED BY <2>2, <2>3
<1>5. ASSUME phase = "commit", awaited # None, call'[awaited].pc \in {"clear", "ok"}
      PROVE  saved' = index'
  <2>1. awaited = c /\ call[c].op = "commit"
    BY <1>1, <1>5 DEF Alone, Running, Calling, OpOf
  <2>2. call[c].pc \in {"save", "clear"}
    BY <1>1, <2>1 DEF Shape, Steps, Active
  <2>3. CASE SaveIndex(c)
    BY <2>3 DEF SaveIndex, Settled
  <2>4. CASE FailCommit(c)
    BY <1>5, <2>1, <2>4 DEF FailCommit, Goto, CallState
  <2>5. CASE call[c].pc = "clear" /\ UNCHANGED <<saved, index>>
    BY <1>5, <2>1, <2>5 DEF Entered
  <2> QED
    BY <1>1, <2>2, <2>3, <2>4, <2>5
       DEF Handle, CheckDigest, OpenTemp, RejectBody, StoreBlob, LoseTemp, FindBytes,
           Unlink, Link, Copy, FailPlace, Remember, Cleared, RemoveBlob, RemoveTemp
<1>6. ASSUME NEW p \in Path, index'[p] # None PROVE held'[index'[p].digest] # None
  <2>1. CASE UNCHANGED <<index, held>>
    BY <1>6, <2>1 DEF Entered
  <2>2. ASSUME NEW q \in Path, Remember(c, q) PROVE held'[index'[p].digest] # None
    <3> DEFINE d == call[c].batch[q]
    <3>1. d \in Digest
      BY <2>2 DEF Remember, Turn, Todo, CallState, Batch
    <3>2. CASE UNCHANGED <<index, held>>
      BY <2>1, <3>2
    <3>3. CASE /\ index' = [index EXCEPT ![q] = [digest |-> d, inode |-> file[q],
                                                data |-> data[file[q]]]]
               /\ held' = [held EXCEPT ![d] = q]
      <4>1. q # None
        BY FileTargetAssumption
      <4>2. CASE p = q
        BY <3>1, <3>3, <4>1, <4>2
      <4>3. CASE p # q
        BY <1>6, <3>1, <3>3, <4>1, <4>3 DEF Entered, Entry
      <4> QED BY <4>2, <4>3
    <3> QED BY <2>2, <3>2, <3>3 DEF Remember
  <2> QED
    BY <1>1, <2>1, <2>2
       DEF Handle, CheckDigest, OpenTemp, RejectBody, StoreBlob, LoseTemp, FindBytes,
           Unlink, Link, Copy, FailPlace, SaveIndex, FailCommit, Cleared, RemoveBlob,
           RemoveTemp
<1>7. \A p \in Path : promise'[p] # None =>
         Recorded(index, p, promise[p])' /\ Recorded(saved, p, promise[p])'
  BY <1>1, <1>2
<1>8. Running' => \A p \in Selected(sel)' \ toPlace' : Recorded(index, p, sel[p])'
  BY <1>1, <1>3 DEF Running, Selected
<1>9. phase' = "place" /\ awaited' # None =>
         \A p \in NextBatch' :
            call'[awaited'].batch[p] = None => Recorded(index, p, sel[p])'
  BY <1>1, <1>4 DEF NextBatch
<1> QED BY <1>1, <1>5, <1>6, <1>7, <1>8, <1>9 DEF Entered

\* A step of the sender that promises nothing new, over a receiver it leaves alone
\* but for the slots of its calls.
LEMMA SenderRecorded ==
    ASSUME Entered, UNCHANGED <<file, data, index, held, saved>>
    PROVE  /\ \A p \in Path : \A d : Recorded(index, p, d)' <=> Recorded(index, p, d)
           /\ \A p \in Path : \A d : Recorded(saved, p, d)' <=> Recorded(saved, p, d)
           /\ (\A p \in Path : promise'[p] \in {promise[p], None}) =>
                 \A p \in Path : promise'[p] # None =>
                    Recorded(index, p, promise[p])' /\ Recorded(saved, p, promise[p])'
           /\ \A p \in Path : index'[p] # None => held'[index'[p].digest] # None
<1>1. /\ \A p \in Path : \A d : Recorded(index, p, d)' <=> Recorded(index, p, d)
      /\ \A p \in Path : \A d : Recorded(saved, p, d)' <=> Recorded(saved, p, d)
  BY DEF Recorded
<1>2. \A p \in Path : index'[p] # None => held'[index'[p].digest] # None
  BY DEF Entered
<1>3. ASSUME \A p \in Path : promise'[p] \in {promise[p], None}, NEW p \in Path,
             promise'[p] # None
      PROVE  Recorded(index, p, promise[p])' /\ Recorded(saved, p, promise[p])'
  <2>1. promise'[p] = promise[p]
    BY <1>3
  <2>2. Recorded(index, p, promise[p]) /\ Recorded(saved, p, promise[p])
    BY <1>3, <2>1 DEF Entered
  <2> QED BY <2>1, <2>2 DEF Recorded
<1> QED BY <1>1, <1>2, <1>3

\* The sender lets go of its call, and is through with what it was through with.
LEMMA LetGoEntered ==
    ASSUME Entered, UNCHANGED <<file, data, index, held, saved, sel, toPlace, promise>>,
           awaited' = None, Running' => Running
    PROVE  Entered'
<1>1. \A p \in Path : promise'[p] # None =>
         Recorded(index, p, promise[p])' /\ Recorded(saved, p, promise[p])'
  BY SenderRecorded
<1>2. Running' => \A p \in Selected(sel)' \ toPlace' : Recorded(index, p, sel[p])'
  BY DEF Entered, Selected, Recorded
<1> QED BY <1>1, <1>2, SenderRecorded DEF Entered

LEMMA SendEntered ==
    ASSUME KInv, Entered, Running,
           SendMissing \/ SendBlob \/ SendPlacements \/ SendCommit
    PROVE  Entered'
<1> USE DEF KInv, TypeOK, TargetTypeOK
<1>1. UNCHANGED <<file, data, index, held, saved, phase, sel, toPlace>>
  BY DEF SendMissing, SendBlob, SendPlacements, SendCommit, Send
<1>2. \A p \in Path : promise'[p] \in {promise[p], None}
  BY DEF SendMissing, SendBlob, SendPlacements, SendCommit
<1>3. \A p \in Path : promise'[p] # None =>
         Recorded(index, p, promise[p])' /\ Recorded(saved, p, promise[p])'
  BY <1>1, <1>2, SenderRecorded
<1>4. Running' => \A p \in Selected(sel)' \ toPlace' : Recorded(index, p, sel[p])'
  BY <1>1 DEF Entered, Selected, Recorded, Running
<1>5. ASSUME phase = "place", NEW p \in NextBatch
      PROVE  awaited' # None /\ call'[awaited'].batch[p] # None
  <2> DEFINE batch == [q \in Path |-> IF q \in NextBatch THEN sel[q] ELSE None]
  <2>1. Send(PlaceCall(batch))
    BY <1>5 DEF SendMissing, SendBlob, SendPlacements, SendCommit
  <2>2. PlaceCall(batch).batch = batch
    BY DEF PlaceCall, Blank
  <2>3. PICK c \in Call : call' = [call EXCEPT ![c] = PlaceCall(batch)] /\ awaited' = c
    BY <2>1 DEF Send
  <2>4. p \in Path /\ sel[p] # None
    BY <1>5 DEF NextBatch, Progress, Selected
  <2> HIDE DEF batch
  <2>5. call'[awaited'].batch = batch /\ awaited' # None
    BY <2>2, <2>3, FileTargetAssumption
  <2> QED BY <2>4, <2>5 DEF batch
<1>6. ASSUME phase = "commit" PROVE call'[awaited'].pc = "save"
  <2>1. Send(CommitCall)
    BY <1>6 DEF SendMissing, SendBlob, SendPlacements, SendCommit
  <2>2. CommitCall.pc = "save"
    BY DEF CommitCall, Blank
  <2>3. PICK c \in Call : call' = [call EXCEPT ![c] = CommitCall] /\ awaited' = c
    BY <2>1 DEF Send
  <2> QED BY <2>2, <2>3
<1>7. phase' = "place" /\ awaited' # None =>
         \A p \in NextBatch' :
            call'[awaited'].batch[p] = None => Recorded(index, p, sel[p])'
  BY <1>1, <1>5 DEF NextBatch
<1> QED BY <1>1, <1>3, <1>4, <1>6, <1>7, SenderRecorded DEF Entered

\* Placements that were answered are recorded; so is all a commit is answered for,
\* in the index and on the disk.
LEMMA AnswerEntered ==
    ASSUME KInv, Entered, NEW c \in Call, AnswerPlacements(c) \/ AnswerCommit(c)
    PROVE  Entered'
<1> USE DEF KInv, TypeOK, TargetTypeOK
<1>1. /\ UNCHANGED <<file, data, index, held, saved, sel>>
      /\ awaited' = None /\ awaited = c /\ c # None /\ call[c].pc = "ok"
  BY FileTargetAssumption DEF AnswerPlacements, AnswerCommit, Receive
<1>2. CASE AnswerPlacements(c)
  <2>1. /\ phase = "place" /\ phase' = phase /\ promise' = promise
        /\ toPlace' = toPlace \ NextBatch
    BY <1>2 DEF AnswerPlacements
  <2>2. \A p \in NextBatch : p \in Path /\ call[c].batch[p] = None
    BY <1>1, BlankIsIdle DEF Shape, NextBatch
  <2>3. \A p \in Selected(sel) \ toPlace' : Recorded(index, p, sel[p])
    BY <1>1, <2>1, <2>2 DEF Entered, Running, Calling, Selected
  <2>4. \A p \in Selected(sel)' \ toPlace' : Recorded(index, p, sel[p])'
    BY <1>1, <2>3 DEF Selected, Recorded
  <2>5. \A p \in Path : promise'[p] # None =>
           Recorded(index, p, promise[p])' /\ Recorded(saved, p, promise[p])'
    BY <1>1, <2>1, SenderRecorded
  <2> QED BY <1>1, <2>1, <2>4, <2>5, SenderRecorded DEF Entered
<1>3. CASE AnswerCommit(c)
  <2>1. /\ phase = "commit" /\ phase' = "done"
        /\ promise' = [p \in Path |-> IF sel[p] # None THEN sel[p] ELSE promise[p]]
    BY <1>3 DEF AnswerCommit
  <2>2. saved = index /\ toPlace = {}
    BY <1>1, <2>1 DEF Entered, Progress
  <2>3. ASSUME NEW p \in Path, promise'[p] # None
        PROVE  Recorded(index, p, promise[p])' /\ Recorded(saved, p, promise[p])'
    <3>1. CASE sel[p] # None
      <4>1. Recorded(index, p, sel[p]) /\ Recorded(saved, p, sel[p])
        BY <2>1, <2>2, <3>1 DEF Entered, Running, Calling, Selected, Recorded
      <4>2. promise'[p] = sel[p]
        BY <2>1, <3>1
      <4> QED BY <1>1, <4>1, <4>2 DEF Recorded
    <3>2. CASE sel[p] = None
      <4>1. promise'[p] = promise[p]
        BY <2>1, <3>2
      <4>2. Recorded(index, p, promise[p]) /\ Recorded(saved, p, promise[p])
        BY <2>3, <4>1 DEF Entered
      <4> QED BY <1>1, <4>1, <4>2 DEF Recorded
    <3> QED BY <3>1, <3>2
  <2>4. ~Running'
    BY <2>1 DEF Running, Calling
  <2> QED BY <1>1, <2>1, <2>3, <2>4, SenderRecorded DEF Entered
<1> QED BY <1>2, <1>3

LEMMA ForgetEntered ==
    ASSUME KInv, Entered, NEW c \in Call, Forget(c)
    PROVE  Entered'
<1> USE DEF KInv, TypeOK, TargetTypeOK
<1>1. /\ UNCHANGED <<file, data, index, held, saved, phase, sel, toPlace, awaited, promise>>
      /\ awaited # None => call'[awaited] = call[awaited]
  BY DEF Forget, senderVars
<1>2. \A p \in Path : promise'[p] # None =>
         Recorded(index, p, promise[p])' /\ Recorded(saved, p, promise[p])'
  BY <1>1, SenderRecorded
<1>3. Running' => \A p \in Selected(sel)' \ toPlace' : Recorded(index, p, sel[p])'
  BY <1>1 DEF Entered, Selected, Recorded, Running
<1>4. phase' = "place" /\ awaited' # None =>
         \A p \in NextBatch' :
            call'[awaited'].batch[p] = None => Recorded(index, p, sel[p])'
  BY <1>1 DEF Entered, NextBatch, Recorded
<1>5. phase' = "commit" /\ awaited' # None /\ call'[awaited'].pc \in {"clear", "ok"} =>
         saved' = index'
  BY <1>1 DEF Entered
<1> QED BY <1>1, <1>2, <1>3, <1>4, <1>5, SenderRecorded DEF Entered

\* A new receiver knows what was saved, which is all that was reported in place.
LEMMA RestartEntered ==
    ASSUME Settled, KInv, Entered, RestartReceiver
    PROVE  Entered'
<1> USE DEF KInv, TypeOK, TargetTypeOK
<1>1. /\ UNCHANGED <<file, data, saved, sel, toPlace, promise>>
      /\ index' = saved /\ held' \in Reloaded
      /\ awaited' = None /\ phase' \in {phase, "failed"}
      /\ phase \notin {"place", "commit"}
  BY DEF RestartReceiver, Restart, Retry, GiveUp, senderVars, Settled
<1>2. ASSUME NEW p \in Path, promise'[p] # None
      PROVE  Recorded(index, p, promise[p])' /\ Recorded(saved, p, promise[p])'
  <2>1. Recorded(saved, p, promise[p])
    BY <1>1, <1>2 DEF Entered
  <2> QED BY <1>1, <2>1 DEF Recorded
<1>3. Running' => Selected(sel)' \ toPlace' = {}
  BY <1>1 DEF Running, Calling, Progress, Selected
<1>4. ASSUME NEW p \in Path, index'[p] # None PROVE held'[index'[p].digest] # None
  <2> DEFINE d == saved[p].digest
  <2>1. saved[p] # None /\ d \in Digest
    BY <1>1, <1>4 DEF Entry
  <2>2. p \in {q \in Path : saved[q] # None /\ saved[q].digest = d}
    BY <2>1
  <2>3. held'[d] \in {q \in Path : saved[q] # None /\ saved[q].digest = d}
    BY <1>1, <2>1, <2>2 DEF Reloaded
  <2> QED BY <1>1, <2>3, FileTargetAssumption
<1> QED BY <1>1, <1>2, <1>3, <1>4 DEF Entered

LEMMA EditEntered ==
    ASSUME Settled, KInv, Entered, NEW p \in Path, Edit(p)
    PROVE  Entered'
<1> USE DEF KInv, TypeOK, TargetTypeOK
<1>1. /\ UNCHANGED <<index, held, saved, phase, sel, toPlace, awaited>>
      /\ promise' = [promise EXCEPT ![p] = None] /\ ~Running /\ awaited = None
  BY DEF Edit, Waiting
<1>2. ASSUME NEW q \in Path, q # p, file[q] # None
      PROVE  file'[q] = file[q] /\ data'[file[q]] = data[file[q]]
  <2>1. CASE UNCHANGED data /\ file' = [file EXCEPT ![p] = None]
    BY <1>2, <2>1
  <2>2. ASSUME NEW i \in Inode, Fresh(i), data' = [data EXCEPT ![i] = Foreign],
               file' = [file EXCEPT ![p] = i]
        PROVE  file'[q] = file[q] /\ data'[file[q]] = data[file[q]]
    BY <1>2, <2>2, FreshIsNew
  <2>3. ASSUME InPlaceEdits, file[p] # None, UNCHANGED file,
               data' = [data EXCEPT ![file[p]] = Foreign]
        PROVE  file'[q] = file[q] /\ data'[file[q]] = data[file[q]]
    BY <1>2, <2>3, WritesUnshared DEF Settled
  <2> QED BY <2>1, <2>2, <2>3 DEF Edit
<1>3. ASSUME NEW q \in Path, promise'[q] # None
      PROVE  Recorded(index, q, promise[q])' /\ Recorded(saved, q, promise[q])'
  <2>1. q # p /\ promise'[q] = promise[q]
    BY <1>1, <1>3 DEF Batch
  <2>2. Recorded(index, q, promise[q]) /\ Recorded(saved, q, promise[q])
    BY <1>3, <2>1 DEF Entered
  <2> QED BY <1>1, <1>2, <2>1, <2>2 DEF Recorded
<1> QED BY <1>1, <1>3 DEF Entered, Running, Calling

LEMMA NextEntered ==
    ASSUME Settled, KInv, Entered, [Next]_vars
    PROVE  Entered'
<1>1. ASSUME NEW t \in Trees, Start(t) PROVE Entered'
  <2>1. /\ UNCHANGED <<file, data, index, held, saved, promise>>
        /\ awaited' = None /\ Selected(sel)' \ toPlace' = {}
    BY <1>1 DEF Start, targetVars, Selected
  <2>2. \A p \in Path : promise'[p] # None =>
           Recorded(index, p, promise[p])' /\ Recorded(saved, p, promise[p])'
    BY <2>1, SenderRecorded
  <2> QED BY <2>1, <2>2, SenderRecorded DEF Entered
<1>2. CASE SendMissing \/ SendBlob \/ SendPlacements \/ SendCommit
  <2>1. Running
    BY <1>2 DEF SendMissing, SendBlob, SendPlacements, SendCommit, Running, Calling
  <2> QED BY <1>2, <2>1, SendEntered
<1>3. CASE Advance \/ LoseRequest \/ Quit \/ \E c \in Call : LoseAnswer(c)
  <2>1. /\ UNCHANGED <<file, data, index, held, saved, sel, toPlace, promise>>
        /\ awaited' = None /\ Running
    BY <1>3 DEF Advance, LoseRequest, LoseAnswer, Quit, Retry, GiveUp, targetVars, Settled,
                Running, Calling
  <2> QED BY <2>1, LetGoEntered
<1>4. ASSUME NEW c \in Call,
             AnswerMissing(c) \/ AnswerBlob(c) \/ AnswerRejected(c) \/ AnswerBroken(c)
      PROVE  Entered'
  <2>1. /\ UNCHANGED <<file, data, index, held, saved, sel, toPlace, promise>>
        /\ awaited' = None /\ Running
    BY <1>4 DEF AnswerMissing, AnswerBlob, AnswerRejected, AnswerBroken, Receive, Retry, GiveUp,
                Running, Calling
  <2> QED BY <2>1, LetGoEntered
<1>5. ASSUME NEW c \in Call, AnswerPlacements(c) \/ AnswerCommit(c) PROVE Entered'
  BY <1>5, AnswerEntered
<1>6. ASSUME NEW c \in Call, Forget(c) PROVE Entered'
  BY <1>6, ForgetEntered
<1>7. ASSUME NEW c \in Call, Work(c) PROVE Entered'
  BY <1>7, WorkEntered
<1>8. CASE RestartReceiver
  BY <1>8, RestartEntered
<1>9. ASSUME NEW p \in Path, Edit(p) PROVE Entered'
  BY <1>9, EditEntered
<1>10. CASE UNCHANGED <<targetVars, phase, sel, toPlace, awaited, promise>>
  BY <1>10 DEF targetVars, Entered, Recorded, Running, Selected, NextBatch
<1> QED
  BY <1>1, <1>2, <1>3, <1>4, <1>5, <1>6, <1>7, <1>8, <1>9, <1>10
     DEF Next, HandOver, StopUpload, Rest, vars, senderVars

\* The path a digest is held at is one the source has it at: promised with the
\* others, it is recorded as it lies there.
LEMMA EnteredRemembers ==
    ASSUME KInv, Entered
    PROVE  Remembered
<1> SUFFICES ASSUME NEW t \in Trees, NEW p \in Selected(t),
                    \A q \in Path : (\E u \in Trees : u[q] = t[p]) => promise[q] = t[p]
             PROVE  Has(t[p])
  BY DEF Remembered, Digests
<1> DEFINE d == t[p]
<1>1. p \in Path /\ d # None /\ d \in Digest /\ promise[p] = d
  BY PushAssumption DEF Selected, Batch
<1>2. index[p] # None /\ index[p].digest = d
  <2>1. Recorded(index, p, d)
    BY <1>1 DEF Entered
  <2> QED BY <2>1 DEF Recorded
<1>3. held[d] # None
  BY <1>1, <1>2 DEF Entered
<1> DEFINE q == held[d]
<1>4. q \in Path /\ Origin(q, d)
  BY <1>1, <1>3 DEF KInv, TypeOK, TargetTypeOK, Memory
<1>5. promise[q] = d
  BY <1>4 DEF Origin
<1>6. Untouched(q)
  <2>1. Recorded(index, q, d)
    BY <1>1, <1>4, <1>5 DEF Entered
  <2> QED BY <2>1 DEF Recorded, Untouched
<1>7. PlacedAt(d) # None
  BY <1>3, <1>6 DEF PlacedAt
<1> QED BY <1>7 DEF Has

\* A receiver is not sent again what it has in place untouched: the index knows it,
\* in memory, and on the disk from before the run was reported done, for the next
\* receiver (filetarget.go:31-41, 80-93, 186-208, cache.go:55-118).
THEOREM PushRemembered == Settled /\ Spec => []Remembered
<1> SUFFICES ASSUME Settled PROVE Spec => []Remembered
  OBVIOUS
<1>1. Init => KInv /\ Entered
  <2> SUFFICES ASSUME Init PROVE KInv /\ Entered
    OBVIOUS
  <2>1. Entered
    BY DEF Init, TargetInit, NoFiles, Entered, Running, Calling
  <2> QED BY <2>1, InitKInv
<1>2. KInv /\ Entered /\ [Next]_vars => KInv' /\ Entered'
  BY NextKInv, NextEntered DEF Settled
<1>3. KInv /\ Entered => Remembered
  BY EnteredRemembers
<1> QED BY <1>1, <1>2, <1>3, PTL DEF Spec

-----------------------------------------------------------------------------
(* Late calls.                                                             *)

\* Whatever a call still at work, early or late, may bring to a path is what the
\* source has there: by its batch, by the file it copies, by what is remembered.
Known ==
    /\ sel \in Trees \cup {NoFiles}
    /\ \A p \in Path : promise[p] # None => Origin(p, promise[p])
    /\ \A p \in Path : file[p] # None => Origin(p, data[file[p]])
    /\ \A c \in Call, p \in Path :
          call[c].batch[p] # None => Origin(p, call[c].batch[p])
    /\ \A c \in Call, p \in Path :
          Turn(c, p) /\ call[c].pc \in {"unlink", "link"} /\ call[c].from # Blob =>
             Origin(call[c].from, call[c].batch[p])
    /\ Memory

LEMMA OriginDigest ==
    ASSUME NEW p \in Path, NEW d, Origin(p, d)
    PROVE  d \in Digest
BY PushAssumption DEF Origin, Batch

\* The bytes a placement takes are those of its digest, from the blob or from the
\* path it found: nothing but that digest belongs there.
LEMMA KnownBytes ==
    ASSUME Stable, TypeOK, BlobsTrue, Known, NEW c \in Call, NEW p \in Path, Turn(c, p),
           call[c].pc = "link", Bytes(c, p) # None
    PROVE  Origin(p, data[Bytes(c, p)])
<1> DEFINE d == call[c].batch[p]
           q == call[c].from
<1>1. d # None /\ Origin(p, d)
  BY DEF Turn, Todo, Known
<1>2. d \in Digest
  BY <1>1, OriginDigest
<1>3. CASE q = Blob
  BY <1>1, <1>2, <1>3 DEF Bytes, BlobsTrue
<1>4. CASE q # Blob
  <2>1. q \in Path
    BY <1>4 DEF TypeOK, TargetTypeOK, CallState, Source
  <2>2. Origin(q, data[file[q]]) /\ Origin(q, d) /\ Bytes(c, p) = file[q]
    BY <1>4, <2>1 DEF Known, Bytes
  <2>3. data[file[q]] = d
    BY <1>2, <2>1, <2>2, OriginDigest DEF Stable
  <2> QED BY <1>1, <2>2, <2>3
<1> QED BY <1>3, <1>4

LEMMA HandleKnownFiles ==
    ASSUME Stable, TypeOK, BlobsTrue, Known, NEW c \in Call, Handle(c),
           NEW p \in Path, file'[p] # None
    PROVE  Origin(p, data'[file'[p]])
<1> USE DEF TypeOK, TargetTypeOK
<1>1. CASE UNCHANGED <<file, data>>
  BY <1>1 DEF Known
<1>2. CASE ~Turn(c, p)
  BY <1>2, HandleFile DEF Known
<1>3. CASE StoreBlob(c)
  BY <1>3, FreshIsNew DEF StoreBlob, Known
<1>4. ASSUME NEW q \in Path, Unlink(c, q), Turn(c, p) PROVE FALSE
  BY <1>4, OneTurn DEF Unlink
<1>5. ASSUME NEW q \in Path, Link(c, q), Turn(c, p) PROVE Origin(p, data'[file'[p]])
  <2>1. p = q
    BY <1>5, OneTurn DEF Link
  <2>2. file'[p] = Bytes(c, p) /\ data' = data
    BY <1>5, <2>1 DEF Link
  <2> QED BY <1>5, <2>1, <2>2, KnownBytes DEF Link
<1>6. ASSUME NEW q \in Path, Copy(c, q), Turn(c, p) PROVE Origin(p, data'[file'[p]])
  <2>1. p = q
    BY <1>6, OneTurn DEF Copy
  <2>2. data'[file'[p]] = data[Bytes(c, p)]
    BY <1>6, <2>1 DEF Copy
  <2> QED BY <1>6, <2>1, <2>2, KnownBytes DEF Copy
<1> QED
  BY <1>1, <1>2, <1>3, <1>4, <1>5, <1>6
     DEF Handle, CheckDigest, OpenTemp, RejectBody, LoseTemp, FindBytes, FailPlace,
         Remember, SaveIndex, FailCommit, Cleared, RemoveBlob, RemoveTemp

LEMMA HandleKnownSources ==
    ASSUME TypeOK, Known, NEW c \in Call, Handle(c), NEW e \in Call, NEW p \in Path,
           Turn(e, p)', call'[e].pc \in {"unlink", "link"}, call'[e].from # Blob
    PROVE  Origin(call'[e].from, call'[e].batch[p])
<1> USE DEF TypeOK, TargetTypeOK
<1>1. CASE /\ call'[e].batch = call[e].batch
           /\ call'[e].from = call[e].from
           /\ call[e].pc \in {"unlink", "link"}
  BY <1>1 DEF Known, Turn, Todo
<1>2. CASE e # c
  BY <1>1, <1>2, HandleCalls
<1>3. ASSUME NEW q \in Path, FindBytes(c, q), e = c
      PROVE  Origin(call'[e].from, call'[e].batch[p])
  <2> DEFINE d == call[c].batch[q]
  <2>1. call'[c].batch = call[c].batch /\ call[c] \in CallState
    BY <1>3 DEF FindBytes, Goto, CallState
  <2>2. q = p /\ d \in Digest
    BY <1>3, <2>1, OneTurn DEF FindBytes, Turn, Todo, CallState, Batch
  <2>3. call'[c].from = PlacedAt(d) /\ PlacedAt(d) # None
    BY <1>3, <2>1 DEF FindBytes, Goto, CallState
  <2>4. PlacedAt(d) = held[d]
    BY <2>3 DEF PlacedAt
  <2>5. Origin(held[d], d)
    BY <2>2, <2>3, <2>4 DEF Known, Memory
  <2> QED BY <1>3, <2>1, <2>2, <2>3, <2>4, <2>5
<1>4. ASSUME NEW q \in Path, Unlink(c, q) \/ FailPlace(c, q), e = c
      PROVE  Origin(call'[e].from, call'[e].batch[p])
  <2>1. /\ call'[c].batch = call[c].batch
        /\ call'[c].from = call[c].from
        /\ call[c].pc \in {"unlink", "link"}
    BY <1>4 DEF Unlink, FailPlace, Goto, CallState
  <2> QED BY <1>1, <1>4, <2>1
<1>5. ASSUME NEW q \in Path, Link(c, q) \/ Copy(c, q) \/ Remember(c, q), e = c
      PROVE  FALSE
  BY <1>5 DEF Link, Copy, Remember, Goto, CallState
<1>6. ASSUME NEW d \in Digest, CheckDigest(c, d) \/ RemoveBlob(c, d), e = c
      PROVE  FALSE
  BY <1>6 DEF CheckDigest, RemoveBlob, CallState
<1>7. ASSUME NEW other \in Call, RemoveTemp(c, other), e = c
      PROVE  FALSE
  BY <1>7 DEF RemoveTemp
<1>8. ASSUME OpenTemp(c) \/ RejectBody(c) \/ StoreBlob(c) \/ LoseTemp(c) \/ SaveIndex(c)
             \/ FailCommit(c) \/ Cleared(c), e = c
      PROVE  FALSE
  BY <1>8, OpenTempCall DEF RejectBody, StoreBlob, LoseTemp, SaveIndex, FailCommit, Cleared,
                            Goto, CallState
<1> QED BY <1>2, <1>3, <1>4, <1>5, <1>6, <1>7, <1>8 DEF Handle

\* What is recorded of a path is what the source has there, and lies there.
LEMMA HandleKnownMemory ==
    ASSUME Stable, TypeOK, Known, NEW c \in Call, Handle(c)
    PROVE  Memory'
<1> USE DEF Known
<1>1. CASE UNCHANGED <<index, held, saved>>
  BY <1>1 DEF Memory, Faithful, Origin
<1>2. CASE SaveIndex(c)
  BY <1>2 DEF SaveIndex, Memory, Faithful, Origin
<1>3. ASSUME NEW p \in Path, Remember(c, p), Remembers, file[p] # None PROVE Memory'
  <2> DEFINE d == call[c].batch[p]
  <2>1. d \in Digest /\ Turn(c, p)
    BY <1>3 DEF Remember, Turn, Todo, TypeOK, TargetTypeOK, CallState, Batch
  <2>2. Origin(p, d) /\ Origin(p, data[file[p]])
    BY <1>3, <2>1 DEF Turn, Todo
  <2>3. data[file[p]] = d
    BY <2>1, <2>2, OriginDigest DEF Stable
  <2>4. index' = [index EXCEPT ![p] = [digest |-> d, inode |-> file[p], data |-> data[file[p]]]]
        /\ held' = [held EXCEPT ![d] = p] /\ saved' = saved
    BY <1>3 DEF Remember
  <2>5. Faithful(index)'
    BY <1>3, <2>2, <2>3, <2>4 DEF Memory, Faithful, Origin, TypeOK, TargetTypeOK
  <2>6. \A e \in Digest : held'[e] # None => Remembers /\ Origin(held'[e], e)
    BY <1>3, <2>1, <2>2, <2>4 DEF Memory, TypeOK, TargetTypeOK
  <2> QED BY <2>4, <2>5, <2>6 DEF Memory, Faithful, Origin
<1>4. ASSUME NEW p \in Path, Remember(c, p) PROVE Memory'
  BY <1>1, <1>3, <1>4 DEF Remember
<1> QED
  BY <1>1, <1>2, <1>4
     DEF Handle, CheckDigest, OpenTemp, RejectBody, StoreBlob, LoseTemp, FindBytes, Unlink,
         Link, Copy, FailPlace, FailCommit, Cleared, RemoveBlob, RemoveTemp

LEMMA WorkKnown ==
    ASSUME Stable, TypeOK, BlobsTrue, Known, NEW c \in Call, Work(c)
    PROVE  Known'
<1>1. Handle(c) /\ UNCHANGED <<sel, promise>>
  BY DEF Work, senderVars
<1>2. \A e \in Call, p \in Path : call'[e].batch[p] \in {call[e].batch[p], None}
  BY <1>1, HandleCalls
<1>3. \A e \in Call, p \in Path : call'[e].batch[p] # None => Origin(p, call'[e].batch[p])
  BY <1>2 DEF Known
<1>4. \A p \in Path : file'[p] # None => Origin(p, data'[file'[p]])
  BY <1>1, HandleKnownFiles
<1>5. \A e \in Call, p \in Path :
         Turn(e, p)' /\ call'[e].pc \in {"unlink", "link"} /\ call'[e].from # Blob =>
            Origin(call'[e].from, call'[e].batch[p])
  BY <1>1, HandleKnownSources
<1>6. Memory'
  BY <1>1, HandleKnownMemory
<1> QED BY <1>1, <1>3, <1>4, <1>5, <1>6 DEF Known, Origin

\* A step that brings no file and no remembered entry, and lets no call begin but
\* with what the source has.
LEMMA SenderKnown ==
    ASSUME TypeOK, Known, UNCHANGED <<file, data>>, Memory', sel' \in Trees \cup {NoFiles},
           \A p \in Path : promise'[p] # None => Origin(p, promise'[p]),
           \A e \in Call : \/ call'[e] \in {call[e], Blank}
                           \/ /\ call'[e].pc \notin {"unlink", "link"}
                              /\ \A p \in Path : call'[e].batch[p] # None =>
                                                  Origin(p, call'[e].batch[p])
    PROVE  Known'
<1> USE BlankIsIdle
<1>1. \A p \in Path : file'[p] # None => Origin(p, data'[file'[p]])
  BY DEF Known
<1>2. \A e \in Call, p \in Path : call'[e].batch[p] # None => Origin(p, call'[e].batch[p])
  BY DEF Known
<1>3. \A e \in Call, p \in Path :
         Turn(e, p)' /\ call'[e].pc \in {"unlink", "link"} /\ call'[e].from # Blob =>
            Origin(call'[e].from, call'[e].batch[p])
  BY DEF Known, Turn, Todo
<1> QED BY <1>1, <1>2, <1>3 DEF Known, Origin

LEMMA NextKnown ==
    ASSUME MaxEdits = 0, Stable, TypeOK, BlobsTrue, Known, [Next]_vars
    PROVE  Known'
<1> USE DEF TypeOK, TargetTypeOK
<1> DEFINE SamePromise == \A p \in Path : promise'[p] # None => Origin(p, promise'[p])
           Steady == sel' \in Trees \cup {NoFiles} /\ SamePromise
<1>1. ASSUME UNCHANGED <<index, held, saved>> PROVE Memory'
  BY <1>1 DEF Known, Memory, Faithful, Origin
<1>2. ASSUME UNCHANGED <<sel, promise>> PROVE Steady
  BY <1>2 DEF Known
<1>3. ASSUME NEW t \in Trees, Start(t) PROVE Known'
  <2>1. UNCHANGED <<targetVars, promise>> /\ sel' = t
    BY <1>3 DEF Start
  <2>2. SamePromise
    BY <2>1 DEF Known
  <2> QED BY <1>1, <2>1, <2>2, SenderKnown DEF targetVars
<1>4. ASSUME NEW request, Send(request), request.pc \notin {"unlink", "link"}, SamePromise,
             \A p \in Path : request.batch[p] # None => Origin(p, request.batch[p])
      PROVE  Known'
  <2>1. PICK c \in Call : call' = [call EXCEPT ![c] = request]
    BY <1>4 DEF Send
  <2>2. call'[c] = request /\ \A e \in Call \ {c} : call'[e] = call[e]
    BY <2>1
  <2>3. UNCHANGED <<file, data, index, held, saved, sel>>
    BY <1>4 DEF Send
  <2>4. sel' \in Trees \cup {NoFiles}
    BY <2>3 DEF Known
  <2> QED BY <1>1, <1>4, <2>2, <2>3, <2>4, SenderKnown
<1>5. CASE SendMissing \/ SendBlob \/ SendCommit
  <2>1. SamePromise
    BY <1>2, <1>5 DEF SendMissing, SendBlob, SendCommit, Send
  <2>2. PICK request : /\ Send(request)
                       /\ request.pc \in {"check", "open", "save"}
                       /\ request.batch = NoFiles
    <3>1. \A want, d :
             /\ MissingCall(want).pc = "check" /\ MissingCall(want).batch = NoFiles
             /\ PutCall(d).pc = "open" /\ PutCall(d).batch = NoFiles
             /\ CommitCall.pc = "save" /\ CommitCall.batch = NoFiles
      BY DEF MissingCall, PutCall, CommitCall, Blank
    <3> QED BY <1>5, <3>1 DEF SendMissing, SendBlob, SendCommit
  <2> QED BY <1>4, <2>1, <2>2, BlankIsIdle
<1>6. CASE SendPlacements
  <2> DEFINE batch == [p \in Path |-> IF p \in NextBatch THEN sel[p] ELSE None]
             r == PlaceCall(batch)
  <2>1. Send(r) /\ promise' = [p \in Path |-> IF p \in NextBatch THEN None ELSE promise[p]]
    BY <1>6 DEF SendPlacements
  <2>2. r.pc = "find" /\ r.batch = batch
    BY DEF PlaceCall, Blank
  <2>3. SamePromise
    BY <2>1 DEF Known
  <2>4. ASSUME NEW p \in Path, batch[p] # None PROVE Origin(p, batch[p])
    <3>1. batch[p] = sel[p] /\ sel \in Trees
      BY <2>4 DEF Known, NoFiles
    <3> QED BY <2>4, <3>1 DEF Origin
  <2> HIDE DEF r, batch
  <2> QED BY <1>4, <2>1, <2>2, <2>3, <2>4
<1>7. ASSUME NEW c \in Call, AnswerCommit(c) PROVE Known'
  <2>1. promise' = [p \in Path |-> IF sel[p] # None THEN sel[p] ELSE promise[p]]
    BY <1>7 DEF AnswerCommit
  <2>2. \A p \in Path : sel[p] # None => Origin(p, sel[p])
    BY DEF Known, Origin, NoFiles
  <2>3. SamePromise
    BY <2>1, <2>2 DEF Known
  <2>4. /\ UNCHANGED <<file, data, index, held, saved, sel>>
        /\ \A e \in Call : call'[e] \in {call[e], Blank}
    BY <1>7 DEF AnswerCommit, Receive
  <2>5. sel' \in Trees \cup {NoFiles}
    BY <2>4 DEF Known
  <2> QED BY <1>1, <2>3, <2>4, <2>5, SenderKnown
<1>8. CASE /\ UNCHANGED <<file, data, index, held, saved, sel, promise>>
           /\ \A e \in Call : call'[e] \in {call[e], Blank}
  BY <1>1, <1>2, <1>8, SenderKnown
<1>9. CASE \/ Advance \/ StopUpload \/ LoseRequest \/ Rest \/ UNCHANGED vars
           \/ (\E d \in Digest : HandOver(d)) \/ \E c \in Call : LoseAnswer(c)
  BY <1>8, <1>9 DEF HandOver, Advance, StopUpload, LoseRequest, LoseAnswer, Retry, GiveUp,
                    Rest, vars, targetVars, senderVars
<1>10. ASSUME NEW c \in Call,
              \/ AnswerMissing(c) \/ AnswerBlob(c) \/ AnswerPlacements(c)
              \/ AnswerRejected(c) \/ AnswerBroken(c) \/ Forget(c)
       PROVE  Known'
  BY <1>8, <1>10 DEF AnswerMissing, AnswerBlob, AnswerPlacements, AnswerRejected,
                     AnswerBroken, Receive, Retry, GiveUp, Forget, senderVars
<1>11. CASE Quit \/ RestartReceiver
  <2>1. /\ UNCHANGED <<file, data, sel, promise>>
        /\ \A e \in Call : call'[e] \in {call[e], Blank}
    BY <1>11 DEF Quit, RestartReceiver, Restart, Retry, GiveUp, targetVars, senderVars
  <2>2. Memory'
    BY <1>1, <1>11, RestartMemory DEF Quit, RestartReceiver, targetVars, Known
  <2> QED BY <1>2, <2>1, <2>2, SenderKnown
<1>12. ASSUME NEW c \in Call, Work(c) PROVE Known'
  BY <1>12, WorkKnown
<1>13. ASSUME NEW p \in Path, Edit(p) PROVE FALSE
  BY <1>13 DEF Edit
<1> QED BY <1>3, <1>5, <1>6, <1>7, <1>9, <1>10, <1>11, <1>12, <1>13 DEF Next

\* Calls handled late, after their sender gave them up and others came, can take a
\* path away that was reported in place (push_late) but never put other bytes there
\* than the source has: what a late placement copies, from a blob or from another
\* path, is right or gone (filetarget.go:140-198).
THEOREM PushRightOrAbsent == MaxEdits = 0 /\ Stable /\ Spec => []RightOrAbsent
<1> SUFFICES ASSUME MaxEdits = 0, Stable PROVE Spec => []RightOrAbsent
  OBVIOUS
<1>1. Unshared
  BY DEF Unshared
<1>2. Init => Known
  <2> SUFFICES ASSUME Init PROVE Known
    OBVIOUS
  <2>1. Memory /\ \A c \in Call : call[c] = Blank
    BY InitKInv DEF KInv, Init, TargetInit
  <2> QED BY <2>1, BlankIsIdle DEF Init, TargetInit, Known, Turn, Todo
<1>3. TypeOK /\ BlobsTrue /\ Known /\ [Next]_vars => Known'
  BY NextKnown
<1>4. Known => RightOrAbsent
  BY OriginDigest DEF Known, RightOrAbsent, Holds, Stable
<1> QED BY <1>1, <1>2, <1>3, <1>4, PushTypeOK, PushBlobsTrue, PTL DEF Spec

=============================================================================
