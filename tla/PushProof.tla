------------------------------ MODULE PushProof -----------------------------
(***************************************************************************)
(* Theorems about Push, for every set of digests, number of paths and of   *)
(* call slots, selection and bound.                                        *)
(***************************************************************************)
EXTENDS Push, FiniteSetTheorems, TLAPS

\* A sender waits only while its run is under way, a worker that uploads has not
\* returned, and there is one where the sender waits for an upload.
Waiting ==
    /\ awaited # None => Running
    /\ job # None => gone < Workers
    /\ phase = "upload" /\ awaited # None => job # None

-----------------------------------------------------------------------------
(* Types.                                                                  *)

LEMMA BlankType == NoFiles \in Batch /\ Blank \in CallState
BY FileTargetAssumption DEF NoFiles, Batch, Blank, CallState, Op, Pc, Source, Blob

\* Every step of a handler leaves the receiver well-typed.
LEMMA HandleType ==
    ASSUME TargetTypeOK, NEW c \in Call, Handle(c)
    PROVE  TargetTypeOK'
<1> USE FileTargetAssumption, BlankType
<1> USE DEF TargetTypeOK, Goto
<1>1. ASSUME NEW d \in Digest, CheckDigest(c, d) PROVE TargetTypeOK'
  <2>1. call[c] \in CallState
    OBVIOUS
  <2>2. (IF Has(d) THEN call[c].lacks ELSE call[c].lacks \cup {d}) \in SUBSET Digest
    BY <2>1 DEF CallState
  <2>3. call'[c] = [call[c] EXCEPT !.ask = call'[c].ask, !.lacks = call'[c].lacks,
                                   !.pc = call'[c].pc]
        /\ call'[c].ask \in SUBSET Digest
        /\ call'[c].lacks \in SUBSET Digest
        /\ call'[c].pc \in Pc
    BY <1>1, <2>1, <2>2 DEF CheckDigest, CallState, Pc
  <2>4. call'[c] \in CallState
    BY <2>1, <2>3 DEF CallState
  <2> QED BY <1>1, <2>4 DEF CheckDigest
<1>2. CASE OpenTemp(c)
  <2>1. PICK x \in call[c].ask \cup {Foreign} :
           call' = [call EXCEPT ![c].temp = x, ![c].pc = "copy"]
    BY <1>2 DEF OpenTemp
  <2>2. x \in Content \cup {None}
    BY <2>1 DEF CallState, Content
  <2>3. [call[c] EXCEPT !.temp = x, !.pc = "copy"] \in CallState
    BY <2>2 DEF CallState, Pc
  <2> QED BY <1>2, <2>1, <2>3 DEF OpenTemp
<1>3. CASE RejectBody(c)
  BY <1>3 DEF RejectBody, CallState, Pc
<1>4. CASE StoreBlob(c)
  BY <1>4 DEF StoreBlob, CallState, Pc, Content
<1>5. CASE LoseTemp(c)
  BY <1>5 DEF LoseTemp, CallState, Pc
<1>6. ASSUME NEW p \in Path, FindBytes(c, p) PROVE TargetTypeOK'
  BY <1>6 DEF FindBytes, CallState, Pc, Source, PlacedAt
<1>7. ASSUME NEW p \in Path, Unlink(c, p) PROVE TargetTypeOK'
  BY <1>7 DEF Unlink, CallState, Pc
<1>8. ASSUME NEW p \in Path, Turn(c, p) PROVE Bytes(c, p) \in Inode \cup {None}
  BY <1>8 DEF Turn, Todo, Bytes, CallState, Batch, Source
<1>9. ASSUME NEW p \in Path, Link(c, p) PROVE TargetTypeOK'
  BY <1>8, <1>9 DEF Link, CallState, Pc
<1>10. ASSUME NEW p \in Path, Copy(c, p) PROVE TargetTypeOK'
  BY <1>8, <1>10 DEF Copy, CallState, Pc
<1>11. ASSUME NEW p \in Path, FailPlace(c, p) PROVE TargetTypeOK'
  BY <1>11 DEF FailPlace, CallState, Pc
<1>12. ASSUME NEW p \in Path, Remember(c, p) PROVE TargetTypeOK'
  <2>1. call[c].batch[p] \in Digest /\ call[c].batch \in Batch
    BY <1>12 DEF Remember, CallState, Turn, Todo, Batch
  <2>2. [call[c].batch EXCEPT ![p] = None] \in Batch
    BY <2>1 DEF Batch
  <2>3. call' \in [Call -> CallState]
    <3>1. PICK b \in Batch, pc \in Pc :
             call' = [call EXCEPT ![c].batch = b, ![c].pc = pc]
      BY <1>12, <2>2 DEF Remember, Pc
    <3>2. [call[c] EXCEPT !.batch = b, !.pc = pc] \in CallState
      BY DEF CallState
    <3> QED BY <3>1, <3>2
  <2>4. index' \in [Path -> Entry \cup {None}] /\ held' \in [Digest -> Path \cup {None}]
    BY <1>12, <2>1 DEF Remember, Entry
  <2> QED BY <1>12, <2>3, <2>4 DEF Remember
<1>13. CASE SaveIndex(c)
  BY <1>13 DEF SaveIndex, CallState, Pc
<1>14. CASE FailCommit(c)
  BY <1>14 DEF FailCommit, CallState, Pc
<1>15. CASE Cleared(c)
  BY <1>15 DEF Cleared, CallState, Pc
<1>16. ASSUME NEW d \in Digest, RemoveBlob(c, d) PROVE TargetTypeOK'
  BY <1>16 DEF RemoveBlob
<1>17. ASSUME NEW other \in Call, RemoveTemp(c, other) PROVE TargetTypeOK'
  <2>1. [call[other] EXCEPT !.temp = None] \in CallState
    BY DEF CallState
  <2> QED BY <1>17, <2>1 DEF RemoveTemp
<1> QED BY <1>1, <1>2, <1>3, <1>4, <1>5, <1>6, <1>7, <1>9, <1>10, <1>11, <1>12, <1>13,
           <1>14, <1>15, <1>16, <1>17 DEF Handle

\* What the other proofs need to know of opening a temporary file.
LEMMA OpenTempCall ==
    ASSUME TargetTypeOK, NEW c \in Call, OpenTemp(c)
    PROVE  /\ call[c].pc = "open" /\ call'[c].pc = "copy"
           /\ call'[c].op = call[c].op
           /\ call'[c].batch = call[c].batch
           /\ call'[c].from = call[c].from
           /\ \A e \in Call \ {c} : call'[e] = call[e]
           /\ UNCHANGED <<blob, file, data, index, held, saved>>
<1>1. PICK x : call' = [call EXCEPT ![c].temp = x, ![c].pc = "copy"]
  BY DEF OpenTemp
<1> QED BY <1>1 DEF OpenTemp, TargetTypeOK, CallState

LEMMA RestartType == TargetTypeOK /\ Restart => TargetTypeOK'
BY BlankType DEF TargetTypeOK, Restart, Reloaded

LEMMA InitType == Init => TypeOK /\ Waiting
<1> SUFFICES ASSUME Init PROVE TypeOK /\ Waiting
  OBVIOUS
<1> USE FileTargetAssumption, PushAssumption, BlankType DEF Init
<1>1. TargetTypeOK
  BY DEF TargetInit, TargetTypeOK, Content
<1>2. TypeOK
  BY <1>1 DEF TypeOK, Phase, Calling
<1>3. Waiting
  BY DEF Waiting, Running, Calling
<1> QED BY <1>2, <1>3

LEMMA NextType == TypeOK /\ Waiting /\ [Next]_vars => TypeOK' /\ Waiting'
<1> SUFFICES ASSUME TypeOK, Waiting, [Next]_vars PROVE TypeOK' /\ Waiting'
  OBVIOUS
<1> USE FileTargetAssumption, PushAssumption, BlankType
<1> USE DEF TypeOK, Waiting, Running, Calling, Phase, senderVars, bounds
<1>1. ASSUME NEW t \in Trees, Start(t) PROVE TypeOK' /\ Waiting'
  <2>1. Digests(t) \subseteq Digest
    BY DEF Digests, Selected, Batch
  <2> QED BY <1>1, <2>1 DEF Start, targetVars, TargetTypeOK, Selected
<1>2. ASSUME NEW request \in CallState, Send(request), promise' \in Batch, Running,
             phase = "upload" => job # None
      PROVE  TypeOK' /\ Waiting'
  BY <1>2 DEF Send, TargetTypeOK
\* Giving a call up, or trying it again, while the sender waits or has a job.
<1>again. ASSUME Running, phase = "upload" => job # None, Retry \/ GiveUp,
                 UNCHANGED <<runs, edits>>, restarts' \in 0 .. MaxRestarts,
                 awaited' = None, TargetTypeOK'
          PROVE  TypeOK' /\ Waiting'
  <2>1. CASE GiveUp
    BY <1>again, <2>1 DEF GiveUp
  <2>2. CASE Retry /\ ~GiveUp
    BY <1>again, <2>2 DEF Retry
  <2> QED BY <1>again, <2>1, <2>2
<1>3. CASE SendMissing
  <2>1. MissingCall(NextQuery) \in CallState
    <3>1. NextQuery \subseteq Digest
      BY DEF NextQuery
    <3> QED BY <3>1 DEF MissingCall, CallState, Op, Pc, Blank
  <2> QED BY <1>2, <1>3, <2>1 DEF SendMissing
<1>4. CASE SendBlob
  <2>1. PutCall(job) \in CallState
    BY <1>4 DEF SendBlob, PutCall, CallState, Op, Pc, Blank
  <2> QED BY <1>2, <1>4, <2>1 DEF SendBlob
<1>5. CASE SendPlacements
  <2> DEFINE batch == [p \in Path |-> IF p \in NextBatch THEN sel[p] ELSE None]
  <2>1. batch \in Batch
    BY DEF Batch
  <2>2. PlaceCall(batch) \in CallState
    BY <2>1 DEF PlaceCall, CallState, Op, Pc, Blank
  <2>3. promise' \in Batch
    BY <1>5 DEF SendPlacements, Batch
  <2> QED BY <1>2, <1>5, <2>2, <2>3 DEF SendPlacements
<1>6. CASE SendCommit
  <2>1. CommitCall \in CallState
    BY DEF CommitCall, CallState, Op, Pc, Blank
  <2> QED BY <1>2, <1>6, <2>1 DEF SendCommit
<1>over. ASSUME NEW d \in Digest, HandOver(d) PROVE TypeOK' /\ Waiting'
  BY <1>over DEF HandOver, targetVars, TargetTypeOK
<1>7. CASE Advance
  BY <1>7 DEF Advance, targetVars, TargetTypeOK
<1>8. ASSUME NEW c \in Call, AnswerMissing(c) PROVE TypeOK' /\ Waiting'
  <2>1. call[c].lacks \subseteq Digest
    BY DEF TargetTypeOK, CallState
  <2> QED BY <1>8, <2>1 DEF AnswerMissing, Receive, TargetTypeOK
<1>9. ASSUME NEW c \in Call, AnswerBlob(c) PROVE TypeOK' /\ Waiting'
  BY <1>9 DEF AnswerBlob, Receive, TargetTypeOK
<1>10. ASSUME NEW c \in Call, AnswerPlacements(c) PROVE TypeOK' /\ Waiting'
  BY <1>10 DEF AnswerPlacements, Receive, TargetTypeOK
<1>11. ASSUME NEW c \in Call, AnswerCommit(c) PROVE TypeOK' /\ Waiting'
  BY <1>11 DEF AnswerCommit, Receive, TargetTypeOK, Batch
<1>12. ASSUME NEW c \in Call, AnswerRejected(c) PROVE TypeOK' /\ Waiting'
  <2>1. TargetTypeOK' /\ awaited' = None /\ awaited # None /\ UNCHANGED bounds
    BY <1>12 DEF AnswerRejected, Receive, TargetTypeOK
  <2> QED BY <1>12, <1>again, <2>1 DEF AnswerRejected
<1>13. ASSUME NEW c \in Call, AnswerBroken(c) PROVE TypeOK' /\ Waiting'
  <2>1. TargetTypeOK' /\ awaited' = None /\ awaited # None /\ UNCHANGED bounds
    BY <1>13 DEF AnswerBroken, Receive, TargetTypeOK
  <2> QED BY <1>13, <1>again, <2>1 DEF AnswerBroken
<1>14. CASE LoseRequest
  <2>1. TargetTypeOK'
    BY <1>14 DEF LoseRequest, targetVars, TargetTypeOK
  <2> QED BY <1>14, <1>again, <2>1 DEF LoseRequest
<1>15. ASSUME NEW c \in Call, LoseAnswer(c) PROVE TypeOK' /\ Waiting'
  <2>1. TargetTypeOK'
    BY <1>15 DEF LoseAnswer, targetVars, TargetTypeOK
  <2> QED BY <1>15, <1>again, <2>1 DEF LoseAnswer
<1>16. ASSUME NEW c \in Call, Forget(c) PROVE TypeOK' /\ Waiting'
  BY <1>16 DEF Forget, TargetTypeOK
<1>17. CASE StopUpload
  BY <1>17 DEF StopUpload, targetVars, TargetTypeOK
<1>18. CASE Quit
  <2>1. TargetTypeOK'
    BY <1>18, RestartType DEF Quit, targetVars, TargetTypeOK
  <2> QED BY <1>18, <2>1 DEF Quit
<1>19. ASSUME NEW c \in Call, Work(c) PROVE TypeOK' /\ Waiting'
  BY <1>19, HandleType DEF Work
<1>20. CASE RestartReceiver
  <2>1. TargetTypeOK'
    BY <1>20, RestartType DEF RestartReceiver
  <2>2. CASE awaited = None
    BY <1>20, <2>1, <2>2 DEF RestartReceiver
  <2>3. CASE awaited # None
    BY <1>20, <1>again, <2>1, <2>3 DEF RestartReceiver
  <2> QED BY <2>2, <2>3
<1>21. ASSUME NEW p \in Path, Edit(p) PROVE TypeOK' /\ Waiting'
  BY <1>21 DEF Edit, TargetTypeOK, Content, Batch
<1>22. CASE UNCHANGED vars
  BY <1>22 DEF vars, targetVars, TargetTypeOK
<1>23. CASE Rest
  BY <1>22, <1>23 DEF Rest
<1> QED BY <1>1, <1>3, <1>4, <1>5, <1>6, <1>7, <1>8, <1>9, <1>10, <1>11, <1>12, <1>13,
           <1>14, <1>15, <1>16, <1>17, <1>18, <1>19, <1>20, <1>21, <1>22, <1>23, <1>over DEF Next

LEMMA Typed == Spec => [](TypeOK /\ Waiting)
BY InitType, NextType, PTL DEF Spec

\* The state of the sender and the receiver has its type, whatever is lost,
\* restarted, retried or edited.
THEOREM PushTypeOK == Spec => []TypeOK
BY Typed, PTL

-----------------------------------------------------------------------------
(* The blob store.                                                         *)

\* A file about to be written takes an inode no name has yet.
LEMMA FreshIsNew ==
    ASSUME TargetTypeOK, NEW i \in Inode, Fresh(i)
    PROVE  /\ \A d \in Digest : blob[d] # i
           /\ \A p \in Path : file[p] # i
BY DEF Fresh, Used

LEMMA HandleBlobs ==
    ASSUME TargetTypeOK, BlobsTrue, NEW c \in Call, Handle(c)
    PROVE  BlobsTrue'
<1>1. CASE UNCHANGED <<blob, data>>
  BY <1>1 DEF BlobsTrue
<1>2. CASE StoreBlob(c)
  <2>1. PICK i \in Inode, d \in call[c].ask :
           Fresh(i) /\ data' = [data EXCEPT ![i] = d] /\ blob' = [blob EXCEPT ![d] = i]
    BY <1>2 DEF StoreBlob
  <2> QED BY <2>1, FreshIsNew DEF BlobsTrue, TargetTypeOK
<1>3. ASSUME NEW p \in Path, Copy(c, p) PROVE BlobsTrue'
  <2>1. PICK i \in Inode : Fresh(i) /\ data' = [data EXCEPT ![i] = data[Bytes(c, p)]]
    BY <1>3 DEF Copy
  <2> QED BY <1>3, <2>1, FreshIsNew DEF Copy, BlobsTrue, TargetTypeOK
<1>4. ASSUME NEW d \in Digest, RemoveBlob(c, d) PROVE BlobsTrue'
  BY <1>4 DEF RemoveBlob, BlobsTrue, TargetTypeOK
<1> QED
  BY <1>1, <1>2, <1>3, <1>4
     DEF Handle, CheckDigest, OpenTemp, RejectBody, LoseTemp, FindBytes, Unlink, Link,
         FailPlace, Remember, SaveIndex, FailCommit, Cleared, RemoveTemp

\* Without hard links every name at the destination is a file of its own.
Apart ==
    ~HardLinks => \A p \in Path : file[p] # None =>
        /\ \A q \in Path : q # p => file[q] # file[p]
        /\ \A d \in Digest : blob[d] # file[p]

\* Nobody writes into a file at the destination, or nothing else is that file.
Unshared == MaxEdits = 0 \/ ~InPlaceEdits \/ ~HardLinks

LEMMA HandleApart ==
    ASSUME TargetTypeOK, Apart, NEW c \in Call, Handle(c)
    PROVE  Apart'
<1> USE FileTargetAssumption DEF TargetTypeOK
<1>1. CASE UNCHANGED <<blob, file>>
  BY <1>1 DEF Apart
<1>2. CASE StoreBlob(c)
  <2>1. PICK i \in Inode, d \in call[c].ask :
           Fresh(i) /\ blob' = [blob EXCEPT ![d] = i]
    BY <1>2 DEF StoreBlob
  <2> QED BY <1>2, <2>1, FreshIsNew DEF StoreBlob, Apart
<1>3. ASSUME NEW p \in Path, Unlink(c, p) PROVE Apart'
  BY <1>3 DEF Unlink, Apart
<1>4. ASSUME NEW p \in Path, Link(c, p) PROVE Apart'
  BY <1>4 DEF Link, Apart
<1>5. ASSUME NEW p \in Path, Copy(c, p) PROVE Apart'
  <2>1. PICK i \in Inode : Fresh(i) /\ file' = [file EXCEPT ![p] = i]
    BY <1>5 DEF Copy
  <2> QED BY <1>5, <2>1, FreshIsNew DEF Copy, Apart
<1>6. ASSUME NEW d \in Digest, RemoveBlob(c, d) PROVE Apart'
  BY <1>6 DEF RemoveBlob, Apart
<1> QED
  BY <1>1, <1>2, <1>3, <1>4, <1>5, <1>6
     DEF Handle, CheckDigest, OpenTemp, RejectBody, LoseTemp, FindBytes, FailPlace,
         Remember, SaveIndex, FailCommit, Cleared, RemoveTemp

LEMMA NextApart ==
    ASSUME TypeOK, Apart, [Next]_vars
    PROVE  Apart'
<1>1. CASE UNCHANGED <<blob, file>>
  BY <1>1 DEF Apart
<1>2. ASSUME NEW c \in Call, Work(c) PROVE Apart'
  BY <1>2, HandleApart DEF Work, TypeOK
<1>3. ASSUME NEW p \in Path, Edit(p) PROVE Apart'
  <2> USE FileTargetAssumption DEF TypeOK, TargetTypeOK
  <2>1. CASE file' = [file EXCEPT ![p] = None]
    BY <1>3, <2>1 DEF Edit, Apart
  <2>2. ASSUME NEW i \in Inode, Fresh(i), file' = [file EXCEPT ![p] = i]
        PROVE  Apart'
    BY <1>3, <2>2, FreshIsNew DEF Edit, Apart
  <2>3. CASE UNCHANGED file
    BY <1>1, <1>3, <2>3 DEF Edit
  <2> QED BY <1>3, <2>1, <2>2, <2>3 DEF Edit
<1> QED
  BY <1>1, <1>2, <1>3
     DEF Next, Start, SendMissing, HandOver, SendBlob, SendPlacements, SendCommit, Send,
         Advance, AnswerMissing, AnswerBlob, AnswerPlacements, AnswerCommit,
         AnswerRejected, AnswerBroken, Receive, LoseRequest, LoseAnswer, Forget,
         StopUpload, Quit,
         RestartReceiver, Restart, Rest, vars, targetVars

LEMMA NextBlobs ==
    ASSUME Unshared, TypeOK, Apart, BlobsTrue, [Next]_vars
    PROVE  BlobsTrue'
<1>1. CASE UNCHANGED <<blob, data>>
  BY <1>1 DEF BlobsTrue
<1>2. ASSUME NEW c \in Call, Work(c) PROVE BlobsTrue'
  BY <1>2, HandleBlobs DEF Work, TypeOK
<1>3. ASSUME NEW p \in Path, Edit(p) PROVE BlobsTrue'
  <2>1. CASE UNCHANGED data
    BY <1>1, <1>3, <2>1 DEF Edit
  <2>2. ASSUME NEW i \in Inode, Fresh(i), data' = [data EXCEPT ![i] = Foreign]
        PROVE  BlobsTrue'
    BY <1>3, <2>2, FreshIsNew DEF Edit, BlobsTrue, TypeOK, TargetTypeOK
  <2>3. ASSUME InPlaceEdits, file[p] # None, data' = [data EXCEPT ![file[p]] = Foreign]
        PROVE  BlobsTrue'
    <3>1. ~HardLinks
      BY <1>3, <2>3, PushAssumption DEF Unshared, Edit, TypeOK
    <3> QED BY <1>3, <2>3, <3>1 DEF Apart, Edit, BlobsTrue, TypeOK, TargetTypeOK
  <2> QED BY <1>3, <2>1, <2>2, <2>3 DEF Edit
<1> QED
  BY <1>1, <1>2, <1>3
     DEF Next, Start, SendMissing, HandOver, SendBlob, SendPlacements, SendCommit, Send,
         Advance, AnswerMissing, AnswerBlob, AnswerPlacements, AnswerCommit,
         AnswerRejected, AnswerBroken, Receive, LoseRequest, LoseAnswer, Forget,
         StopUpload, Quit,
         RestartReceiver, Restart, Rest, vars, targetVars

LEMMA InitStore == Init => BlobsTrue /\ Apart
BY DEF Init, TargetInit, BlobsTrue, Apart

\* Every blob holds the bytes its name says, through lost and late calls, crashes
\* and restarts, unless somebody writes into a placed file that is a hard link:
\* the file and the blob may be one (filetarget.go:102, 168).
THEOREM PushBlobsTrue == Unshared /\ Spec => []BlobsTrue
<1> SUFFICES ASSUME Unshared PROVE Spec => []BlobsTrue
  OBVIOUS
<1>1. TypeOK /\ BlobsTrue /\ Apart /\ [Next]_vars => BlobsTrue' /\ Apart'
  BY NextBlobs, NextApart
<1> QED BY <1>1, InitStore, PushTypeOK, PTL DEF Spec
=============================================================================
