-------------------------------- MODULE Push --------------------------------
(***************************************************************************)
(* transfer.Apply on the sending side, over a receiver (FileTarget): ask   *)
(* what is missing, send it, place every path, commit.  With Remembers the *)
(* receiver is another process reached over HTTP (api.Client): a call may  *)
(* be lost on its way, its answer may be lost, and either is retried.      *)
(* Otherwise the target is a directory and the calls are plain Go calls.   *)
(*                                                                         *)
(* One run follows another over the same destination, each with the tree   *)
(* the source then has; between runs somebody may change the destination.  *)
(*                                                                         *)
(* A run makes one call at a time here.  The uploads the code makes in     *)
(* parallel are of different digests and touch different names; how its    *)
(* pool of workers interleaves is the subject of UploadPool.  What remains *)
(* of the pool here is what a failed upload does to the run: it ends the   *)
(* worker that made it, and nothing else.                                  *)
(***************************************************************************)
EXTENDS FileTarget

CONSTANTS
    Trees,        \* what a run may find selected: the digest of each path
    Attempts,     \* api.Attempts: tries of one call
    Workers,      \* Options.Workers: how many upload
    NegotiateBatch, \* negotiateBatch: digests one call asks a receiver about
    PlaceBatch,   \* placeBatch: placements in one call
    LateCalls,    \* a call may still be handled after its sender gave it up
    InPlaceEdits, \* the destination is also edited by writing into a file
    RestartPhases,\* the phases in which the receiver may be restarted
    MaxRuns,      \* bound: runs of apply
    MaxEdits,     \* bound: changes somebody makes at the destination
    MaxRestarts   \* bound: restarts of the receiver

ASSUME PushAssumption ==
    /\ Trees \subseteq Batch
    /\ Attempts \in Nat \ {0}
    /\ Workers \in Nat \ {0}
    /\ NegotiateBatch \in Nat \ {0}
    /\ PlaceBatch \in Nat \ {0}
    /\ LateCalls \in BOOLEAN
    /\ InPlaceEdits \in BOOLEAN
    /\ RestartPhases \subseteq {"ready", "negotiate", "upload", "place", "commit",
                               "done", "failed"}
    /\ MaxRuns \in Nat
    /\ MaxEdits \in Nat
    /\ MaxRestarts \in Nat

VARIABLES
    phase,    \* where the run is
    sel,      \* the run's selection: the digest of each selected path
    toAsk,    \* digests Missing was not asked about yet
    toSend,   \* digests answered missing and not handed to a worker yet
    job,      \* the digest a worker is uploading
    gone,     \* how many workers met an error and returned
    toPlace,  \* selected paths not placed yet
    awaited,  \* the call whose answer the run waits for
    tries,    \* failed tries of the current call
    promise,  \* history: what a run reported in place, until a later run sends
              \* that path again or somebody changes it
    runs, edits, restarts

senderVars == <<phase, sel, toAsk, toSend, job, gone, toPlace, awaited, tries, promise>>
bounds     == <<runs, edits, restarts>>
vars       == <<targetVars, senderVars, bounds>>

Calling == {"negotiate", "upload", "place", "commit"}
Phase   == Calling \cup {"ready", "done", "failed"}

Running     == phase \in Calling
Selected(t) == {p \in Path : t[p] # None}
Digests(t)  == {t[p] : p \in Selected(t)}

TypeOK ==
    /\ TargetTypeOK
    /\ phase \in Phase
    /\ sel \in Batch
    /\ toAsk \subseteq Digest
    /\ toSend \subseteq Digest
    /\ job \in Digest \cup {None}
    /\ gone \in 0 .. Workers
    /\ toPlace \subseteq Path
    /\ awaited \in Call \cup {None}
    /\ tries \in 0 .. Attempts - 1
    /\ promise \in Batch
    /\ runs \in 0 .. MaxRuns
    /\ edits \in 0 .. MaxEdits
    /\ restarts \in 0 .. MaxRestarts

-----------------------------------------------------------------------------
(* The run.                                                                *)

Start(t) ==
    /\ ~Running
    /\ runs < MaxRuns
    /\ LateCalls \/ Idle
    /\ phase' = "negotiate"
    /\ sel' = t
    /\ toAsk' = Digests(t)
    /\ toSend' = {}
    /\ job' = None
    /\ gone' = 0
    /\ toPlace' = Selected(t)
    /\ awaited' = None
    /\ tries' = 0
    /\ runs' = runs + 1
    /\ UNCHANGED <<targetVars, promise, edits, restarts>>

\* A call reaches the receiver and takes a free slot.
Send(request) ==
    /\ awaited = None
    /\ \E c \in Call :
          /\ call[c].op = "idle"
          /\ call' = [call EXCEPT ![c] = request]
          /\ awaited' = c
    /\ UNCHANGED <<blob, file, data, index, held, saved>>
    /\ UNCHANGED <<phase, sel, toAsk, toSend, job, gone, toPlace, tries, bounds>>

\* The digests are asked about in the order of the paths they are first met at.
Before(e, d) ==
    \E p \in Path : sel[p] = e /\ \A q \in Path : sel[q] = d => p < q

\* A directory is asked about all of them, a receiver about the next negotiateBatch.
NextQuery ==
    {d \in toAsk :
        Remembers => Cardinality({e \in toAsk : Before(e, d)}) < NegotiateBatch}

SendMissing ==
    /\ phase = "negotiate"
    /\ toAsk # {}
    /\ Send(MissingCall(NextQuery))
    /\ UNCHANGED promise

\* The feeder hands a digest to a worker that is left.
HandOver(d) ==
    /\ phase = "upload"
    /\ job = None
    /\ gone < Workers
    /\ d \in toSend
    /\ job' = d
    /\ toSend' = toSend \ {d}
    /\ UNCHANGED <<targetVars, phase, sel, toAsk, gone, toPlace, awaited, tries, promise>>
    /\ UNCHANGED bounds

SendBlob ==
    /\ phase = "upload"
    /\ job # None
    /\ Send(PutCall(job))
    /\ UNCHANGED promise

\* The next placeBatch of the paths still to place, which are sorted.
NextBatch == {p \in toPlace : Cardinality({q \in toPlace : q < p}) < PlaceBatch}

SendPlacements ==
    /\ phase = "place"
    /\ toPlace # {}
    /\ Send(PlaceCall([p \in Path |-> IF p \in NextBatch THEN sel[p] ELSE None]))
    /\ promise' = [p \in Path |-> IF p \in NextBatch THEN None ELSE promise[p]]

SendCommit ==
    /\ phase = "commit"
    /\ Send(CommitCall)
    /\ UNCHANGED promise

AdvanceEarly ==          \* mutant: placing ends with its first batch
    /\ awaited = None
    /\ \/ phase = "negotiate" /\ toAsk = {} /\ phase' \in {"upload", "ready"}
       \/ phase = "upload" /\ toSend = {} /\ job = None
             /\ phase' = IF gone = 0 THEN "place" ELSE "failed"
       \/ phase = "place" /\ phase' = "commit"
    /\ UNCHANGED <<targetVars, sel, toAsk, toSend, job, gone, toPlace, awaited, tries>>
    /\ UNCHANGED <<promise, bounds>>

\* Missing, uploadAll and placeAll are through with their lists; a dry run ends
\* with the first, and uploadAll returns the error of a worker that met one.
Advance ==
    /\ awaited = None
    /\ \/ phase = "negotiate" /\ toAsk = {} /\ phase' \in {"upload", "ready"}
       \/ phase = "upload" /\ toSend = {} /\ job = None
             /\ phase' = IF gone = 0 THEN "place" ELSE "failed"
       \/ phase = "place" /\ toPlace = {} /\ phase' = "commit"
    /\ UNCHANGED <<targetVars, sel, toAsk, toSend, job, gone, toPlace, awaited, tries>>
    /\ UNCHANGED <<promise, bounds>>

\* The awaited call was answered and its slot is free again.
Receive(c, pc) ==
    /\ awaited = c
    /\ call[c].pc = pc
    /\ call' = [call EXCEPT ![c] = Blank]
    /\ awaited' = None
    /\ UNCHANGED <<blob, file, data, index, held, saved, sel, bounds>>

AnswerMissing(c) ==
    /\ phase = "negotiate"
    /\ Receive(c, "ok")
    /\ toAsk' = toAsk \ NextQuery
    /\ toSend' = toSend \cup call[c].lacks
    /\ tries' = 0
    /\ UNCHANGED <<phase, job, gone, toPlace, promise>>

AnswerBlob(c) ==
    /\ phase = "upload"
    /\ Receive(c, "ok")
    /\ job' = None
    /\ tries' = 0
    /\ UNCHANGED <<phase, toAsk, toSend, gone, toPlace, promise>>

AnswerPlacements(c) ==
    /\ phase = "place"
    /\ Receive(c, "ok")
    /\ toPlace' = toPlace \ NextBatch
    /\ tries' = 0
    /\ UNCHANGED <<phase, toAsk, toSend, job, gone, promise>>

AnswerCommit(c) ==
    /\ phase = "commit"
    /\ Receive(c, "ok")
    /\ phase' = "done"
    /\ promise' = [p \in Path |-> IF sel[p] # None THEN sel[p] ELSE promise[p]]
    /\ tries' = 0
    /\ UNCHANGED <<toAsk, toSend, job, gone, toPlace>>

\* A call has failed for good.  A failed upload ends the worker that made it,
\* and the others go on; any other ends the run.
GiveUp ==
    /\ IF phase = "upload"
       THEN /\ job' = None
            /\ gone' = gone + 1
            /\ UNCHANGED phase
       ELSE /\ phase' = "failed"
            /\ UNCHANGED <<job, gone>>
    /\ tries' = 0
    /\ UNCHANGED <<sel, toAsk, toSend, toPlace, promise>>

AnswerRejectedDropped(c) == \* mutant: the error of a batch is not looked at
    /\ Running
    /\ Receive(c, "rejected")
    /\ IF phase = "place"
       THEN /\ phase' = "commit"
            /\ UNCHANGED <<sel, toAsk, toSend, job, gone, toPlace, tries, promise>>
       ELSE GiveUp

\* A 4xx: repeating it would produce the same answer.
AnswerRejected(c) ==
    /\ Running
    /\ Receive(c, "rejected")
    /\ GiveUp

RetryOnceMore ==         \* mutant: one try too many
    \/ /\ Remembers
       /\ tries < Attempts
       /\ tries' = tries + 1
       /\ UNCHANGED <<phase, sel, toAsk, toSend, job, gone, toPlace, promise>>
    \/ /\ ~Remembers \/ tries >= Attempts
       /\ GiveUp

RetryUncounted ==        \* mutant: tries are not counted
    UNCHANGED <<tries, phase, sel, toAsk, toSend, job, gone, toPlace, promise>>

\* One try more, unless that was the last or the target is a directory.
Retry ==
    \/ /\ Remembers
       /\ tries + 1 < Attempts
       /\ tries' = tries + 1
       /\ UNCHANGED <<phase, sel, toAsk, toSend, job, gone, toPlace, promise>>
    \/ /\ ~Remembers \/ tries + 1 >= Attempts
       /\ GiveUp

\* A 500, the answer of a Commit that failed.
AnswerBroken(c) ==
    /\ Running
    /\ Receive(c, "broken")
    /\ Retry

\* The call never reached the receiver.
LoseRequest ==
    /\ Remembers
    /\ \/ phase = "negotiate" /\ toAsk # {}
       \/ phase = "upload" /\ job # None
       \/ phase = "place" /\ toPlace # {}
       \/ phase = "commit"
    /\ awaited = None
    /\ Retry
    /\ UNCHANGED <<targetVars, awaited, bounds>>

\* No answer came back, or the proxy in between answered in its place.
LoseAnswer(c) ==
    /\ Remembers
    /\ Running
    /\ awaited = c
    /\ LateCalls \/ Finished(c)
    /\ awaited' = None
    /\ Retry
    /\ UNCHANGED <<targetVars, bounds>>

\* The handler of a call nobody waits for returns.
Forget(c) ==
    /\ Finished(c)
    /\ awaited # c
    /\ call' = [call EXCEPT ![c] = Blank]
    /\ UNCHANGED <<blob, file, data, index, held, saved, senderVars, bounds>>

\* Stop in the panel, while uploading to a directory: the feeder drops what is
\* left of its list, and unless a worker met an error placing goes on without it.
StopUpload ==
    /\ ~Remembers
    /\ phase = "upload"
    /\ toSend # {}
    /\ toSend' = {}
    /\ UNCHANGED <<targetVars, phase, sel, toAsk, job, gone, toPlace, awaited, tries>>
    /\ UNCHANGED <<promise, bounds>>

\* The sender dies.  A directory target dies with it; a receiver goes on.
Quit ==
    /\ Running
    /\ phase' = "failed"
    /\ awaited' = None
    /\ IF Remembers THEN UNCHANGED targetVars ELSE Restart
    /\ UNCHANGED <<sel, toAsk, toSend, job, gone, toPlace, tries, promise, bounds>>

-----------------------------------------------------------------------------
(* The receiver and its surroundings.                                      *)

Work(c) == Handle(c) /\ UNCHANGED <<senderVars, bounds>>

\* The receiver is stopped and started again; a waiting sender sees its
\* connection drop, which it retries.
RestartReceiver ==
    /\ Remembers
    /\ phase \in RestartPhases
    /\ restarts < MaxRestarts
    /\ restarts' = restarts + 1
    /\ Restart
    /\ IF awaited = None
       THEN UNCHANGED senderVars
       ELSE awaited' = None /\ Retry
    /\ UNCHANGED <<runs, edits>>

\* Somebody changes path p of the destination between runs, by deleting it, by
\* saving a new file under its name, or by writing into the file that is there.
Edit(p) ==
    /\ ~Running
    /\ LateCalls \/ Idle
    /\ edits < MaxEdits
    /\ edits' = edits + 1
    /\ \/ /\ file' = [file EXCEPT ![p] = None]
          /\ UNCHANGED data
       \/ \E i \in Inode :
             /\ Fresh(i)
             /\ data' = [data EXCEPT ![i] = Foreign]
             /\ file' = [file EXCEPT ![p] = i]
       \/ /\ InPlaceEdits
          /\ file[p] # None
          /\ data' = [data EXCEPT ![file[p]] = Foreign]
          /\ UNCHANGED file
    /\ promise' = [promise EXCEPT ![p] = None]
    /\ UNCHANGED <<blob, index, held, saved, call, runs, restarts>>
    /\ UNCHANGED <<phase, sel, toAsk, toSend, job, gone, toPlace, awaited, tries>>

\* Between runs the system may stay as it is for ever.
Rest == ~Running /\ Idle /\ UNCHANGED vars

-----------------------------------------------------------------------------

Init ==
    /\ TargetInit
    /\ phase = "ready"
    /\ sel = NoFiles
    /\ toAsk = {}
    /\ toSend = {}
    /\ job = None
    /\ gone = 0
    /\ toPlace = {}
    /\ awaited = None
    /\ tries = 0
    /\ promise = NoFiles
    /\ runs = 0
    /\ edits = 0
    /\ restarts = 0

Next ==
    \/ \E t \in Trees : Start(t)
    \/ SendMissing
    \/ \E d \in Digest : HandOver(d)
    \/ SendBlob
    \/ SendPlacements
    \/ SendCommit
    \/ Advance
    \/ \E c \in Call :
          \/ AnswerMissing(c) \/ AnswerBlob(c) \/ AnswerPlacements(c) \/ AnswerCommit(c)
          \/ AnswerRejected(c) \/ AnswerBroken(c) \/ LoseAnswer(c) \/ Forget(c)
          \/ Work(c)
    \/ LoseRequest
    \/ StopUpload
    \/ Quit
    \/ RestartReceiver
    \/ \E p \in Path : Edit(p)
    \/ Rest

Spec == Init /\ [][Next]_vars

\* What the sender does of its own accord, and what the answers make it do.
Proceed ==
    \/ SendMissing \/ SendBlob \/ SendPlacements \/ SendCommit
    \/ \E d \in Digest : HandOver(d)
    \/ Advance
    \/ \E c \in Call :
          \/ AnswerMissing(c) \/ AnswerBlob(c) \/ AnswerPlacements(c) \/ AnswerCommit(c)
          \/ AnswerRejected(c) \/ AnswerBroken(c)

\* A run that can go on does, a handler finishes what it was asked to do, and
\* its slot is free again.  Nothing makes a message get lost, a process stop or
\* anybody start a run.
FairSpec ==
    /\ Spec
    /\ WF_vars(Proceed)
    /\ \A c \in Call : WF_vars(Work(c)) /\ WF_vars(Forget(c))

-----------------------------------------------------------------------------
(* Safety.                                                                 *)

Holds(p) == IF file[p] = None THEN None ELSE data[file[p]]

\* What a run reported in place stays in place: no later call, failure or
\* restart, of this run or another, takes it away or puts other bytes there
\* until a run sends that path again or somebody changes that very path.
Kept == \A p \in Path : promise[p] # None => Holds(p) = promise[p]

\* Every blob holds the bytes its name says, whatever was interrupted.
BlobsTrue == \A d \in Digest : blob[d] # None => data[blob[d]] = d

\* A digest the receiver would call held it can also serve: the bytes Place
\* would take for it, now, are the ones it names (placedAt, filetarget.go:78).
AnswersTrue == \A d \in Digest : Has(d) => data[Serving(d)] = d

\* The weaker form of Kept that survives calls handled late, while the source
\* does not change and nobody changes the destination: a path that was reported
\* in place may go missing, but never holds other bytes.
RightOrAbsent ==
    \A p \in Path : promise[p] # None => Holds(p) \in {promise[p], None}

\* A receiver that answers for the same directory skips what it placed: once
\* every path of a digest is in place and untouched, it is not asked again,
\* also after a restart (NewReceiver, filetarget.go:31).
Remembered ==
    \A t \in Trees : \A d \in Digests(t) :
        (\A p \in Path : (\E u \in Trees : u[p] = d) => promise[p] = d) => Has(d)

\* A run that is done left no blob behind.
NoLeftovers == phase = "done" => \A d \in Digest : blob[d] = None

\* Every worker met an error while digests are left: uploadAll waits for one to
\* take the next, until somebody cancels the run or stops the process.
Stuck == phase = "upload" /\ gone = Workers /\ toSend # {}

\* Every run comes to an end, done or failed, unless it gets stuck so: the retries
\* of a call are limited, no answer leaves the sender waiting for another, and
\* short of the last worker a failed upload does not keep the run from its end.
Ends == Running ~> (~Running \/ Stuck)

-----------------------------------------------------------------------------
(* Refinement: what a run does to the destination is what Delivery allows. *)

Promised ==
    INSTANCE Delivery WITH
        Goals <- Trees,
        tree  <- [p \in Path |-> Holds(p)],
        goal  <- sel,
        state <- CASE phase \in {"negotiate", "upload"} -> "asking"
                   [] phase \in {"place", "commit"}      -> "placing"
                   [] OTHER                              -> phase

Delivers == Promised!Spec
=============================================================================
