----------------------------- MODULE UploadPool -----------------------------
(***************************************************************************)
(* transfer.uploadAll: a feeder hands the missing digests, in order, over  *)
(* an unbuffered channel to a fixed number of workers.  A worker uploads   *)
(* with retries (transfer.upload), counts what it sent under a mutex and   *)
(* emits a progress event through progress.Throttle; at its first failure  *)
(* it reports the error and returns.                                       *)
(*                                                                         *)
(* The clock Throttle reads is left out: whether an intermediate event     *)
(* comes too soon after the one before it may go either way.               *)
(***************************************************************************)
EXTENDS Integers, FiniteSets

CONSTANTS
    Worker,      \* opts.Workers goroutines
    NJobs,       \* the missing digests are 1 .. NJobs
    Attempts,    \* api.Attempts
    CanCancel,   \* the context may be cancelled (the panel, not the command)
    MaxFailures, \* bound: uploads that fail for good
    None

Job == 1 .. NJobs

ASSUME UploadPoolAssumption ==
    /\ NJobs \in Nat
    /\ Attempts \in Nat \ {0}
    /\ CanCancel \in BOOLEAN
    /\ MaxFailures \in Nat
    /\ IsFiniteSet(Worker)
    /\ None \notin Job

VARIABLES
    next,      \* the digest the feeder offers next
    feeder,    \* uploadAll itself: feeding, waiting for the workers, returned
    pc,        \* where each worker is
    job,       \* the digest each worker has in hand
    tries,     \* failed attempts at it
    note,      \* the count a worker read under the mutex, for its event
    uploaded,  \* prog.Uploaded
    stored,    \* digests the target acknowledged
    failed,    \* digests given up with an error
    dropped,   \* digests the feeder skipped because the context was done
    errs,      \* errors in the buffered channel
    cancelled, \* ctx is done
    result,    \* what uploadAll returned
    begun,     \* Throttle has let an event of this phase through
    shown      \* the events the consumer was shown, the last one and all

vars == <<next, feeder, pc, job, tries, note, uploaded, stored, failed, dropped,
          errs, cancelled, result, begun, shown>>

poolVars == <<next, feeder, dropped, result, cancelled>>
showVars == <<note, uploaded, begun, shown>>

TypeOK ==
    /\ next \in 1 .. NJobs + 1
    /\ feeder \in {"feeding", "waiting", "returned"}
    /\ pc \in [Worker -> {"receive", "put", "pause", "count", "emit", "write", "gone"}]
    /\ job \in [Worker -> Job \cup {None}]
    /\ tries \in [Worker -> 0 .. Attempts]
    /\ note \in [Worker -> Nat]
    /\ uploaded \in Nat
    /\ stored \subseteq Job
    /\ failed \subseteq Job
    /\ dropped \subseteq Job
    /\ errs \in 0 .. Cardinality(Worker)
    /\ cancelled \in BOOLEAN
    /\ result \in {"none", "nil", "error"}
    /\ begun \in BOOLEAN
    /\ shown \in [last : Nat, final : BOOLEAN]

-----------------------------------------------------------------------------
(* The feeder.                                                             *)

Feed(w) ==
    /\ feeder = "feeding"
    /\ next \in Job
    /\ pc[w] = "receive"
    /\ job' = [job EXCEPT ![w] = next]
    /\ tries' = [tries EXCEPT ![w] = 0]
    /\ pc' = [pc EXCEPT ![w] = "put"]
    /\ next' = next + 1
    /\ UNCHANGED <<feeder, dropped, result, cancelled, stored, failed, errs, showVars>>

DropToWorker ==          \* mutant: the select has no case for the context
    /\ feeder = "feeding"
    /\ next \in Job
    /\ cancelled
    /\ \E w \in Worker : pc[w] = "receive"
    /\ dropped' = dropped \cup {next}
    /\ next' = next + 1
    /\ UNCHANGED <<feeder, pc, job, tries, stored, failed, errs, cancelled, result, showVars>>

\* Both cases of the select may be ready; without a worker only this one is.
Drop ==
    /\ feeder = "feeding"
    /\ next \in Job
    /\ cancelled
    /\ dropped' = dropped \cup {next}
    /\ next' = next + 1
    /\ UNCHANGED <<feeder, pc, job, tries, stored, failed, errs, cancelled, result, showVars>>

Close ==
    /\ feeder = "feeding"
    /\ next \notin Job
    /\ feeder' = "waiting"
    /\ UNCHANGED <<next, pc, job, tries, stored, failed, dropped, errs, cancelled,
                   result, showVars>>

ReturnUnwaited ==        \* mutant: the workers are not waited for
    /\ feeder = "waiting"
    /\ feeder' = "returned"
    /\ result' = IF errs > 0 THEN "error" ELSE "nil"
    /\ UNCHANGED <<next, pc, job, tries, stored, failed, dropped, errs, cancelled, showVars>>

\* wg.Wait, then the first error of the channel if there is one.
Return ==
    /\ feeder = "waiting"
    /\ \A w \in Worker : pc[w] = "gone"
    /\ feeder' = "returned"
    /\ result' = IF errs > 0 THEN "error" ELSE "nil"
    /\ UNCHANGED <<next, pc, job, tries, stored, failed, dropped, errs, cancelled, showVars>>

-----------------------------------------------------------------------------
(* A worker.                                                               *)

\* The channel is closed and empty: the range loop ends.
Leave(w) ==
    /\ pc[w] = "receive"
    /\ feeder = "waiting"
    /\ pc' = [pc EXCEPT ![w] = "gone"]
    /\ UNCHANGED <<poolVars, job, tries, stored, failed, errs, showVars>>

PutOk(w) ==
    /\ pc[w] = "put"
    /\ stored' = stored \cup {job[w]}
    /\ pc' = [pc EXCEPT ![w] = "count"]
    /\ UNCHANGED <<poolVars, job, tries, failed, errs, showVars>>

GiveUpSilently(w) ==     \* mutant: the error is sent only while somebody reads
    /\ Cardinality(failed) < MaxFailures
    /\ failed' = failed \cup {job[w]}
    /\ job' = [job EXCEPT ![w] = None]
    /\ pc' = [pc EXCEPT ![w] = "gone"]
    /\ UNCHANGED <<poolVars, stored, errs, showVars>>

\* The upload is given up; the error is sent unless the channel is full.
GiveUp(w) ==
    /\ Cardinality(failed) < MaxFailures
    /\ failed' = failed \cup {job[w]}
    /\ errs' = IF errs < Cardinality(Worker) THEN errs + 1 ELSE errs
    /\ job' = [job EXCEPT ![w] = None]
    /\ pc' = [pc EXCEPT ![w] = "gone"]
    /\ UNCHANGED <<poolVars, stored, showVars>>

\* The far side rejected the blob, or the source file cannot be opened.
PutRejected(w) ==
    /\ pc[w] = "put"
    /\ GiveUp(w)
    /\ UNCHANGED tries

PutTransientAgain(w) ==  \* mutant: attempts have no limit
    /\ pc[w] = "put"
    /\ tries' = [tries EXCEPT ![w] = @ + 1]
    /\ pc' = [pc EXCEPT ![w] = "pause"]
    /\ UNCHANGED <<poolVars, job, stored, failed, errs, showVars>>

PutTransientUncounted(w) == \* mutant: attempts are not counted
    /\ pc[w] = "put"
    /\ pc' = [pc EXCEPT ![w] = "pause"]
    /\ UNCHANGED <<poolVars, job, tries, stored, failed, errs, showVars>>

PutTransient(w) ==
    /\ pc[w] = "put"
    /\ tries[w] + 1 < Attempts
    /\ tries' = [tries EXCEPT ![w] = @ + 1]
    /\ pc' = [pc EXCEPT ![w] = "pause"]
    /\ UNCHANGED <<poolVars, job, stored, failed, errs, showVars>>

LastTransient(w) ==
    /\ pc[w] = "put"
    /\ tries[w] + 1 = Attempts
    /\ GiveUp(w)
    /\ tries' = [tries EXCEPT ![w] = @ + 1]

\* api.Wait: the back-off passes, or the context ends it with an error.
Resume(w) ==
    /\ pc[w] = "pause"
    /\ pc' = [pc EXCEPT ![w] = "put"]
    /\ UNCHANGED <<poolVars, job, tries, stored, failed, errs, showVars>>

StopWaitingUnnoticed(w) == \* mutant: a pause cut short is no error
    /\ pc[w] = "pause"
    /\ cancelled
    /\ job' = [job EXCEPT ![w] = None]
    /\ pc' = [pc EXCEPT ![w] = "receive"]
    /\ UNCHANGED <<poolVars, tries, stored, failed, errs, showVars>>

StopWaiting(w) ==
    /\ pc[w] = "pause"
    /\ cancelled
    /\ GiveUp(w)
    /\ UNCHANGED tries

CountUnlocked(w) ==      \* mutant: a count read before another's was written
    /\ pc[w] = "count"
    /\ uploaded' = note[w] + 1
    /\ note' = [note EXCEPT ![w] = note[w] + 1]
    /\ job' = [job EXCEPT ![w] = None]
    /\ pc' = [pc EXCEPT ![w] = "emit"]
    /\ UNCHANGED <<poolVars, tries, stored, failed, errs, begun, shown>>

Count(w) ==
    /\ pc[w] = "count"
    /\ uploaded' = uploaded + 1
    /\ note' = [note EXCEPT ![w] = uploaded + 1]
    /\ job' = [job EXCEPT ![w] = None]
    /\ pc' = [pc EXCEPT ![w] = "emit"]
    /\ UNCHANGED <<poolVars, tries, stored, failed, errs, begun, shown>>

\* Throttle decides under its lock, and writes after it has let go of it.
EmitKept(w) ==
    /\ pc[w] = "emit"
    /\ begun' = TRUE
    /\ pc' = [pc EXCEPT ![w] = "write"]
    /\ UNCHANGED <<poolVars, job, tries, note, uploaded, stored, failed, errs, shown>>

EmitSkippedAny(w) ==     \* mutant: the last event may come too soon as well
    /\ pc[w] = "emit"
    /\ begun
    /\ pc' = [pc EXCEPT ![w] = "receive"]
    /\ UNCHANGED <<poolVars, job, tries, stored, failed, errs, showVars>>

EmitSkipped(w) ==
    /\ pc[w] = "emit"
    /\ note[w] < NJobs
    /\ begun
    /\ pc' = [pc EXCEPT ![w] = "receive"]
    /\ UNCHANGED <<poolVars, job, tries, stored, failed, errs, showVars>>

Write(w) ==
    /\ pc[w] = "write"
    /\ shown' = [last |-> note[w], final |-> shown.final \/ note[w] = NJobs]
    /\ pc' = [pc EXCEPT ![w] = "receive"]
    /\ UNCHANGED <<poolVars, job, tries, note, uploaded, stored, failed, errs, begun>>

Cancel ==
    /\ CanCancel
    /\ ~cancelled
    /\ result = "none"
    /\ cancelled' = TRUE
    /\ UNCHANGED <<next, feeder, pc, job, tries, stored, failed, dropped, errs, result,
                   showVars>>

Returned == feeder = "returned" /\ UNCHANGED vars

-----------------------------------------------------------------------------

Init ==
    /\ next = 1
    /\ feeder = "feeding"
    /\ pc = [w \in Worker |-> "receive"]
    /\ job = [w \in Worker |-> None]
    /\ tries = [w \in Worker |-> 0]
    /\ note = [w \in Worker |-> 0]
    /\ uploaded = 0
    /\ stored = {}
    /\ failed = {}
    /\ dropped = {}
    /\ errs = 0
    /\ cancelled = FALSE
    /\ result = "none"
    /\ begun = FALSE
    /\ shown = [last |-> 0, final |-> FALSE]

Step(w) ==
    \/ PutOk(w) \/ PutRejected(w) \/ PutTransient(w) \/ LastTransient(w)
    \/ Resume(w) \/ StopWaiting(w)
    \/ Count(w) \/ EmitKept(w) \/ EmitSkipped(w) \/ Write(w) \/ Leave(w)

Feeding == (\E w \in Worker : Feed(w)) \/ Drop \/ Close \/ Return

Next ==
    \/ Feeding
    \/ \E w \in Worker : Step(w)
    \/ Cancel
    \/ Returned

Spec == Init /\ [][Next]_vars

\* Go schedules every goroutine that can run; an upload comes to some end, and
\* so does a pause.  Nothing makes anybody cancel.
FairSpec == Spec /\ WF_vars(Feeding) /\ \A w \in Worker : WF_vars(Step(w))

-----------------------------------------------------------------------------
(* Properties.                                                             *)

\* uploadAll returns nil only when the target has every digest that was missing,
\* or the caller gave up waiting for it.
NilMeansAll == result = "nil" => stored = Job \/ cancelled

\* No digest is handed out twice or forgotten: what the feeder is through with
\* is stored, given up, dropped, or in the hands of exactly one worker.
Accounted ==
    /\ \A j \in 1 .. next - 1 :
          j \in stored \cup failed \cup dropped \/ \E w \in Worker : job[w] = j
    /\ \A v, w \in Worker : v # w /\ job[v] # None => job[v] # job[w]
    /\ stored \cap failed = {}

\* An error a worker met is not lost on its way to the caller.
ErrorReported == result # "none" /\ failed # {} => result = "error"

\* The counter the panel shows is the number of digests stored and counted.
CountedOnce == uploaded = Cardinality({j \in stored : \A w \in Worker : job[w] # j})

\* A consumer learns that the phase completed (progress.go:91).
CompletionShown == result # "none" /\ stored = Job /\ NJobs > 0 => shown.final

\* uploadAll returns.
Ends == <>(result # "none")

\* uploadAll returns unless every worker has met an error.
EndsWithWorker == <>(result # "none" \/ Cardinality(failed) = Cardinality(Worker))

\* A cancelled upload returns, whatever failed before or fails after.
CancelEnds == cancelled ~> result # "none"
=============================================================================
