--------------------------- MODULE UploadPoolProof --------------------------
(***************************************************************************)
(* The safety of uploadAll for every number of workers, digests, attempts  *)
(* and failures.  The inductive invariant follows each digest from the     *)
(* feeder to where it ends, and the error of each one given up to the      *)
(* channel uploadAll reads when all its workers are gone.                  *)
(***************************************************************************)
EXTENDS UploadPool, FiniteSetTheorems, TLAPS

Busy == {"put", "pause", "count"}

\* What a worker has in hand, and where: at most one digest, handed out by the
\* feeder, its own, and stored only once the worker is about to count it.
InHand ==
    \A w \in Worker :
        /\ pc[w] \in Busy <=> job[w] # None
        /\ job[w] # None => job[w] < next /\ job[w] \notin failed
        /\ pc[w] \in {"put", "pause"} => job[w] \notin stored
        /\ pc[w] = "count" => job[w] \in stored
        /\ \A v \in Worker : v # w /\ job[v] # None => job[v] # job[w]

Ledger ==
    /\ \A j \in Job : j < next =>
          j \in stored \cup failed \cup dropped \/ \E w \in Worker : job[w] = j
    /\ \A j \in stored \cup failed \cup dropped : j < next
    /\ stored \cap failed = {}
    /\ failed # {} => errs > 0
    /\ dropped # {} => cancelled

Ending ==
    /\ feeder # "feeding" => next = NJobs + 1
    /\ feeder = "returned" <=> result # "none"
    /\ feeder = "returned" => \A w \in Worker : pc[w] = "gone"
    /\ result = "nil" => errs = 0
    /\ result = "error" => errs > 0

IInv == TypeOK /\ InHand /\ Ledger /\ Ending

-----------------------------------------------------------------------------

LEMMA WorkerCount ==
    /\ Cardinality(Worker) \in Nat
    /\ \A w \in Worker : Cardinality(Worker) > 0
BY UploadPoolAssumption, FS_CardinalityType, FS_EmptySet

LEMMA InitIInv == Init => IInv
<1> SUFFICES ASSUME Init PROVE IInv
  OBVIOUS
<1> USE UploadPoolAssumption, WorkerCount DEF Init, Job
<1>1. TypeOK
  <2>1. next \in 1 .. NJobs + 1 /\ errs \in 0 .. Cardinality(Worker)
    OBVIOUS
  <2>2. tries \in [Worker -> 0 .. Attempts]
    OBVIOUS
  <2> QED BY <2>1, <2>2 DEF TypeOK
<1>2. InHand
  <2>1. \A w \in Worker : pc[w] = "receive" /\ job[w] = None
    OBVIOUS
  <2> QED BY <2>1 DEF InHand, Busy
<1>3. Ledger
  <2>1. \A j \in Job : ~(j < next)
    OBVIOUS
  <2>2. stored \cup failed \cup dropped = {}
    OBVIOUS
  <2> QED BY <2>1, <2>2 DEF Ledger
<1>4. Ending  BY DEF Ending
<1> QED BY <1>1, <1>2, <1>3, <1>4 DEF IInv

\* Giving up a digest: it moves from the worker's hand to the failed ones, and
\* the channel holds an error from then on.
LEMMA GiveUpIInv ==
    ASSUME IInv, NEW w \in Worker, pc[w] \in {"put", "pause"}, GiveUp(w),
           tries' \in [Worker -> 0 .. Attempts]
    PROVE  IInv'
<1> USE UploadPoolAssumption, WorkerCount DEF Job, GiveUp, poolVars, showVars
<1>1. job[w] \in Job
  BY DEF IInv, TypeOK, InHand, Busy
<1>2. errs' > 0 /\ errs' \in 0 .. Cardinality(Worker)
  BY DEF IInv, TypeOK
<1>3. TypeOK'
  BY <1>1, <1>2 DEF IInv, TypeOK
<1>4. InHand'
  BY <1>1 DEF IInv, TypeOK, InHand, Busy
<1>5. Ledger'
  <2>1. ASSUME NEW j \in Job, j < next',
               j \notin stored' \cup failed' \cup dropped'
        PROVE  \E v \in Worker : job'[v] = j
    <3>1. PICK v \in Worker : job[v] = j
      BY <2>1 DEF IInv, Ledger
    <3>2. v # w
      BY <2>1, <3>1
    <3> QED BY <3>1, <3>2 DEF IInv, TypeOK
  <2>2. \A j \in stored' \cup failed' \cup dropped' : j < next'
    BY <1>1 DEF IInv, InHand, Ledger
  <2>3. stored' \cap failed' = {}
    BY <1>1 DEF IInv, InHand, Ledger
  <2> QED BY <2>1, <2>2, <2>3, <1>2 DEF IInv, Ledger
<1>6. Ending'
  BY <1>2 DEF IInv, TypeOK, Ending
<1> QED BY <1>3, <1>4, <1>5, <1>6 DEF IInv

LEMMA NextIInv == IInv /\ [Next]_vars => IInv'
<1> SUFFICES ASSUME IInv, [Next]_vars PROVE IInv'
  OBVIOUS
<1> USE UploadPoolAssumption, WorkerCount DEF Job
<1>1. ASSUME NEW w \in Worker, Feed(w) PROVE IInv'
  <2>1. TypeOK' BY <1>1 DEF Feed, IInv, TypeOK, showVars
  <2>2. InHand' BY <1>1 DEF Feed, IInv, TypeOK, InHand, Ledger, Busy
  <2>3. Ledger' BY <1>1 DEF Feed, IInv, TypeOK, InHand, Ledger, Busy
  <2>4. Ending' BY <1>1 DEF Feed, IInv, TypeOK, Ending
  <2> QED BY <2>1, <2>2, <2>3, <2>4 DEF IInv
<1>2. CASE Drop
  <2>1. TypeOK' BY <1>2 DEF Drop, IInv, TypeOK, showVars
  <2>2. InHand' BY <1>2 DEF Drop, IInv, TypeOK, InHand, Busy
  <2>3. Ledger' BY <1>2 DEF Drop, IInv, TypeOK, Ledger
  <2>4. Ending' BY <1>2 DEF Drop, IInv, TypeOK, Ending
  <2> QED BY <2>1, <2>2, <2>3, <2>4 DEF IInv
<1>3. CASE Close
  BY <1>3 DEF Close, IInv, TypeOK, InHand, Ledger, Ending, Busy, showVars
<1>4. CASE Return
  BY <1>4 DEF Return, IInv, TypeOK, InHand, Ledger, Ending, Busy, showVars
<1>5. ASSUME NEW w \in Worker, Step(w) PROVE IInv'
  <2> USE DEF poolVars, showVars
  <2>1. CASE PutOk(w)
    <3>1. job[w] \in Job /\ job[w] \notin failed /\ job[w] < next
      BY <2>1 DEF PutOk, IInv, TypeOK, InHand, Busy
    <3>2. TypeOK' BY <2>1, <3>1 DEF PutOk, IInv, TypeOK
    <3>3. InHand' BY <2>1, <3>1 DEF PutOk, IInv, TypeOK, InHand, Busy
    <3>4. Ledger'
      <4>1. stored' \cap failed' = {}
        BY <2>1, <3>1 DEF PutOk, IInv, Ledger
      <4>2. \A j \in stored' \cup failed' \cup dropped' : j < next'
        BY <2>1, <3>1 DEF PutOk, IInv, Ledger
      <4> QED BY <2>1, <4>1, <4>2 DEF PutOk, IInv, Ledger
    <3>5. Ending' BY <2>1 DEF PutOk, IInv, TypeOK, Ending
    <3> QED BY <3>2, <3>3, <3>4, <3>5 DEF IInv
  <2>2. CASE PutRejected(w)
    BY <2>2, GiveUpIInv DEF PutRejected, IInv, TypeOK
  <2>3. CASE PutTransient(w)
    BY <2>3 DEF PutTransient, IInv, TypeOK, InHand, Ledger, Ending, Busy
  <2>4. CASE LastTransient(w)
    <3>1. tries' \in [Worker -> 0 .. Attempts]
      BY <2>4 DEF LastTransient, IInv, TypeOK
    <3> QED BY <2>4, <3>1, GiveUpIInv DEF LastTransient
  <2>5. CASE Resume(w)
    BY <2>5 DEF Resume, IInv, TypeOK, InHand, Ledger, Ending, Busy
  <2>6. CASE StopWaiting(w)
    BY <2>6, GiveUpIInv DEF StopWaiting, IInv, TypeOK
  <2>7. CASE Count(w)
    <3>1. TypeOK' BY <2>7 DEF Count, IInv, TypeOK
    <3>2. InHand' BY <2>7 DEF Count, IInv, TypeOK, InHand, Busy
    <3>3. Ledger'
      <4>1. job[w] \in stored
        BY <2>7 DEF Count, IInv, InHand, Ledger, Busy, TypeOK
      <4>2. ASSUME NEW j \in Job, j < next', j \notin stored' \cup failed' \cup dropped'
            PROVE  \E v \in Worker : job'[v] = j
        <5>1. PICK v \in Worker : job[v] = j
          BY <2>7, <4>2 DEF Count, IInv, Ledger
        <5>2. v # w
          BY <2>7, <4>1, <4>2, <5>1 DEF Count
        <5> QED BY <2>7, <5>1, <5>2 DEF Count, IInv, TypeOK
      <4> QED BY <2>7, <4>2 DEF Count, IInv, Ledger
    <3>4. Ending' BY <2>7 DEF Count, IInv, TypeOK, Ending
    <3> QED BY <3>1, <3>2, <3>3, <3>4 DEF IInv
  <2>8. CASE EmitKept(w)
    BY <2>8 DEF EmitKept, IInv, TypeOK, InHand, Ledger, Ending, Busy
  <2>9. CASE EmitSkipped(w)
    BY <2>9 DEF EmitSkipped, IInv, TypeOK, InHand, Ledger, Ending, Busy
  <2>10. CASE Write(w)
    BY <2>10 DEF Write, IInv, TypeOK, InHand, Ledger, Ending, Busy
  <2>11. CASE Leave(w)
    BY <2>11 DEF Leave, IInv, TypeOK, InHand, Ledger, Ending, Busy
  <2> QED BY <1>5, <2>1, <2>2, <2>3, <2>4, <2>5, <2>6, <2>7, <2>8, <2>9, <2>10, <2>11
          DEF Step
<1>6. CASE Cancel
  BY <1>6 DEF Cancel, IInv, TypeOK, InHand, Ledger, Ending, Busy, showVars
<1>7. CASE UNCHANGED vars
  BY <1>7 DEF vars, IInv, TypeOK, InHand, Ledger, Ending, Busy
<1>8. CASE Returned
  BY <1>8, <1>7 DEF Returned
<1> QED BY <1>1, <1>2, <1>3, <1>4, <1>5, <1>6, <1>7, <1>8 DEF Next, Feeding

LEMMA IInvSafe == IInv => NilMeansAll /\ Accounted /\ ErrorReported
<1> SUFFICES ASSUME IInv PROVE NilMeansAll /\ Accounted /\ ErrorReported
  OBVIOUS
<1> USE UploadPoolAssumption DEF Job
<1>1. NilMeansAll
  <2>1. SUFFICES ASSUME result = "nil", ~cancelled, NEW j \in Job PROVE j \in stored
    BY DEF NilMeansAll, IInv, TypeOK
  <2>2. j < next
    BY <2>1 DEF IInv, Ending
  <2>3. \A w \in Worker : job[w] = None
    BY <2>1 DEF IInv, Ending, InHand, Busy
  <2>4. failed = {} /\ dropped = {}
    BY <2>1 DEF IInv, Ending, Ledger
  <2> QED BY <2>2, <2>3, <2>4 DEF IInv, Ledger
<1>2. Accounted
  <2>1. \A j \in 1 .. next - 1 :
           j \in stored \cup failed \cup dropped \/ \E w \in Worker : job[w] = j
    <3>1. next \in 1 .. NJobs + 1
      BY DEF IInv, TypeOK
    <3>2. \A j \in 1 .. next - 1 : j \in Job /\ j < next
      BY <3>1
    <3> QED BY <3>2 DEF IInv, Ledger
  <2>2. \A v, w \in Worker : v # w /\ job[v] # None => job[v] # job[w]
    BY DEF IInv, InHand
  <2> QED BY <2>1, <2>2 DEF Accounted, IInv, Ledger
<1>3. ErrorReported
  BY DEF ErrorReported, IInv, TypeOK, Ledger, Ending
<1> QED BY <1>1, <1>2, <1>3

LEMMA Inductive == Spec => []IInv
BY InitIInv, NextIInv, PTL DEF Spec

\* Whatever the interleaving of feeder, workers, failures and cancellation, the
\* state of uploadAll has its type.
THEOREM PoolTypeOK == Spec => []TypeOK
BY Inductive, PTL DEF IInv

\* uploadAll returns nil only when every missing digest is stored at the target,
\* or its context was cancelled (apply.go:163-177).
THEOREM PoolNilMeansAll == Spec => []NilMeansAll
<1>1. IInv => NilMeansAll
  BY IInvSafe
<1> QED BY <1>1, Inductive, PTL

\* Every digest the feeder is through with is stored, given up, dropped or in the
\* hands of one worker, and none in the hands of two (apply.go:136-168).
THEOREM PoolAccounted == Spec => []Accounted
<1>1. IInv => Accounted
  BY IInvSafe
<1> QED BY <1>1, Inductive, PTL

\* An error of any worker reaches the caller (apply.go:140-145, 172-177).
THEOREM PoolErrorReported == Spec => []ErrorReported
<1>1. IInv => ErrorReported
  BY IInvSafe
<1> QED BY <1>1, Inductive, PTL
-----------------------------------------------------------------------------
(* Counting and showing.                                                   *)

\* The digests that are stored and in nobody's hand any more: those the counter
\* is to count.
Counted == {j \in stored : \A w \in Worker : job[w] # j}

\* The count that completes the phase has been shown, or a worker is on its way to
\* show it and can no longer be told to leave it out.
Completing ==
    uploaded = NJobs /\ NJobs > 0 =>
        \/ shown.final
        \/ \E w \in Worker : pc[w] \in {"emit", "write"} /\ note[w] = NJobs

LEMMA CountedFinite ==
    ASSUME TypeOK
    PROVE  /\ IsFiniteSet(Counted)
           /\ stored = Job /\ (\A w \in Worker : job[w] = None) =>
                 Cardinality(Counted) = NJobs
<1> USE UploadPoolAssumption
<1>1. IsFiniteSet(Job) /\ Cardinality(Job) = NJobs
  BY FS_Interval DEF Job
<1>2. Counted \in SUBSET Job
  BY DEF Counted, TypeOK
<1>3. IsFiniteSet(Counted)
  BY <1>1, <1>2, FS_Subset
<1>4. ASSUME stored = Job, \A w \in Worker : job[w] = None
      PROVE  Counted = Job
  BY <1>4 DEF Counted
<1> QED BY <1>1, <1>3, <1>4

\* A digest leaves a hand and enters the count in one step, Count; what is handed
\* out or given up is not stored, and what was just stored is still in hand.
LEMMA NextCounted ==
    ASSUME IInv, [Next]_vars
    PROVE  \/ Counted' = Counted /\ uploaded' = uploaded
           \/ \E w \in Worker : /\ Count(w)
                                /\ job[w] \notin Counted
                                /\ Counted' = Counted \cup {job[w]}
<1> USE UploadPoolAssumption DEF Job, IInv, TypeOK, poolVars, showVars
<1>1. CASE UNCHANGED <<stored, job, uploaded>>
  BY <1>1 DEF Counted
<1>2. ASSUME NEW w \in Worker, Feed(w) PROVE Counted' = Counted /\ uploaded' = uploaded
  <2>1. next \notin stored /\ job[w] = None
    BY <1>2 DEF Feed, Ledger, InHand, Busy
  <2>2. ASSUME NEW j \in stored
        PROVE  (\A v \in Worker : job'[v] # j) <=> (\A v \in Worker : job[v] # j)
    BY <1>2, <2>1, <2>2 DEF Feed
  <2> QED BY <1>2, <2>2 DEF Feed, Counted
<1>3. ASSUME NEW w \in Worker, pc[w] \in {"put", "pause"}, GiveUp(w)
      PROVE  Counted' = Counted /\ uploaded' = uploaded
  <2>1. job[w] \notin stored
    BY <1>3 DEF InHand
  <2>2. ASSUME NEW j \in stored
        PROVE  (\A v \in Worker : job'[v] # j) <=> (\A v \in Worker : job[v] # j)
    BY <1>3, <2>1, <2>2 DEF GiveUp
  <2> QED BY <1>3, <2>2 DEF GiveUp, Counted
<1>4. ASSUME NEW w \in Worker, PutOk(w) PROVE Counted' = Counted /\ uploaded' = uploaded
  BY <1>4 DEF PutOk, Counted
<1>5. ASSUME NEW w \in Worker, Count(w)
      PROVE  job[w] \notin Counted /\ Counted' = Counted \cup {job[w]}
  <2>1. job[w] \in stored /\ job[w] # None
    BY <1>5 DEF Count, InHand, Busy
  <2>2. \A v \in Worker \ {w} : job[v] # job[w]
    BY <2>1 DEF InHand
  <2>3. ASSUME NEW j \in stored
        PROVE  (\A v \in Worker : job'[v] # j) <=> j = job[w] \/ \A v \in Worker : job[v] # j
    BY <1>5, <2>1, <2>2, <2>3 DEF Count
  <2>4. stored' = stored /\ w \in Worker
    BY <1>5 DEF Count
  <2>5. job[w] \notin Counted
    BY DEF Counted
  <2>6. \A j \in stored : j \in Counted' <=> j \in Counted \cup {job[w]}
    BY <2>3, <2>4 DEF Counted
  <2>7. Counted' \subseteq stored /\ Counted \cup {job[w]} \subseteq stored
    BY <2>1, <2>4 DEF Counted
  <2> QED BY <2>5, <2>6, <2>7
<1> QED
  BY <1>1, <1>2, <1>3, <1>4, <1>5
     DEF Next, Feeding, Step, Drop, Close, Return, Leave, PutRejected, PutTransient,
         LastTransient, Resume, StopWaiting, EmitKept, EmitSkipped, Write, Cancel,
         Returned, vars

LEMMA NextCountedOnce == IInv /\ CountedOnce /\ [Next]_vars => CountedOnce'
<1> SUFFICES ASSUME IInv, CountedOnce, [Next]_vars PROVE CountedOnce'
  OBVIOUS
<1>1. CASE Counted' = Counted /\ uploaded' = uploaded
  BY <1>1 DEF CountedOnce, Counted
<1>2. ASSUME NEW w \in Worker, Count(w), job[w] \notin Counted,
             Counted' = Counted \cup {job[w]}
      PROVE  CountedOnce'
  <2>1. uploaded' = uploaded + 1
    BY <1>2 DEF Count
  <2>2. Cardinality(Counted \cup {job[w]}) = Cardinality(Counted) + 1
    BY <1>2, CountedFinite, FS_AddElement DEF IInv
  <2> QED BY <1>2, <2>1, <2>2 DEF CountedOnce, Counted
<1> QED BY <1>1, <1>2, NextCounted

LEMMA NextCompleting == IInv /\ Completing /\ [Next]_vars => Completing'
<1> SUFFICES ASSUME IInv, Completing, [Next]_vars PROVE Completing'
  OBVIOUS
<1> USE UploadPoolAssumption DEF IInv, TypeOK, poolVars, showVars
<1>1. CASE UNCHANGED <<uploaded, note, shown, pc>>
  BY <1>1 DEF Completing
<1>2. ASSUME NEW w \in Worker, Count(w) PROVE Completing'
  BY <1>2 DEF Count, Completing
<1>3. ASSUME NEW w \in Worker, Write(w) PROVE Completing'
  <2>1. CASE note[w] = NJobs
    BY <1>3, <2>1 DEF Write, Completing
  <2>2. CASE note[w] # NJobs
    BY <1>3, <2>2 DEF Write, Completing
  <2> QED BY <2>1, <2>2
<1>4. ASSUME NEW w \in Worker, EmitKept(w) \/ EmitSkipped(w) PROVE Completing'
  BY <1>4 DEF EmitKept, EmitSkipped, Completing
<1>5. ASSUME NEW w \in Worker, pc[w] \notin {"emit", "write"}, UNCHANGED <<uploaded, note, shown>>,
             NEW to, pc' = [pc EXCEPT ![w] = to]
      PROVE  Completing'
  BY <1>5 DEF Completing
<1> QED
  BY <1>1, <1>2, <1>3, <1>4, <1>5
     DEF Next, Feeding, Step, Feed, Drop, Close, Return, Leave, PutOk, PutRejected,
         PutTransient, LastTransient, Resume, StopWaiting, GiveUp, Cancel, Returned, vars

LEMMA CountInductive == Spec => [](CountedOnce /\ Completing)
<1>1. Init => CountedOnce /\ Completing
  <2> SUFFICES ASSUME Init PROVE CountedOnce /\ Completing
    OBVIOUS
  <2>1. {j \in stored : \A w \in Worker : job[w] # j} = {} /\ uploaded = 0
    BY DEF Init
  <2>2. CountedOnce
    BY <2>1, FS_EmptySet DEF CountedOnce
  <2>3. Completing
    BY UploadPoolAssumption DEF Init, Completing
  <2> QED BY <2>2, <2>3
<1>2. IInv /\ CountedOnce /\ Completing /\ [Next]_vars => (CountedOnce /\ Completing)'
  BY NextCountedOnce, NextCompleting
<1> QED BY <1>1, <1>2, Inductive, PTL DEF Spec

\* The counter the panel and the progress line show is the number of digests that
\* are stored at the target and out of their worker's hands, however the workers
\* interleave (apply.go:147-152, 163-168).
THEOREM PoolCountedOnce == Spec => []CountedOnce
BY CountInductive, PTL

\* When uploadAll returns with every digest stored, the event that says so was
\* written and not left out as one too many (progress.go:75-97, apply.go:147-152).
THEOREM PoolCompletionShown == Spec => []CompletionShown
<1>1. IInv /\ CountedOnce /\ Completing => CompletionShown
  <2> SUFFICES ASSUME IInv, CountedOnce, Completing, result # "none", stored = Job, NJobs > 0
               PROVE  shown.final
    BY DEF CompletionShown
  <2>1. \A w \in Worker : pc[w] = "gone" /\ job[w] = None
    BY DEF IInv, Ending, InHand, Busy
  <2>2. uploaded = NJobs
    BY <2>1, CountedFinite DEF IInv, CountedOnce, Counted
  <2> QED BY <2>1, <2>2 DEF Completing
<1> QED BY <1>1, CountInductive, Inductive, PTL
=============================================================================
