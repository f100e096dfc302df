-------------------------- MODULE SharedName_proofs --------------------------
(***************************************************************************)
(* Theorems about two processes with one name.  What one of them does is a *)
(* step of WorkerApp over its own Job objects, so the lemmas of            *)
(* WorkerApp_proofs hold of it; of the other, only the tables change.      *)
(***************************************************************************)
EXTENDS SharedName, TLAPS

H == INSTANCE WorkerApp_proofs WITH proc <- hereProc, snapshots <- hereClaims
T == INSTANCE WorkerApp_proofs WITH proc <- thereProc, snapshots <- thereClaims

------------------------------------------------------------------------------
(* Either host is a WorkerApp. *)

\* The assumptions of the instances are those of SharedName.
LEMMA Assumptions ==
  /\ H!BackoffAssumption /\ H!StoreAssumption /\ H!NullAssumption /\ H!AppAssumption
  /\ T!BackoffAssumption /\ T!StoreAssumption /\ T!NullAssumption /\ T!AppAssumption
<1>1. H!BackoffAssumption /\ T!BackoffAssumption
  BY SharedAssumption DEF Here!BackoffAssumption, H!BackoffAssumption, T!BackoffAssumption
<1>2. H!StoreAssumption /\ T!StoreAssumption
  BY SharedAssumption DEF Here!StoreAssumption, H!StoreAssumption, T!StoreAssumption
<1>3. H!NullAssumption /\ T!NullAssumption
  BY SharedAssumption
  DEF Here!NullAssumption, H!NullAssumption, T!NullAssumption, Here!JobRow, H!JobRow,
      T!JobRow, Here!JobStatus, H!JobStatus, T!JobStatus
<1>4. H!AppAssumption /\ T!AppAssumption
  BY SharedAssumption
  DEF Here!AppAssumption, H!AppAssumption, T!AppAssumption, Here!IsFiniteSet,
      H!IsFiniteSet, T!IsFiniteSet
<1>5. QED
  BY <1>1, <1>2, <1>3, <1>4

\* What the process here does is a step of H.
LEMMA HereIsApp ==
  ASSUME NEW w \in Worker
  PROVE  /\ Here!MainStep(w) => H!MainStep(w)
         /\ Here!ReapFallsDue(w) => H!ReapFallsDue(w)
         /\ Here!Signal(w) => H!Signal(w)
         /\ Here!Crash(w) => H!Crash(w)
         /\ \A j \in Job : Here!TaskStep(w, j) => H!TaskStep(w, j)
<1>1. Here!MainStep(w) => H!MainStep(w)
  BY DEF
      Here!At, H!At, Here!Attempt, H!Attempt, Here!AttemptRecorded, H!AttemptRecorded,
      Here!CancelHeartbeats, H!CancelHeartbeats, Here!CappedDelay, H!CappedDelay,
      Here!Cardinality, H!Cardinality, Here!Claim, H!Claim, Here!ClaimJobs, H!ClaimJobs,
      Here!Claimable, H!Claimable, Here!Claimed, H!Claimed, Here!Count, H!Count,
      Here!CountInFlight, H!CountInFlight, Here!Exists, H!Exists, Here!Expired, H!Expired,
      Here!FailedOnce, H!FailedOnce, Here!Goto, H!Goto, Here!HasStatus, H!HasStatus,
      Here!HoldsLock, H!HoldsLock, Here!Idle, H!Idle, Here!InFlight, H!InFlight,
      Here!LoopTest, H!LoopTest, Here!MainStep, H!MainStep, Here!MarkOffline,
      H!MarkOffline, Here!MyClaim, H!MyClaim, Here!NoTasks, H!NoTasks, Here!Reap, H!Reap,
      Here!ReapBatches, H!ReapBatches, Here!ReapExpiredJobs, H!ReapExpiredJobs,
      Here!ReapFails, H!ReapFails, Here!Register, H!Register, Here!Release, H!Release,
      Here!ReleaseInFlightJobs, H!ReleaseInFlightJobs, Here!Released, H!Released,
      Here!Remaining, H!Remaining, Here!RetryDelays, H!RetryDelays, Here!SkipReap,
      H!SkipReap, Here!Spawn, H!Spawn, Here!Start, H!Start, Here!Stuck, H!Stuck,
      Here!TasksAfter, H!TasksAfter, Here!Unlocked, H!Unlocked, Here!Wake, H!Wake,
      Here!WillRetry, H!WillRetry, Here!vars, H!vars
<1>2. /\ Here!ReapFallsDue(w) => H!ReapFallsDue(w)
      /\ Here!Signal(w) => H!Signal(w)
      /\ Here!Crash(w) => H!Crash(w)
  BY DEF
      Here!At, H!At, Here!Crash, H!Crash, Here!Idle, H!Idle, Here!MyClaim, H!MyClaim,
      Here!NoTasks, H!NoTasks, Here!ReapFallsDue, H!ReapFallsDue, Here!Signal, H!Signal,
      Here!vars, H!vars
<1>3. ASSUME NEW j \in Job PROVE Here!TaskStep(w, j) => H!TaskStep(w, j)
  BY DEF
      Here!Beat, H!Beat, Here!BeatFindsNothing, H!BeatFindsNothing, Here!Exists, H!Exists,
      Here!ExtendLease, H!ExtendLease, Here!HasStatus, H!HasStatus, Here!HoldsLock,
      H!HoldsLock, Here!TaskReturns, H!TaskReturns, Here!TaskStep, H!TaskStep, Here!TxNow,
      H!TxNow, Here!appVars, H!appVars, Here!vars, H!vars
<1>4. QED
  BY <1>1, <1>2, <1>3

\* What the process there does is a step of T.
LEMMA ThereIsApp ==
  ASSUME NEW w \in Worker
  PROVE  /\ There!MainStep(w) => T!MainStep(w)
         /\ There!ReapFallsDue(w) => T!ReapFallsDue(w)
         /\ There!Signal(w) => T!Signal(w)
         /\ There!Crash(w) => T!Crash(w)
         /\ \A j \in Job : There!TaskStep(w, j) => T!TaskStep(w, j)
<1>1. There!MainStep(w) => T!MainStep(w)
  BY DEF
      There!At, T!At, There!Attempt, T!Attempt, There!AttemptRecorded, T!AttemptRecorded,
      There!CancelHeartbeats, T!CancelHeartbeats, There!CappedDelay, T!CappedDelay,
      There!Cardinality, T!Cardinality, There!Claim, T!Claim, There!ClaimJobs,
      T!ClaimJobs, There!Claimable, T!Claimable, There!Claimed, T!Claimed, There!Count,
      T!Count, There!CountInFlight, T!CountInFlight, There!Exists, T!Exists,
      There!Expired, T!Expired, There!FailedOnce, T!FailedOnce, There!Goto, T!Goto,
      There!HasStatus, T!HasStatus, There!HoldsLock, T!HoldsLock, There!Idle, T!Idle,
      There!InFlight, T!InFlight, There!LoopTest, T!LoopTest, There!MainStep, T!MainStep,
      There!MarkOffline, T!MarkOffline, There!MyClaim, T!MyClaim, There!NoTasks,
      T!NoTasks, There!Reap, T!Reap, There!ReapBatches, T!ReapBatches,
      There!ReapExpiredJobs, T!ReapExpiredJobs, There!ReapFails, T!ReapFails,
      There!Register, T!Register, There!Release, T!Release, There!ReleaseInFlightJobs,
      T!ReleaseInFlightJobs, There!Released, T!Released, There!Remaining, T!Remaining,
      There!RetryDelays, T!RetryDelays, There!SkipReap, T!SkipReap, There!Spawn, T!Spawn,
      There!Start, T!Start, There!Stuck, T!Stuck, There!TasksAfter, T!TasksAfter,
      There!Unlocked, T!Unlocked, There!Wake, T!Wake, There!WillRetry, T!WillRetry,
      There!vars, T!vars
<1>2. /\ There!ReapFallsDue(w) => T!ReapFallsDue(w)
      /\ There!Signal(w) => T!Signal(w)
      /\ There!Crash(w) => T!Crash(w)
  BY DEF
      There!At, T!At, There!Crash, T!Crash, There!Idle, T!Idle, There!MyClaim, T!MyClaim,
      There!NoTasks, T!NoTasks, There!ReapFallsDue, T!ReapFallsDue, There!Signal,
      T!Signal, There!vars, T!vars
<1>3. ASSUME NEW j \in Job PROVE There!TaskStep(w, j) => T!TaskStep(w, j)
  BY DEF
      There!Beat, T!Beat, There!BeatFindsNothing, T!BeatFindsNothing, There!Exists,
      T!Exists, There!ExtendLease, T!ExtendLease, There!HasStatus, T!HasStatus,
      There!HoldsLock, T!HoldsLock, There!TaskReturns, T!TaskReturns, There!TaskStep,
      T!TaskStep, There!TxNow, T!TxNow, There!appVars, T!appVars, There!vars, T!vars
<1>4. QED
  BY <1>1, <1>2, <1>3

\* The API and the clock are those of either instance.
LEMMA CommonIsApp ==
  /\ Here!ApiNext => H!ApiNext
  /\ Here!ApiNext /\ UNCHANGED there => T!ApiNext
  /\ Here!ClockTicks => H!ClockTicks
  /\ There!ClockTicks => T!ClockTicks
<1>1. Here!ApiNext => H!ApiNext
  BY DEF
      Here!ApiNext, H!ApiNext, Here!CancelJob, H!CancelJob, Here!Cancellable,
      H!Cancellable, Here!Cancelled, H!Cancelled, Here!CreateJob, H!CreateJob,
      Here!DeleteDeadLetterJob, H!DeleteDeadLetterJob, Here!Exists, H!Exists,
      Here!HasStatus, H!HasStatus, Here!KeyTaken, H!KeyTaken, Here!NewJob, H!NewJob,
      Here!Requeued, H!Requeued, Here!RetryDeadLetterJob, H!RetryDeadLetterJob,
      Here!RetryJob, H!RetryJob, Here!Retryable, H!Retryable, Here!TxNow, H!TxNow,
      Here!Unlocked, H!Unlocked, Here!WithoutAttemptsOf, H!WithoutAttemptsOf
<1>2. Here!ApiNext /\ UNCHANGED there => T!ApiNext
  <2> SUFFICES ASSUME Here!ApiNext, thereClaims' = thereClaims PROVE T!ApiNext
    BY DEF there
  <2>1. ASSUME NEW j \in Job, NEW q \in Queue, NEW k \in Key \cup {NULL},
               NEW retries \in MaxRetries, NEW run_at \in RunAt \cup {NULL}, NEW t \in Nat,
               Here!CreateJob(j, q, k, retries, run_at, t)
        PROVE  T!CreateJob(j, q, k, retries, run_at, t)
    BY <2>1 DEF
      Here!CreateJob, T!CreateJob, Here!Exists, T!Exists, Here!KeyTaken, T!KeyTaken,
      Here!NewJob, T!NewJob
  <2>2. ASSUME NEW j \in Job, Here!CancelJob(j) PROVE T!CancelJob(j)
    BY <2>2 DEF
      Here!CancelJob, T!CancelJob, Here!Cancellable, T!Cancellable, Here!Cancelled,
      T!Cancelled, Here!Exists, T!Exists, Here!HasStatus, T!HasStatus
  <2>3. ASSUME NEW j \in Job, NEW t \in Nat
        PROVE  /\ Here!RetryJob(j, t) => T!RetryJob(j, t)
               /\ Here!RetryDeadLetterJob(j, t) => T!RetryDeadLetterJob(j, t)
    BY DEF
      Here!Exists, T!Exists, Here!HasStatus, T!HasStatus, Here!Requeued, T!Requeued,
      Here!RetryDeadLetterJob, T!RetryDeadLetterJob, Here!RetryJob, T!RetryJob,
      Here!Retryable, T!Retryable, Here!Unlocked, T!Unlocked
  <2>4. ASSUME NEW j \in Job, Here!DeleteDeadLetterJob(j) PROVE T!DeleteDeadLetterJob(j)
    BY <2>4 DEF
      Here!DeleteDeadLetterJob, T!DeleteDeadLetterJob, Here!Exists, T!Exists,
      Here!HasStatus, T!HasStatus, Here!WithoutAttemptsOf, T!WithoutAttemptsOf
  <2>5. Here!TxNow = T!TxNow /\ T!TxNow \subseteq Nat
    BY DEF Here!TxNow, T!TxNow
  <2>6. PICK j \in Job :
          \/ \E q \in Queue, k \in Key \cup {NULL}, retries \in MaxRetries,
                run_at \in RunAt \cup {NULL}, t \in T!TxNow :
               Here!CreateJob(j, q, k, retries, run_at, t)
          \/ Here!CancelJob(j)
          \/ \E t \in T!TxNow : Here!RetryJob(j, t) \/ Here!RetryDeadLetterJob(j, t)
          \/ Here!DeleteDeadLetterJob(j)
    BY <2>5 DEF Here!ApiNext
  <2>7. \/ \E q \in Queue, k \in Key \cup {NULL}, retries \in MaxRetries,
             run_at \in RunAt \cup {NULL}, t \in T!TxNow :
            T!CreateJob(j, q, k, retries, run_at, t)
        \/ T!CancelJob(j)
        \/ \E t \in T!TxNow : T!RetryJob(j, t) \/ T!RetryDeadLetterJob(j, t)
        \/ T!DeleteDeadLetterJob(j)
    BY <2>1, <2>2, <2>3, <2>4, <2>5, <2>6
  <2>8. QED
    BY <2>7 DEF T!ApiNext
<1>3. Here!ClockTicks => H!ClockTicks
  BY DEF
      Here!At, H!At, Here!ClockTicks, H!ClockTicks, Here!Tick, H!Tick, Here!appVars,
      H!appVars
<1>4. There!ClockTicks => T!ClockTicks
  BY DEF
      There!At, T!At, There!ClockTicks, T!ClockTicks, There!Tick, T!Tick, There!appVars,
      T!appVars
<1>5. QED
  BY <1>1, <1>2, <1>3, <1>4

HereStep == [H!AppNext]_(H!allVars) /\ UNCHANGED <<there, now>>

ThereStep == [T!AppNext]_(T!allVars) /\ UNCHANGED <<here, now>>

CommonStep ==
  /\ [H!AppNext]_(H!allVars) /\ [T!AppNext]_(T!allVars)
  /\ UNCHANGED <<hereProc, hereClaims, thereProc, thereClaims>>

\* A step is taken here or there, or it is one of the API or of the clock.
LEMMA WhoseStep ==
  ASSUME [SharedNext]_<<tables, here, there>>
  PROVE  HereStep \/ ThereStep \/ CommonStep
<1>1. ASSUME NEW w \in Worker,
             \/ HereMain(w) \/ HereReapDue(w)
             \/ (Here!Signal(w) \/ Here!Crash(w)) /\ UNCHANGED there
             \/ \E j \in Job : HereTask(w, j)
      PROVE  HereStep
  <2>1. /\ \/ H!MainStep(w) \/ H!ReapFallsDue(w) \/ H!Signal(w) \/ H!Crash(w)
           \/ \E j \in Job : H!TaskStep(w, j)
        /\ UNCHANGED there
    BY <1>1, HereIsApp DEF HereMain, HereReapDue, HereTask
  <2>2. H!AppNext
    BY <2>1 DEF H!AppNext
  <2>3. UNCHANGED now
    BY <2>1, Assumptions, H!WorkersTakeNoTime
  <2>4. QED
    BY <2>1, <2>2, <2>3 DEF HereStep
<1>2. ASSUME NEW w \in Worker,
             \/ ThereMain(w) \/ ThereReapDue(w)
             \/ (There!Signal(w) \/ There!Crash(w)) /\ UNCHANGED here
             \/ \E j \in Job : ThereTask(w, j)
      PROVE  ThereStep
  <2>1. /\ \/ T!MainStep(w) \/ T!ReapFallsDue(w) \/ T!Signal(w) \/ T!Crash(w)
           \/ \E j \in Job : T!TaskStep(w, j)
        /\ UNCHANGED here
    BY <1>2, ThereIsApp DEF ThereMain, ThereReapDue, ThereTask
  <2>2. T!AppNext
    BY <2>1 DEF T!AppNext
  <2>3. UNCHANGED now
    BY <2>1, Assumptions, T!WorkersTakeNoTime
  <2>4. QED
    BY <2>1, <2>2, <2>3 DEF ThereStep
<1>3. CASE now <= LastRequest /\ Here!ApiNext /\ UNCHANGED <<hereProc, there, workers, stops>>
  <2>1. H!ApiNext /\ T!ApiNext
    BY <1>3, CommonIsApp
  <2>2. H!AppNext /\ T!AppNext
    BY <1>3, <2>1 DEF H!AppNext, T!AppNext, H!appVars, T!appVars, there
  <2>3. UNCHANGED <<hereProc, hereClaims, thereProc, thereClaims>>
    BY <1>3 DEF there, Here!ApiNext, Here!CreateJob, Here!CancelJob, Here!RetryJob,
                Here!RetryDeadLetterJob, Here!DeleteDeadLetterJob
  <2>4. QED
    BY <2>2, <2>3 DEF CommonStep
<1>4. CASE Here!ClockTicks /\ There!ClockTicks
  <2>1. H!AppNext /\ T!AppNext
    BY <1>4, CommonIsApp DEF H!AppNext, T!AppNext
  <2>2. UNCHANGED <<hereProc, hereClaims, thereProc, thereClaims>>
    BY <1>4 DEF Here!ClockTicks, There!ClockTicks, Here!Tick, There!Tick, Here!appVars,
                There!appVars
  <2>3. QED
    BY <2>1, <2>2 DEF CommonStep
<1>5. CASE UNCHANGED <<tables, here, there>>
  BY <1>5 DEF tables, here, there, HereStep, H!allVars, H!vars, H!appVars
<1>6. QED
  BY <1>1, <1>2, <1>3, <1>4, <1>5 DEF SharedNext

------------------------------------------------------------------------------
(* The invariant of the tables, for the Job objects of both. *)

ClaimsOK(claims) == \A s \in claims : s \in H!Snapshot /\ s.job \in issued /\ H!Fenced(s)

\* What IInv says of the Job objects.
LEMMA OwnClaims ==
  /\ H!IInv => ClaimsOK(hereClaims)
  /\ T!IInv => ClaimsOK(thereClaims)
<1>1. H!IInv => ClaimsOK(hereClaims)
  BY DEF H!IInv, H!TypeOK, H!StaleSnapshotsAreFenced, H!IdsAreIssued, ClaimsOK, H!Fenced
<1>2. T!IInv => ClaimsOK(thereClaims)
  BY DEF T!IInv, T!TypeOK, T!StaleSnapshotsAreFenced, T!IdsAreIssued, ClaimsOK, H!Fenced,
         H!Snapshot, T!Snapshot, H!Exists, T!Exists, H!AttemptRecorded, T!AttemptRecorded,
         H!HoldsLock, T!HoldsLock, H!HasStatus, T!HasStatus
<1>3. QED
  BY <1>1, <1>2

\* The rest of IInv is about the tables and the same for both.
LEMMA OtherClaims ==
  /\ H!IInv /\ ClaimsOK(thereClaims) => T!IInv
  /\ T!IInv /\ ClaimsOK(hereClaims) => H!IInv
<1> USE DEF H!Exists, T!Exists
<1>1. H!LockIffRunning <=> T!LockIffRunning
  BY DEF H!LockIffRunning, T!LockIffRunning
<1>2. H!MarksMatchStatus <=> T!MarksMatchStatus
  BY DEF H!MarksMatchStatus, T!MarksMatchStatus
<1>3. H!AttemptBudget <=> T!AttemptBudget
  BY DEF H!AttemptBudget, T!AttemptBudget, H!Budget, T!Budget, H!RunBudget, T!RunBudget
<1>4. H!AttemptHistory <=> T!AttemptHistory
  BY DEF H!AttemptHistory, T!AttemptHistory, H!AttemptRecorded, T!AttemptRecorded,
         H!Attempt, T!Attempt
<1>5. H!Snapshot = T!Snapshot /\ H!JobRow = T!JobRow /\ H!JobAttempt = T!JobAttempt
  BY DEF H!Snapshot, T!Snapshot, H!JobRow, T!JobRow, H!JobStatus, T!JobStatus,
         H!JobAttempt, T!JobAttempt
<1>6. /\ H!TypeOK /\ ClaimsOK(thereClaims) => T!TypeOK
      /\ T!TypeOK /\ ClaimsOK(hereClaims) => H!TypeOK
  BY <1>5 DEF H!TypeOK, T!TypeOK, ClaimsOK
<1>7. /\ H!IdsAreIssued /\ ClaimsOK(thereClaims) => T!IdsAreIssued
      /\ T!IdsAreIssued /\ ClaimsOK(hereClaims) => H!IdsAreIssued
  BY DEF H!IdsAreIssued, T!IdsAreIssued, ClaimsOK
<1>8. /\ ClaimsOK(thereClaims) => T!StaleSnapshotsAreFenced
      /\ ClaimsOK(hereClaims) => H!StaleSnapshotsAreFenced
  BY DEF H!StaleSnapshotsAreFenced, T!StaleSnapshotsAreFenced, ClaimsOK, H!Fenced,
         H!AttemptRecorded, T!AttemptRecorded, H!HoldsLock, T!HoldsLock, H!HasStatus,
         T!HasStatus
<1>9. QED
  BY <1>1, <1>2, <1>3, <1>4, <1>6, <1>7, <1>8 DEF H!IInv, T!IInv

\* The same after a step.
LEMMA OtherClaimsPrime ==
  /\ H!IInv' /\ ClaimsOK(thereClaims)' => T!IInv'
  /\ T!IInv' /\ ClaimsOK(hereClaims)' => H!IInv'
BY OtherClaims, PTL

\* Two processes that hold the same claim hold one whose number is on record.
Twice ==
  \A s \in hereClaims \cap thereClaims :
    H!Stuck(s.job) /\ jobs[s.job].attempts = s.attempts

SharedInv ==
  /\ H!IInv /\ H!ProcInv
  /\ T!IInv /\ T!ProcInv
  /\ Twice

\* Both instances see the same rows, and call the same ones stuck and fenced.
LEMMA SameRows ==
  /\ H!Snapshot = T!Snapshot
  /\ \A j, n : /\ H!Stuck(j) <=> T!Stuck(j)
               /\ H!Exists(j) <=> T!Exists(j)
               /\ H!AttemptRecorded(j, n) <=> T!AttemptRecorded(j, n)
  /\ \A j, S : H!HasStatus(j, S) <=> T!HasStatus(j, S)
  /\ \A s : H!Fenced(s) <=> T!Fenced(s)
<1>1. H!Snapshot = T!Snapshot
  BY DEF H!Snapshot, T!Snapshot
<1>2. \A j, n : /\ H!Exists(j) <=> T!Exists(j)
                /\ H!AttemptRecorded(j, n) <=> T!AttemptRecorded(j, n)
  BY DEF H!Exists, T!Exists, H!AttemptRecorded, T!AttemptRecorded
<1>3. \A j, S : H!HasStatus(j, S) <=> T!HasStatus(j, S)
  BY <1>2 DEF H!HasStatus, T!HasStatus
<1>4. \A j : H!Stuck(j) <=> T!Stuck(j)
  BY <1>2, <1>3 DEF H!Stuck, T!Stuck
<1>5. \A s : H!Fenced(s) <=> T!Fenced(s)
  BY <1>2, <1>3 DEF H!Fenced, T!Fenced, H!HoldsLock, T!HoldsLock
<1>6. QED
  BY <1>1, <1>2, <1>3, <1>4, <1>5

\* After a step as before it.
LEMMA SameRowsPrime ==
  /\ \A j \in Job : T!Stuck(j)' => H!Stuck(j)'
  /\ \A s \in H!Snapshot : T!Fenced(s)' => H!Fenced(s)'
<1>1. \A j \in Job : H!Stuck(j) <=> T!Stuck(j)
  BY SameRows
<1>2. \A s \in H!Snapshot : H!Fenced(s) <=> T!Fenced(s)
  BY SameRows
<1>3. (\A j \in Job : H!Stuck(j) <=> T!Stuck(j))'
  BY <1>1, PTL
<1>4. (\A s \in H!Snapshot : H!Fenced(s) <=> T!Fenced(s))'
  BY <1>2, PTL
<1>5. QED
  BY <1>3, <1>4

\* The process here keeps the invariant.
LEMMA HereKeepsInv ==
  ASSUME SharedInv, HereStep
  PROVE  SharedInv'
<1>1. H!IInv /\ H!ProcInv /\ T!IInv /\ T!ProcInv /\ Twice /\ [H!AppNext]_(H!allVars)
  BY DEF SharedInv, HereStep
<1>2. [H!Next]_(H!vars)
  BY <1>1, Assumptions, H!StoreSteps
<1>3. H!IInv'
  BY <1>1, <1>2, Assumptions, H!NextInv
<1>4. H!ProcInv'
  BY <1>1, Assumptions, H!ProcInvStep
<1>5. UNCHANGED <<thereProc, thereClaims, now>>
  BY DEF HereStep, there
<1>6. T!ProcInv'
  BY <1>1, <1>5 DEF T!ProcInv, T!PollTimes, T!At, T!TxNow
<1>7. T!IInv'
  <2>1. ASSUME NEW s \in thereClaims
        PROVE  s \in H!Snapshot /\ s.job \in issued' /\ H!Fenced(s)'
    <3>1. s \in H!Snapshot /\ s.job \in issued /\ H!Fenced(s)
      BY <1>1, <2>1, OwnClaims DEF ClaimsOK
    <3>2. s.job \in Job
      BY <3>1 DEF H!Snapshot
    <3>3. s.job \in issued'
      BY <1>1, <1>2, <3>1, <3>2, Assumptions, H!JobIsKept
    <3>4. H!Fenced(s)'
      BY <1>1, <1>2, <1>3, <3>1, Assumptions, H!FencedStays
    <3>5. QED
      BY <3>1, <3>3, <3>4
  <2>2. ClaimsOK(thereClaims)'
    BY <1>5, <2>1 DEF ClaimsOK
  <2>3. QED
    BY <1>3, <2>2, OtherClaimsPrime
<1>8. Twice'
  <2> SUFFICES ASSUME NEW s \in hereClaims' \cap thereClaims
               PROVE  H!Stuck(s.job)' /\ jobs'[s.job].attempts = s.attempts
    BY <1>5 DEF Twice
  <2>1. s \in H!Snapshot /\ s.job \in Job /\ H!Fenced(s)
    BY <1>1, OwnClaims DEF ClaimsOK, H!Snapshot
  <2>2. CASE s \in hereClaims
    <3>1. H!Stuck(s.job) /\ jobs[s.job].attempts = s.attempts
      BY <1>1, <2>2 DEF Twice
    <3>2. QED
      BY <1>1, <1>2, <2>1, <3>1, Assumptions, H!StuckStep
  <2>3. CASE s \notin hereClaims
    <3>1. /\ H!Exists(s.job) /\ ~H!HasStatus(s.job, {"running"})
          /\ H!HasStatus(s.job, {"running"})' /\ jobs'[s.job].attempts = s.attempts
          /\ job_attempts' = job_attempts
      BY <1>1, <2>3, Assumptions, H!NewClaims
    <3>2. H!AttemptRecorded(s.job, s.attempts)
      BY <2>1, <3>1 DEF H!Fenced, H!HoldsLock
    <3>3. H!AttemptRecorded(s.job, s.attempts)'
      BY <3>1, <3>2 DEF H!AttemptRecorded
    <3>4. QED
      BY <3>1, <3>3 DEF H!Stuck, H!AttemptRecorded
  <2>4. QED
    BY <2>2, <2>3
<1>9. QED
  BY <1>3, <1>4, <1>6, <1>7, <1>8 DEF SharedInv
\* The process there keeps the invariant.
LEMMA ThereKeepsInv ==
  ASSUME SharedInv, ThereStep
  PROVE  SharedInv'
<1>1. T!IInv /\ T!ProcInv /\ H!IInv /\ H!ProcInv /\ Twice /\ [T!AppNext]_(T!allVars)
  BY DEF SharedInv, ThereStep
<1>2. [T!Next]_(T!vars)
  BY <1>1, Assumptions, T!StoreSteps
<1>3. T!IInv'
  BY <1>1, <1>2, Assumptions, T!NextInv
<1>4. T!ProcInv'
  BY <1>1, Assumptions, T!ProcInvStep
<1>5. UNCHANGED <<hereProc, hereClaims, now>>
  BY DEF ThereStep, here
<1>6. H!ProcInv'
  BY <1>1, <1>5 DEF H!ProcInv, H!PollTimes, H!At, H!TxNow
<1>7. H!IInv'
  <2>1. ASSUME NEW s \in hereClaims
        PROVE  s \in T!Snapshot /\ s.job \in issued' /\ T!Fenced(s)'
    <3>1. s \in T!Snapshot /\ s.job \in issued /\ T!Fenced(s)
      BY <1>1, <2>1, OwnClaims, SameRows DEF ClaimsOK
    <3>2. s.job \in Job
      BY <3>1 DEF T!Snapshot
    <3>3. s.job \in issued'
      BY <1>1, <1>2, <3>1, <3>2, Assumptions, T!JobIsKept
    <3>4. T!Fenced(s)'
      BY <1>1, <1>2, <1>3, <3>1, Assumptions, T!FencedStays
    <3>5. QED
      BY <3>1, <3>3, <3>4
  <2>2. ClaimsOK(hereClaims)'
    <3>1. \A s \in hereClaims :
            s \in H!Snapshot /\ s.job \in issued' /\ H!Fenced(s)'
      BY <2>1, SameRows, SameRowsPrime
    <3>2. QED
      BY <1>5, <3>1 DEF ClaimsOK
  <2>3. QED
    BY <1>3, <2>2, OtherClaimsPrime
<1>8. Twice'
  <2> SUFFICES ASSUME NEW s \in thereClaims' \cap hereClaims
               PROVE  T!Stuck(s.job)' /\ jobs'[s.job].attempts = s.attempts
    <3>1. \A s \in thereClaims' \cap hereClaims : s.job \in Job
      BY <1>1, OwnClaims DEF ClaimsOK, H!Snapshot
    <3>2. QED
      BY <1>5, <3>1, SameRowsPrime DEF Twice
  <2>1. s \in T!Snapshot /\ s.job \in Job /\ T!Fenced(s)
    BY <1>1, OwnClaims, SameRows DEF ClaimsOK, T!Snapshot
  <2>2. CASE s \in thereClaims
    <3>1. T!Stuck(s.job) /\ jobs[s.job].attempts = s.attempts
      BY <1>1, <2>2, SameRows DEF Twice
    <3>2. QED
      BY <1>1, <1>2, <2>1, <3>1, Assumptions, T!StuckStep
  <2>3. CASE s \notin thereClaims
    <3>1. /\ T!Exists(s.job) /\ ~T!HasStatus(s.job, {"running"})
          /\ T!HasStatus(s.job, {"running"})' /\ jobs'[s.job].attempts = s.attempts
          /\ job_attempts' = job_attempts
      BY <1>1, <2>3, Assumptions, T!NewClaims
    <3>2. T!AttemptRecorded(s.job, s.attempts)
      BY <2>1, <3>1 DEF T!Fenced, T!HoldsLock
    <3>3. T!AttemptRecorded(s.job, s.attempts)'
      BY <3>1, <3>2 DEF T!AttemptRecorded
    <3>4. QED
      BY <3>1, <3>3 DEF T!Stuck, T!AttemptRecorded
  <2>4. QED
    BY <2>2, <2>3
<1>9. QED
  BY <1>3, <1>4, <1>6, <1>7, <1>8 DEF SharedInv
\* Steps of the API and of the clock leave the Job objects alone.
LEMMA CommonKeepsInv ==
  ASSUME SharedInv, CommonStep
  PROVE  SharedInv'
<1>1. /\ H!IInv /\ H!ProcInv /\ T!IInv /\ T!ProcInv /\ Twice
      /\ [H!AppNext]_(H!allVars) /\ [T!AppNext]_(T!allVars)
      /\ hereClaims' = hereClaims /\ thereClaims' = thereClaims
  BY DEF SharedInv, CommonStep
<1>2. [H!Next]_(H!vars) /\ [T!Next]_(T!vars)
  BY <1>1, Assumptions, H!StoreSteps, T!StoreSteps
<1>3. H!IInv' /\ T!IInv'
  BY <1>1, <1>2, Assumptions, H!NextInv, T!NextInv
<1>4. H!ProcInv' /\ T!ProcInv'
  BY <1>1, Assumptions, H!ProcInvStep, T!ProcInvStep
<1>5. Twice'
  <2> SUFFICES ASSUME NEW s \in hereClaims \cap thereClaims
               PROVE  H!Stuck(s.job)' /\ jobs'[s.job].attempts = s.attempts
    BY <1>1 DEF Twice
  <2>1. s.job \in Job /\ H!Stuck(s.job) /\ jobs[s.job].attempts = s.attempts
    BY <1>1, OwnClaims DEF ClaimsOK, H!Snapshot, Twice
  <2>2. QED
    BY <1>1, <1>2, <2>1, Assumptions, H!StuckStep
<1>6. QED
  BY <1>3, <1>4, <1>5 DEF SharedInv

\* Every step keeps the invariant.
LEMMA SharedNextInv == SharedInv /\ [SharedNext]_<<tables, here, there>> => SharedInv'
BY WhoseStep, HereKeepsInv, ThereKeepsInv, CommonKeepsInv

\* Before either process has started.
LEMMA SharedInitInv == SharedInit => SharedInv
<1>1. ASSUME SharedInit PROVE H!AppInit /\ T!AppInit /\ hereClaims = {}
  BY <1>1 DEF SharedInit, Here!AppInit, There!AppInit, H!AppInit, T!AppInit, Here!Init,
              There!Init, H!Init, T!Init, Here!Idle, There!Idle, H!Idle, T!Idle,
              Here!NoTasks, There!NoTasks, H!NoTasks, T!NoTasks
<1>2. ASSUME H!AppInit, T!AppInit PROVE H!IInv /\ T!IInv
  BY <1>2, Assumptions, H!InitInv, T!InitInv DEF H!AppInit, T!AppInit
<1>3. ASSUME H!AppInit, T!AppInit PROVE H!ProcInv /\ T!ProcInv
  BY <1>3, Assumptions, H!AppInitInv, T!AppInitInv
<1>4. QED
  BY <1>1, <1>2, <1>3 DEF SharedInv, Twice

\* So it is an invariant.
LEMMA SharedInvariance == SharedSpec => []SharedInv
BY SharedInitInv, SharedNextInv, PTL DEF SharedSpec

\* Whichever process holds a claim: its run goes on under that number, or the
\* number is on record and no outcome can be recorded any more; and the number
\* of a claim that both hold is.
THEOREM DoubleClaimsStayFenced == SharedSpec => []DoubleClaimsAreFenced
<1>1. ASSUME SharedInv PROVE DoubleClaimsAreFenced
  <2>1. \A j, n : /\ H!Exists(j) <=> Here!Exists(j)
                  /\ H!AttemptRecorded(j, n) <=> Here!AttemptRecorded(j, n)
    BY DEF H!Exists, Here!Exists, H!AttemptRecorded, Here!AttemptRecorded
  <2>2. \A w, j : H!HoldsLock(w, j) <=> Here!HoldsLock(w, j)
    BY <2>1 DEF H!HoldsLock, Here!HoldsLock, H!HasStatus, Here!HasStatus
  <2>3. \A s \in hereClaims \cup thereClaims : H!Fenced(s)
    BY <1>1, OwnClaims DEF SharedInv, ClaimsOK
  <2>4. \A s \in hereClaims \cap thereClaims : H!AttemptRecorded(s.job, s.attempts)
    BY <1>1 DEF SharedInv, Twice, H!Stuck
  <2>5. QED
    BY <2>1, <2>2, <2>3, <2>4 DEF DoubleClaimsAreFenced, H!Fenced
<1>2. QED
  BY <1>1, SharedInvariance, PTL

------------------------------------------------------------------------------
(* The slots of both. *)

\* Either process may fill what it found free when it counted.
Room ==
  \A w \in Worker :
    /\ H!Pending(w) \in Nat /\ H!Pending(w) <= Concurrency
    /\ T!Pending(w) \in Nat /\ T!Pending(w) <= Concurrency
    /\ H!Cardinality(H!FreshLeases(w)) + H!Pending(w) + T!Pending(w) <= 2 * Concurrency

\* Either instance keeps the same history.
LEMMA SameHistory ==
  /\ (Leases!Watch \/ UNCHANGED <<jobs, now, lapsed>>) => H!Watched /\ T!Watched
  /\ H!LapsedInv => T!LapsedInv
BY DEF Leases!Watch, H!Watched, H!Watch, T!Watched, T!Watch, Leases!HasStatus, Leases!Exists,
       H!HasStatus, H!Exists, T!HasStatus, T!Exists, H!LapsedInv, T!LapsedInv

\* Both see the same fresh leases.
LEMMA SameFresh ==
  ASSUME NEW w \in Worker
  PROVE  H!Cardinality(H!FreshLeases(w)) = T!Cardinality(T!FreshLeases(w))
<1>1. H!FreshLeases(w) = T!FreshLeases(w)
  BY DEF H!FreshLeases, T!FreshLeases, H!InFlight, T!InFlight, H!HoldsLock, T!HoldsLock,
         H!HasStatus, T!HasStatus, H!Exists, T!Exists
<1>2. QED
  BY <1>1 DEF H!Cardinality, T!Cardinality

\* Also after a step.
LEMMA SameFreshPrime ==
  \A w \in Worker : H!Cardinality(H!FreshLeases(w)') = T!Cardinality(T!FreshLeases(w)')
<1>1. \A w \in Worker : H!Cardinality(H!FreshLeases(w)) = T!Cardinality(T!FreshLeases(w))
  BY SameFresh
<1>2. (\A w \in Worker : H!Cardinality(H!FreshLeases(w)) = T!Cardinality(T!FreshLeases(w)))'
  BY <1>1, PTL
<1>3. QED
  BY <1>2

\* Neither process takes more than its worker's slots leave, or than it found
\* free itself.
LEMMA RoomIsKept ==
  ASSUME SharedInv, Room, H!LapsedInv, HereStep \/ ThereStep \/ CommonStep,
         Leases!Watch \/ UNCHANGED <<jobs, now, lapsed>>
  PROVE  Room'
<1> SUFFICES ASSUME NEW w \in Worker
             PROVE  /\ H!Pending(w)' \in Nat /\ H!Pending(w)' <= Concurrency
                    /\ T!Pending(w)' \in Nat /\ T!Pending(w)' <= Concurrency
                    /\ H!Cardinality(H!FreshLeases(w)') + H!Pending(w)' + T!Pending(w)'
                         <= 2 * Concurrency
  BY DEF Room
<1> DEFINE n    == H!Cardinality(H!FreshLeases(w))
           next == H!Cardinality(H!FreshLeases(w)')
<1>1. /\ H!Pending(w) \in Nat /\ H!Pending(w) <= Concurrency
      /\ T!Pending(w) \in Nat /\ T!Pending(w) <= Concurrency
      /\ n + H!Pending(w) + T!Pending(w) <= 2 * Concurrency
  BY DEF Room
<1>2. n \in Nat /\ next \in Nat /\ Concurrency \in Nat
  BY Assumptions, H!FreshIsFinite DEF H!AppAssumption
<1>3. n = T!Cardinality(T!FreshLeases(w)) /\ next = T!Cardinality(T!FreshLeases(w)')
  BY SameFresh, SameFreshPrime
<1>4. ASSUME [H!AppNext]_(H!allVars)
      PROVE  /\ H!Pending(w)' \in Nat /\ H!Pending(w)' <= Concurrency
             /\ \/ next + H!Pending(w)' <= n + H!Pending(w)
                \/ next + H!Pending(w)' <= Concurrency
  BY <1>1, <1>4, Assumptions, SameHistory, H!PollFits DEF SharedInv
<1>5. ASSUME [T!AppNext]_(T!allVars)
      PROVE  /\ T!Pending(w)' \in Nat /\ T!Pending(w)' <= Concurrency
             /\ \/ next + T!Pending(w)' <= n + T!Pending(w)
                \/ next + T!Pending(w)' <= Concurrency
  BY <1>1, <1>3, <1>5, Assumptions, SameHistory, T!PollFits DEF SharedInv
<1>6. ASSUME UNCHANGED thereProc PROVE T!Pending(w)' = T!Pending(w)
  BY <1>6 DEF T!Pending, T!At
<1>7. ASSUME UNCHANGED hereProc PROVE H!Pending(w)' = H!Pending(w)
  BY <1>7 DEF H!Pending, H!At
<1> HIDE DEF n, next
<1>8. CASE HereStep
  <2>1. T!Pending(w)' = T!Pending(w) /\ [H!AppNext]_(H!allVars)
    BY <1>6, <1>8 DEF HereStep, there
  <2>2. QED
    BY <1>1, <1>2, <1>4, <2>1 DEF next
<1>9. CASE ThereStep
  <2>1. H!Pending(w)' = H!Pending(w) /\ [T!AppNext]_(T!allVars)
    BY <1>7, <1>9 DEF ThereStep, here
  <2>2. QED
    BY <1>1, <1>2, <1>5, <2>1 DEF next
<1>10. CASE CommonStep
  <2>1. /\ T!Pending(w)' = T!Pending(w) /\ H!Pending(w)' = H!Pending(w)
        /\ [H!AppNext]_(H!allVars)
    BY <1>6, <1>7, <1>10 DEF CommonStep
  <2>2. QED
    BY <1>1, <1>2, <1>4, <2>1 DEF next
<1>11. QED
  BY <1>8, <1>9, <1>10

\* Two processes with one name take jobs for the free slots of both only, however
\* transactions lag: what they hold beyond them are leases revived after they ran
\* out.
THEOREM SlotsOfBothAddUp == WatchedSpec => []SlotsAddUp
<1>1. ASSUME SharedInv, Room, H!LapsedInv,
             [SharedNext /\ Leases!Watch]_<<tables, here, there, lapsed>>
      PROVE  Room' /\ H!LapsedInv'
  <2>1. /\ [SharedNext]_<<tables, here, there>>
        /\ Leases!Watch \/ UNCHANGED <<jobs, now, lapsed>>
    BY <1>1 DEF tables
  <2>2. QED
    BY <1>1, <2>1, WhoseStep, RoomIsKept, SameHistory, Assumptions, H!LapsedStep
<1>2. ASSUME SharedInit PROVE Room /\ H!LapsedInv
  <2>1. \A w \in Worker : H!FreshLeases(w) = {} /\ H!Pending(w) = 0 /\ T!Pending(w) = 0
    BY <1>2
    DEF SharedInit, Here!AppInit, There!AppInit, Here!Init, Here!Idle, There!Idle,
        H!FreshLeases, H!InFlight, H!HoldsLock, H!HasStatus, H!Exists, H!Pending, T!Pending,
        H!At, T!At
  <2>2. H!Cardinality({}) = 0
    BY Assumptions, H!FS_EmptySet
  <2>3. Concurrency \in Nat
    BY Assumptions DEF H!AppAssumption
  <2>4. \A w \in Worker : H!Cardinality(H!FreshLeases(w)) = 0
    BY <2>1, <2>2
  <2>5. Concurrency >= 0 /\ 0 <= 2 * Concurrency
    BY <2>3
  <2>6. Room
    BY <2>1, <2>4, <2>5 DEF Room
  <2>7. H!LapsedInv
    BY <1>2
    DEF SharedInit, Here!AppInit, Here!Init, H!LapsedInv, H!HasStatus, H!Exists
  <2>8. QED
    BY <2>6, <2>7
<1>3. ASSUME SharedInv, Room PROVE SlotsAddUp
  <2> SUFFICES ASSUME NEW w \in Worker
               PROVE  Cardinality(Leases!FreshLeases(w)) + Here!Pending(w) + There!Pending(w)
                        <= 2 * Concurrency
    BY DEF SlotsAddUp
  <2>1. Cardinality(Leases!FreshLeases(w)) = H!Cardinality(H!FreshLeases(w))
    BY DEF Leases!FreshLeases, Leases!InFlight, Leases!HoldsLock, Leases!HasStatus,
           Leases!Exists, H!FreshLeases, H!InFlight, H!HoldsLock, H!HasStatus, H!Exists,
           Cardinality, H!Cardinality
  <2>2. Here!Pending(w) = H!Pending(w) /\ There!Pending(w) = T!Pending(w)
    BY DEF Here!Pending, H!Pending, There!Pending, T!Pending, Here!At, H!At, There!At, T!At
  <2>3. QED
    BY <1>3, <2>1, <2>2 DEF Room
<1>4. WatchedSpec => SharedSpec
  <2>1. [SharedNext /\ Leases!Watch]_<<tables, here, there, lapsed>>
          => [SharedNext]_<<tables, here, there>>
    BY DEF tables
  <2>2. QED
    BY <2>1, PTL DEF WatchedSpec, WatchedInit, SharedSpec
<1>5. QED
  BY <1>1, <1>2, <1>3, <1>4, SharedInvariance, PTL DEF WatchedSpec, WatchedInit

------------------------------------------------------------------------------
(* Both are users of one JobStore. *)

\* The tables, and the Job objects that either process holds.
B == INSTANCE JobStore_proofs WITH snapshots <- hereClaims \cup thereClaims

LEMMA BothAssumptions == B!BackoffAssumption /\ B!StoreAssumption /\ B!NullAssumption
<1>1. B!BackoffAssumption
  BY SharedAssumption DEF Here!BackoffAssumption, B!BackoffAssumption
<1>2. B!StoreAssumption
  BY SharedAssumption DEF Here!StoreAssumption, B!StoreAssumption
<1>3. B!NullAssumption
  BY SharedAssumption
  DEF Here!NullAssumption, B!NullAssumption, Here!JobRow, B!JobRow, Here!JobStatus, B!JobStatus
<1>4. QED
  BY <1>1, <1>2, <1>3

\* A request changes no Job object.
LEMMA HereApiInBoth ==
  ASSUME H!ApiNext, UNCHANGED thereClaims
  PROVE  B!ApiNext
<1>1. UNCHANGED hereClaims
  BY DEF H!ApiNext, H!CreateJob, H!CancelJob, H!RetryJob, H!RetryDeadLetterJob,
         H!DeleteDeadLetterJob
<1>2. UNCHANGED (hereClaims \cup thereClaims)
  BY <1>1
<1>3. ASSUME NEW j \in Job, NEW q \in Queue, NEW k \in Key \cup {NULL},
             NEW retries \in MaxRetries, NEW run_at \in RunAt \cup {NULL}, NEW t \in Nat,
             H!CreateJob(j, q, k, retries, run_at, t)
      PROVE  B!CreateJob(j, q, k, retries, run_at, t)
  BY <1>2, <1>3 DEF H!CreateJob, B!CreateJob, H!Exists, B!Exists, H!KeyTaken, B!KeyTaken,
                    H!NewJob, B!NewJob
<1>4. ASSUME NEW j \in Job, H!CancelJob(j) PROVE B!CancelJob(j)
  BY <1>2, <1>4 DEF H!CancelJob, B!CancelJob, H!Cancellable, B!Cancellable, H!Cancelled,
                    B!Cancelled, H!Exists, B!Exists, H!HasStatus, B!HasStatus
<1>5. ASSUME NEW j \in Job, NEW t \in Nat
      PROVE  /\ H!RetryJob(j, t) => B!RetryJob(j, t)
             /\ H!RetryDeadLetterJob(j, t) => B!RetryDeadLetterJob(j, t)
  BY <1>2 DEF H!Exists, B!Exists, H!HasStatus, B!HasStatus, H!Requeued, B!Requeued,
              H!RetryDeadLetterJob, B!RetryDeadLetterJob, H!RetryJob, B!RetryJob,
              H!Retryable, B!Retryable, H!Unlocked, B!Unlocked
<1>6. ASSUME NEW j \in Job, H!DeleteDeadLetterJob(j) PROVE B!DeleteDeadLetterJob(j)
  BY <1>2, <1>6 DEF H!DeleteDeadLetterJob, B!DeleteDeadLetterJob, H!Exists, B!Exists,
                    H!HasStatus, B!HasStatus, H!WithoutAttemptsOf, B!WithoutAttemptsOf
<1>7. H!TxNow = B!TxNow /\ B!TxNow \subseteq Nat
  BY DEF H!TxNow, B!TxNow
<1>8. PICK j \in Job :
        \/ \E q \in Queue, k \in Key \cup {NULL}, retries \in MaxRetries,
              run_at \in RunAt \cup {NULL}, t \in B!TxNow :
             H!CreateJob(j, q, k, retries, run_at, t)
        \/ H!CancelJob(j)
        \/ \E t \in B!TxNow : H!RetryJob(j, t) \/ H!RetryDeadLetterJob(j, t)
        \/ H!DeleteDeadLetterJob(j)
  BY <1>7 DEF H!ApiNext
<1>9. \/ \E q \in Queue, k \in Key \cup {NULL}, retries \in MaxRetries,
            run_at \in RunAt \cup {NULL}, t \in B!TxNow :
           B!CreateJob(j, q, k, retries, run_at, t)
      \/ B!CancelJob(j)
      \/ \E t \in B!TxNow : B!RetryJob(j, t) \/ B!RetryDeadLetterJob(j, t)
      \/ B!DeleteDeadLetterJob(j)
  BY <1>3, <1>4, <1>5, <1>6, <1>7, <1>8
<1>10. QED
  BY <1>9 DEF B!ApiNext

\* What the process here does to the tables, seen with the Job objects of both.  What
\* it drops may stay with the other.
LEMMA HereInBoth ==
  ASSUME H!TablesNext, UNCHANGED thereClaims
  PROVE  [B!Next]_(B!vars)
<1>1. H!TxNow = B!TxNow
  BY DEF H!TxNow, B!TxNow
<1>2. CASE H!ApiNext
  BY <1>2, HereApiInBoth DEF B!Next
<1>3. CASE H!Tick
  BY <1>3 DEF H!Tick, B!Tick, B!Next
<1>4. ASSUME NEW w \in Worker, NEW S \in SUBSET Job, NEW t \in H!TxNow, H!ClaimJobs(w, S, t)
      PROVE  B!Next
  <2>1. H!Claimable(w, t) = B!Claimable(w, t)
    BY DEF H!Claimable, B!Claimable, H!HasStatus, B!HasStatus, H!Exists, B!Exists
  <2>2. \A r : H!Claimed(r, w, t) = B!Claimed(r, w, t)
    BY DEF H!Claimed, B!Claimed
  <2>3. B!ClaimJobs(w, S, t)
    BY <1>4, <2>1, <2>2 DEF H!ClaimJobs, B!ClaimJobs
  <2>4. QED
    BY <1>1, <2>3 DEF B!Next, B!WorkerNext
<1>5. ASSUME NEW w \in Worker, NEW j \in Job, NEW t \in H!TxNow, H!ExtendLease(w, j, t)
      PROVE  B!Next
  <2>1. B!ExtendLease(w, j, t)
    BY <1>5 DEF H!ExtendLease, B!ExtendLease, H!HoldsLock, B!HoldsLock, H!HasStatus,
                B!HasStatus, H!Exists, B!Exists
  <2>2. QED
    BY <1>1, <2>1 DEF B!Next, B!WorkerNext
<1>6. ASSUME NEW w \in Worker, H!ReleaseInFlightJobs(w) PROVE B!Next
  <2>1. H!InFlight(w) = B!InFlight(w)
    BY DEF H!InFlight, B!InFlight, H!HoldsLock, B!HoldsLock, H!HasStatus, B!HasStatus,
           H!Exists, B!Exists
  <2>2. \A r : H!Released(r) = B!Released(r)
    BY DEF H!Released, B!Released, H!Unlocked, B!Unlocked
  <2>3. \A j, n, e : /\ H!AttemptRecorded(j, n) <=> B!AttemptRecorded(j, n)
                     /\ H!Attempt(j, n, e) = B!Attempt(j, n, e)
    BY DEF H!AttemptRecorded, B!AttemptRecorded, H!Attempt, B!Attempt
  <2>4. B!ReleaseInFlightJobs(w)
    BY <1>6, <2>1, <2>2, <2>3 DEF H!ReleaseInFlightJobs, B!ReleaseInFlightJobs
  <2>5. QED
    BY <2>4 DEF B!Next, B!WorkerNext
<1>7. ASSUME NEW w \in Worker, NEW S \in SUBSET {s \in hereClaims : s.worker = w},
             H!LoseSnapshots(S)
      PROVE  [B!Next]_(B!vars)
  <2>1. /\ hereClaims' = hereClaims \ S /\ UNCHANGED <<jobs, issued, job_attempts, now>>
        /\ hereClaims' \cup thereClaims' = (hereClaims \cup thereClaims) \ (S \ thereClaims)
    BY <1>7 DEF H!LoseSnapshots
  <2>2. CASE S \subseteq thereClaims
    BY <2>1, <2>2 DEF B!vars
  <2>3. CASE ~(S \subseteq thereClaims)
    <3>1. /\ S \ thereClaims \in SUBSET {s \in hereClaims \cup thereClaims : s.worker = w}
          /\ B!LoseSnapshots(S \ thereClaims)
      BY <2>1, <2>3 DEF B!LoseSnapshots
    <3>2. QED
      BY <3>1 DEF B!Next, B!WorkerNext
  <2>4. QED
    BY <2>2, <2>3
<1>8. ASSUME NEW t \in H!TxNow, NEW S \in SUBSET Job, NEW delay \in [S -> 0..RetryMax],
             H!ReapExpiredJobs(S, delay, t)
      PROVE  B!Next
  <2>1. H!Expired(t) = B!Expired(t) /\ H!Cardinality(S) = B!Cardinality(S)
    BY DEF H!Expired, B!Expired, H!HasStatus, B!HasStatus, H!Exists, B!Exists,
           H!Cardinality, B!Cardinality
  <2>2. \A n : H!RetryDelays(n) = B!RetryDelays(n)
    BY DEF H!RetryDelays, B!RetryDelays, H!CappedDelay, B!CappedDelay
  <2>3. \A r, n, d : H!FailedOnce(r, n, t, d) = B!FailedOnce(r, n, t, d)
    BY DEF H!FailedOnce, B!FailedOnce, H!WillRetry, B!WillRetry, H!Unlocked, B!Unlocked
  <2>4. \A j, n, e : /\ H!AttemptRecorded(j, n) <=> B!AttemptRecorded(j, n)
                     /\ H!Attempt(j, n, e) = B!Attempt(j, n, e)
    BY DEF H!AttemptRecorded, B!AttemptRecorded, H!Attempt, B!Attempt
  <2>5. B!ReapExpiredJobs(S, delay, t)
    BY <1>8, <2>1, <2>2, <2>3, <2>4 DEF H!ReapExpiredJobs, B!ReapExpiredJobs
  <2>6. QED
    BY <1>1, <2>5 DEF B!Next, B!WorkerNext
<1>9. QED
  BY <1>2, <1>3, <1>4, <1>5, <1>6, <1>7, <1>8 DEF H!TablesNext

\* The same of the requests, as the process there sees them.
LEMMA ThereApiInBoth ==
  ASSUME T!ApiNext, UNCHANGED hereClaims
  PROVE  B!ApiNext
<1>1. UNCHANGED thereClaims
  BY DEF T!ApiNext, T!CreateJob, T!CancelJob, T!RetryJob, T!RetryDeadLetterJob,
         T!DeleteDeadLetterJob
<1>2. UNCHANGED (hereClaims \cup thereClaims)
  BY <1>1
<1>3. ASSUME NEW j \in Job, NEW q \in Queue, NEW k \in Key \cup {NULL},
             NEW retries \in MaxRetries, NEW run_at \in RunAt \cup {NULL}, NEW t \in Nat,
             T!CreateJob(j, q, k, retries, run_at, t)
      PROVE  B!CreateJob(j, q, k, retries, run_at, t)
  BY <1>2, <1>3 DEF T!CreateJob, B!CreateJob, T!Exists, B!Exists, T!KeyTaken, B!KeyTaken,
                    T!NewJob, B!NewJob
<1>4. ASSUME NEW j \in Job, T!CancelJob(j) PROVE B!CancelJob(j)
  BY <1>2, <1>4 DEF T!CancelJob, B!CancelJob, T!Cancellable, B!Cancellable, T!Cancelled,
                    B!Cancelled, T!Exists, B!Exists, T!HasStatus, B!HasStatus
<1>5. ASSUME NEW j \in Job, NEW t \in Nat
      PROVE  /\ T!RetryJob(j, t) => B!RetryJob(j, t)
             /\ T!RetryDeadLetterJob(j, t) => B!RetryDeadLetterJob(j, t)
  BY <1>2 DEF T!Exists, B!Exists, T!HasStatus, B!HasStatus, T!Requeued, B!Requeued,
              T!RetryDeadLetterJob, B!RetryDeadLetterJob, T!RetryJob, B!RetryJob,
              T!Retryable, B!Retryable, T!Unlocked, B!Unlocked
<1>6. ASSUME NEW j \in Job, T!DeleteDeadLetterJob(j) PROVE B!DeleteDeadLetterJob(j)
  BY <1>2, <1>6 DEF T!DeleteDeadLetterJob, B!DeleteDeadLetterJob, T!Exists, B!Exists,
                    T!HasStatus, B!HasStatus, T!WithoutAttemptsOf, B!WithoutAttemptsOf
<1>7. T!TxNow = B!TxNow /\ B!TxNow \subseteq Nat
  BY DEF T!TxNow, B!TxNow
<1>8. PICK j \in Job :
        \/ \E q \in Queue, k \in Key \cup {NULL}, retries \in MaxRetries,
              run_at \in RunAt \cup {NULL}, t \in B!TxNow :
             T!CreateJob(j, q, k, retries, run_at, t)
        \/ T!CancelJob(j)
        \/ \E t \in B!TxNow : T!RetryJob(j, t) \/ T!RetryDeadLetterJob(j, t)
        \/ T!DeleteDeadLetterJob(j)
  BY <1>7 DEF T!ApiNext
<1>9. \/ \E q \in Queue, k \in Key \cup {NULL}, retries \in MaxRetries,
            run_at \in RunAt \cup {NULL}, t \in B!TxNow :
           B!CreateJob(j, q, k, retries, run_at, t)
      \/ B!CancelJob(j)
      \/ \E t \in B!TxNow : B!RetryJob(j, t) \/ B!RetryDeadLetterJob(j, t)
      \/ B!DeleteDeadLetterJob(j)
  BY <1>3, <1>4, <1>5, <1>6, <1>7, <1>8
<1>10. QED
  BY <1>9 DEF B!ApiNext

\* And of what that process does.
LEMMA ThereInBoth ==
  ASSUME T!TablesNext, UNCHANGED hereClaims
  PROVE  [B!Next]_(B!vars)
<1>1. T!TxNow = B!TxNow
  BY DEF T!TxNow, B!TxNow
<1>2. CASE T!ApiNext
  BY <1>2, ThereApiInBoth DEF B!Next
<1>3. CASE T!Tick
  BY <1>3 DEF T!Tick, B!Tick, B!Next
<1>4. ASSUME NEW w \in Worker, NEW S \in SUBSET Job, NEW t \in T!TxNow, T!ClaimJobs(w, S, t)
      PROVE  B!Next
  <2>1. T!Claimable(w, t) = B!Claimable(w, t)
    BY DEF T!Claimable, B!Claimable, T!HasStatus, B!HasStatus, T!Exists, B!Exists
  <2>2. \A r : T!Claimed(r, w, t) = B!Claimed(r, w, t)
    BY DEF T!Claimed, B!Claimed
  <2>3. B!ClaimJobs(w, S, t)
    BY <1>4, <2>1, <2>2 DEF T!ClaimJobs, B!ClaimJobs
  <2>4. QED
    BY <1>1, <2>3 DEF B!Next, B!WorkerNext
<1>5. ASSUME NEW w \in Worker, NEW j \in Job, NEW t \in T!TxNow, T!ExtendLease(w, j, t)
      PROVE  B!Next
  <2>1. B!ExtendLease(w, j, t)
    BY <1>5 DEF T!ExtendLease, B!ExtendLease, T!HoldsLock, B!HoldsLock, T!HasStatus,
                B!HasStatus, T!Exists, B!Exists
  <2>2. QED
    BY <1>1, <2>1 DEF B!Next, B!WorkerNext
<1>6. ASSUME NEW w \in Worker, T!ReleaseInFlightJobs(w) PROVE B!Next
  <2>1. T!InFlight(w) = B!InFlight(w)
    BY DEF T!InFlight, B!InFlight, T!HoldsLock, B!HoldsLock, T!HasStatus, B!HasStatus,
           T!Exists, B!Exists
  <2>2. \A r : T!Released(r) = B!Released(r)
    BY DEF T!Released, B!Released, T!Unlocked, B!Unlocked
  <2>3. \A j, n, e : /\ T!AttemptRecorded(j, n) <=> B!AttemptRecorded(j, n)
                     /\ T!Attempt(j, n, e) = B!Attempt(j, n, e)
    BY DEF T!AttemptRecorded, B!AttemptRecorded, T!Attempt, B!Attempt
  <2>4. B!ReleaseInFlightJobs(w)
    BY <1>6, <2>1, <2>2, <2>3 DEF T!ReleaseInFlightJobs, B!ReleaseInFlightJobs
  <2>5. QED
    BY <2>4 DEF B!Next, B!WorkerNext
<1>7. ASSUME NEW w \in Worker, NEW S \in SUBSET {s \in thereClaims : s.worker = w},
             T!LoseSnapshots(S)
      PROVE  [B!Next]_(B!vars)
  <2>1. /\ thereClaims' = thereClaims \ S /\ UNCHANGED <<jobs, issued, job_attempts, now>>
        /\ hereClaims' \cup thereClaims' = (hereClaims \cup thereClaims) \ (S \ hereClaims)
    BY <1>7 DEF T!LoseSnapshots
  <2>2. CASE S \subseteq hereClaims
    BY <2>1, <2>2 DEF B!vars
  <2>3. CASE ~(S \subseteq hereClaims)
    <3>1. /\ S \ hereClaims \in SUBSET {s \in hereClaims \cup thereClaims : s.worker = w}
          /\ B!LoseSnapshots(S \ hereClaims)
      BY <2>1, <2>3 DEF B!LoseSnapshots
    <3>2. QED
      BY <3>1 DEF B!Next, B!WorkerNext
  <2>4. QED
    BY <2>2, <2>3
<1>8. ASSUME NEW t \in T!TxNow, NEW S \in SUBSET Job, NEW delay \in [S -> 0..RetryMax],
             T!ReapExpiredJobs(S, delay, t)
      PROVE  B!Next
  <2>1. T!Expired(t) = B!Expired(t) /\ T!Cardinality(S) = B!Cardinality(S)
    BY DEF T!Expired, B!Expired, T!HasStatus, B!HasStatus, T!Exists, B!Exists,
           T!Cardinality, B!Cardinality
  <2>2. \A n : T!RetryDelays(n) = B!RetryDelays(n)
    BY DEF T!RetryDelays, B!RetryDelays, T!CappedDelay, B!CappedDelay
  <2>3. \A r, n, d : T!FailedOnce(r, n, t, d) = B!FailedOnce(r, n, t, d)
    BY DEF T!FailedOnce, B!FailedOnce, T!WillRetry, B!WillRetry, T!Unlocked, B!Unlocked
  <2>4. \A j, n, e : /\ T!AttemptRecorded(j, n) <=> B!AttemptRecorded(j, n)
                     /\ T!Attempt(j, n, e) = B!Attempt(j, n, e)
    BY DEF T!AttemptRecorded, B!AttemptRecorded, T!Attempt, B!Attempt
  <2>5. B!ReapExpiredJobs(S, delay, t)
    BY <1>8, <2>1, <2>2, <2>3, <2>4 DEF T!ReapExpiredJobs, B!ReapExpiredJobs
  <2>6. QED
    BY <1>1, <2>5 DEF B!Next, B!WorkerNext
<1>9. QED
  BY <1>2, <1>3, <1>4, <1>5, <1>6, <1>7, <1>8 DEF T!TablesNext

\* Whatever happens, to the tables it is a transaction of JobStore.
LEMMA SharedTableSteps ==
  ASSUME SharedInv, [SharedNext]_<<tables, here, there>>
  PROVE  [B!Next]_(B!vars)
<1>1. H!ProcInv /\ T!ProcInv
  BY DEF SharedInv
<1>2. ASSUME [H!AppNext]_(H!allVars), UNCHANGED thereClaims PROVE [B!Next]_(B!vars)
  <2>1. [H!TablesNext]_(H!vars)
    BY <1>1, <1>2, Assumptions, H!TableSteps
  <2>2. CASE UNCHANGED H!vars
    BY <1>2, <2>2 DEF H!vars, B!vars
  <2>3. QED
    BY <1>2, <2>1, <2>2, HereInBoth
<1>3. ASSUME [T!AppNext]_(T!allVars), UNCHANGED hereClaims PROVE [B!Next]_(B!vars)
  <2>1. [T!TablesNext]_(T!vars)
    BY <1>1, <1>3, Assumptions, T!TableSteps
  <2>2. CASE UNCHANGED T!vars
    BY <1>3, <2>2 DEF T!vars, B!vars
  <2>3. QED
    BY <1>3, <2>1, <2>2, ThereInBoth
<1>4. QED
  BY <1>2, <1>3, WhoseStep DEF HereStep, ThereStep, CommonStep, here, there

\* Two processes that run under one name, each with Job objects of its own, use the
\* tables as JobStore has it.
THEOREM SharedRefinement == SharedSpec => B!Spec
<1>1. SharedInit => B!Init
  BY DEF SharedInit, Here!AppInit, There!AppInit, Here!Init, There!Init, B!Init
<1>2. QED
  BY <1>1, SharedTableSteps, SharedInvariance, PTL DEF SharedSpec, B!Spec

\* So a job goes through the same lifecycle as with one process for each name, its
\* final states stay, a lease that ran out stays dead, and one that has not is lost
\* only by an act of its name.
THEOREM SharedLifecycle ==
  SharedSpec => /\ B!ImplementsLifecycle /\ B!FinalStatesStick
                /\ B!LapsedLeaseIsDead /\ B!LiveLeaseIsHonoured
<1>1. B!Spec => B!ImplementsLifecycle
  BY BothAssumptions, B!Refinement
<1>2. B!Spec => B!FinalStatesStick /\ B!LapsedLeaseIsDead /\ B!LiveLeaseIsHonoured
  BY BothAssumptions, B!FinalIsFinal, B!LapsedIsDead, B!LeaseIsHonoured
<1>3. QED
  BY <1>1, <1>2, SharedRefinement, PTL
==============================================================================
