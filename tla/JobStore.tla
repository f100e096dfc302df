------------------------------ MODULE JobStore ------------------------------
(***************************************************************************)
(* The jobs and job_attempts tables, and every operation that writes them. *)
(* An action is one COMMITTED transaction of the API (api/jobs.py,         *)
(* api/dead_letter.py) or of the worker (worker/claim.py,                  *)
(* worker/complete.py).  A transaction that a constraint aborts leaves no  *)
(* trace here; what its caller does next is modelled by WorkerApp.         *)
(*                                                                         *)
(* Abstractions:                                                           *)
(*  - PostgreSQL's row locks make each transaction atomic on the rows it   *)
(*    writes.  SKIP LOCKED lets a claim or a reap pass over any rows that  *)
(*    other transactions hold, so at this level either may take any subset *)
(*    of the rows that match, up to its limit; ORDER BY does not appear.   *)
(*  - now() is the start of the transaction, which may precede its commit  *)
(*    by up to MaxTxLag: an action reads the time from TxNow.              *)
(*  - Times are whole seconds.  locked_at is written and cleared with      *)
(*    locked_by and is left out; completed_at, failed_at and               *)
(*    dead_lettered_at are kept as "is not NULL".                          *)
(*  - job_type, payload, priority, timeout_seconds, last_error, and the    *)
(*    worker, times and messages of an attempt decide no write; left out.  *)
(***************************************************************************)
EXTENDS Backoff, FiniteSets

CONSTANTS
  Job,          \* the identity values jobs.id can take
  Worker,       \* worker names
  Queue,        \* queue names
  Key,          \* idempotency keys
  Serves,       \* Serves[w]: the queues worker w was started with
  MaxRetries,   \* the max_retries values requests carry
  RunAt,        \* the run_at times requests carry
  LeaseTTL,     \* lease_ttl_seconds
  ReapLimit,    \* _DEFAULT_REAP_LIMIT
  MaxTime,      \* bound: the clock stops here
  MaxTxLag,     \* bound: how far now() of a transaction may lag its commit
  NULL

ASSUME StoreAssumption ==
  /\ Serves \in [Worker -> SUBSET Queue]
  /\ MaxRetries \subseteq Nat /\ RunAt \subseteq Nat
  /\ LeaseTTL \in Nat \ {0} /\ ReapLimit \in Nat /\ MaxTime \in Nat /\ MaxTxLag \in Nat

VARIABLES
  jobs,          \* jobs[j]: the row with id j, or NULL
  issued,        \* ids the Identity column has handed out; it repeats none
  job_attempts,  \* the rows of job_attempts
  snapshots,     \* Job objects claim_jobs returned and their caller still holds
  now            \* the database clock

vars == <<jobs, issued, job_attempts, snapshots, now>>

JobStatus == {"queued", "scheduled", "running", "succeeded",
              "failed", "retrying", "dead_letter", "cancelled"}

JobRow == [queue: Queue, idempotency_key: Key \cup {NULL}, status: JobStatus,
           attempts: Nat, max_retries: Nat, next_run_at: Nat,
           locked_by: Worker \cup {NULL}, lease_expires_at: Nat \cup {NULL},
           completed_at: BOOLEAN, failed_at: BOOLEAN, dead_lettered_at: BOOLEAN]

ASSUME NullAssumption == NULL \notin Worker \cup Key \cup Nat \cup JobRow

JobAttempt == [job: Job, attempt_number: Nat,
               status: {"succeeded", "failed", "cancelled"}]

\* With expire_on_commit=False a claimed Job keeps the attempts the claim
\* gave it, whatever becomes of the row.
Snapshot == [worker: Worker, job: Job, attempts: Nat]

TxNow == {t \in 0..now : t + MaxTxLag >= now}

Exists(j) == jobs[j] # NULL

HasStatus(j, S) == Exists(j) /\ jobs[j].status \in S

\* uq_job_attempts_job_id_attempt_number refuses a second such row.
AttemptRecorded(j, n) ==
  \E a \in job_attempts : a.job = j /\ a.attempt_number = n

Attempt(j, n, s) == [job |-> j, attempt_number |-> n, status |-> s]

------------------------------------------------------------------------------
(* What each UPDATE makes of a row. *)

\* Mutant: the lease outlives the lock.
Unlocked_KeepsLease(r) == [r EXCEPT !.locked_by = NULL]

Unlocked(r) == [r EXCEPT !.locked_by = NULL, !.lease_expires_at = NULL]

\* Mutant: the claim does not count the attempt.
Claimed_Uncounted(r, w, t) ==
  [r EXCEPT !.status = "running", !.locked_by = w, !.lease_expires_at = t + LeaseTTL]

Claimed(r, w, t) ==
  [r EXCEPT !.status = "running", !.locked_by = w,
            !.lease_expires_at = t + LeaseTTL, !.attempts = @ + 1]

\* Mutant: the interrupted attempt stays counted.
Released_Counted(r) == [Unlocked(r) EXCEPT !.status = "queued"]

Released(r) == [Unlocked(r) EXCEPT !.status = "queued", !.attempts = @ - 1]

Succeeded(r) ==
  [Unlocked(r) EXCEPT !.status = "succeeded", !.completed_at = TRUE,
                      !.failed_at = FALSE, !.dead_lettered_at = FALSE]

\* Mutant: one run too many.
WillRetry_Inclusive(r, attempts) == attempts <= r.max_retries

WillRetry(r, attempts) == attempts < r.max_retries

\* The reaper passes the row's attempts, mark_job_failed its snapshot's.
FailedOnce(r, attempts, t, delay) ==
  IF WillRetry(r, attempts)
  THEN [Unlocked(r) EXCEPT !.status = "retrying", !.next_run_at = t + delay,
                           !.failed_at = FALSE, !.dead_lettered_at = FALSE]
  ELSE [Unlocked(r) EXCEPT !.status = "dead_letter",
                           !.failed_at = TRUE, !.dead_lettered_at = TRUE]

\* Mutant: cancelling a dead letter leaves it marked as one.
Cancelled_KeepsMark(r) == [r EXCEPT !.status = "cancelled"]

Cancelled(r) == [r EXCEPT !.status = "cancelled", !.dead_lettered_at = FALSE]

Requeued(r, t) ==
  [Unlocked(r) EXCEPT !.status = "queued", !.attempts = 0, !.next_run_at = t,
                      !.failed_at = FALSE, !.dead_lettered_at = FALSE]

\* A new row: run_at makes it scheduled, otherwise it is queued and due.
NewJob(q, k, retries, run_at, t) ==
  [queue |-> q, idempotency_key |-> k,
   status |-> IF run_at = NULL THEN "queued" ELSE "scheduled",
   attempts |-> 0, max_retries |-> retries,
   next_run_at |-> IF run_at = NULL THEN t ELSE run_at,
   locked_by |-> NULL, lease_expires_at |-> NULL,
   completed_at |-> FALSE, failed_at |-> FALSE, dead_lettered_at |-> FALSE]

------------------------------------------------------------------------------
(* The API. *)

\* uq_jobs_queue_idempotency_key: a NULL key never conflicts.
KeyTaken(q, k) ==
  k # NULL /\ \E j \in Job : Exists(j) /\ jobs[j].queue = q
                                       /\ jobs[j].idempotency_key = k

\* POST /jobs that inserts.  On a conflict it only reads the existing row.
CreateJob(j, q, k, retries, run_at, t) ==
  /\ j \notin issued
  /\ ~KeyTaken(q, k)
  /\ issued' = issued \cup {j}
  /\ jobs' = [jobs EXCEPT ![j] = NewJob(q, k, retries, run_at, t)]
  /\ UNCHANGED <<job_attempts, snapshots, now>>

\* Mutant: running jobs can be cancelled.
Cancellable_Running == {"queued", "scheduled", "running", "dead_letter"}

Cancellable == {"queued", "scheduled", "dead_letter"}

CancelJob(j) ==
  /\ HasStatus(j, Cancellable)
  /\ jobs' = [jobs EXCEPT ![j] = Cancelled(@)]
  /\ UNCHANGED <<issued, job_attempts, snapshots, now>>

\* Mutant: cancelled jobs can be retried.
Retryable_Cancelled == {"failed", "dead_letter", "cancelled"}

Retryable == {"failed", "dead_letter"}

\* POST /jobs/{id}/retry
RetryJob(j, t) ==
  /\ HasStatus(j, Retryable)
  /\ jobs' = [jobs EXCEPT ![j] = Requeued(@, t)]
  /\ UNCHANGED <<issued, job_attempts, snapshots, now>>

\* POST /dead-letter/{id}/retry
RetryDeadLetterJob(j, t) ==
  /\ HasStatus(j, {"dead_letter"})
  /\ jobs' = [jobs EXCEPT ![j] = Requeued(@, t)]
  /\ UNCHANGED <<issued, job_attempts, snapshots, now>>

\* Mutant: no cascade.
WithoutAttemptsOf_NoCascade(j) == job_attempts

\* job_attempts.job_id is ON DELETE CASCADE.
WithoutAttemptsOf(j) == {a \in job_attempts : a.job # j}

DeleteDeadLetterJob(j) ==
  /\ HasStatus(j, {"dead_letter"})
  /\ jobs' = [jobs EXCEPT ![j] = NULL]
  /\ job_attempts' = WithoutAttemptsOf(j)
  /\ UNCHANGED <<issued, snapshots, now>>

------------------------------------------------------------------------------
(* The worker's claims and leases. *)

Claimable(w, t) ==
  {j \in Job : /\ HasStatus(j, {"queued", "scheduled", "retrying"})
               /\ jobs[j].queue \in Serves[w]
               /\ jobs[j].next_run_at <= t}

ClaimJobs(w, S, t) ==
  /\ S # {} /\ S \subseteq Claimable(w, t)
  /\ jobs' = [j \in Job |-> IF j \in S THEN Claimed(jobs[j], w, t) ELSE jobs[j]]
  /\ snapshots' = snapshots \cup
       {[worker |-> w, job |-> j, attempts |-> jobs[j].attempts + 1] : j \in S}
  /\ UNCHANGED <<issued, job_attempts, now>>

HoldsLock(w, j) == HasStatus(j, {"running"}) /\ jobs[j].locked_by = w

\* Mutant: a lease that runs out right now can still be extended.
ExtendLease_Inclusive(w, j, t) ==
  /\ HoldsLock(w, j)
  /\ jobs[j].lease_expires_at >= t
  /\ jobs' = [jobs EXCEPT ![j].lease_expires_at = t + LeaseTTL]
  /\ UNCHANGED <<issued, job_attempts, snapshots, now>>

ExtendLease(w, j, t) ==
  /\ HoldsLock(w, j)
  /\ jobs[j].lease_expires_at > t
  /\ jobs' = [jobs EXCEPT ![j].lease_expires_at = t + LeaseTTL]
  /\ UNCHANGED <<issued, job_attempts, snapshots, now>>

\* Mutant: the reaper takes a lease that runs out right now.
Expired_Inclusive(t) ==
  {j \in Job : HasStatus(j, {"running"}) /\ jobs[j].lease_expires_at <= t}

Expired(t) ==
  {j \in Job : HasStatus(j, {"running"}) /\ jobs[j].lease_expires_at < t}

ReapExpiredJobs(S, delay, t) ==
  /\ S # {} /\ S \subseteq Expired(t) /\ Cardinality(S) <= ReapLimit
  /\ \A j \in S : /\ ~AttemptRecorded(j, jobs[j].attempts)
                  /\ delay[j] \in RetryDelays(jobs[j].attempts)
  /\ jobs' = [j \in Job |->
                IF j \in S THEN FailedOnce(jobs[j], jobs[j].attempts, t, delay[j])
                           ELSE jobs[j]]
  /\ job_attempts' = job_attempts \cup
                       {Attempt(j, jobs[j].attempts, "failed") : j \in S}
  /\ UNCHANGED <<issued, snapshots, now>>

InFlight(w) == {j \in Job : HoldsLock(w, j)}

\* Mutant: a release leaves no attempt on record.
ReleaseInFlightJobs_Unrecorded(w) ==
  /\ InFlight(w) # {}
  /\ jobs' = [j \in Job |-> IF j \in InFlight(w) THEN Released(jobs[j]) ELSE jobs[j]]
  /\ UNCHANGED <<issued, job_attempts, snapshots, now>>

ReleaseInFlightJobs(w) ==
  LET S == InFlight(w)
  IN  /\ S # {}
      /\ \A j \in S : ~AttemptRecorded(j, jobs[j].attempts)
      /\ jobs' = [j \in Job |-> IF j \in S THEN Released(jobs[j]) ELSE jobs[j]]
      /\ job_attempts' = job_attempts \cup
                           {Attempt(j, jobs[j].attempts, "cancelled") : j \in S}
      /\ UNCHANGED <<issued, snapshots, now>>

------------------------------------------------------------------------------
(* Recording an outcome.  run_loop does not execute jobs yet: these are the *)
(* functions of worker/complete.py, called as its tests call them, with a   *)
(* Job that claim_jobs returned.                                            *)

\* The UPDATE asks for the worker's name and neither status nor attempts.
StillLocked(s) == Exists(s.job) /\ jobs[s.job].locked_by = s.worker

MarkJobSucceeded(s) ==
  /\ \/ /\ StillLocked(s)
        /\ ~AttemptRecorded(s.job, s.attempts)
        /\ jobs' = [jobs EXCEPT ![s.job] = Succeeded(@)]
        /\ job_attempts' = job_attempts \cup {Attempt(s.job, s.attempts, "succeeded")}
     \/ ~StillLocked(s) /\ UNCHANGED <<jobs, job_attempts>>
  /\ snapshots' = snapshots \ {s}
  /\ UNCHANGED <<issued, now>>

MarkJobFailed(s, delay, t) ==
  /\ \/ /\ StillLocked(s)
        /\ ~AttemptRecorded(s.job, s.attempts)
        /\ delay \in RetryDelays(s.attempts)
        /\ jobs' = [jobs EXCEPT ![s.job] = FailedOnce(@, s.attempts, t, delay)]
        /\ job_attempts' = job_attempts \cup {Attempt(s.job, s.attempts, "failed")}
     \/ ~StillLocked(s) /\ UNCHANGED <<jobs, job_attempts>>
  /\ snapshots' = snapshots \ {s}
  /\ UNCHANGED <<issued, now>>

\* Their holder gives the jobs up, or dies and takes all it holds with it; a name
\* may have several holders.
LoseSnapshots(S) ==
  /\ S # {} /\ S \subseteq snapshots
  /\ snapshots' = snapshots \ S
  /\ UNCHANGED <<jobs, issued, job_attempts, now>>

Tick ==
  /\ now < MaxTime
  /\ now' = now + 1
  /\ UNCHANGED <<jobs, issued, job_attempts, snapshots>>

------------------------------------------------------------------------------
Init ==
  /\ jobs = [j \in Job |-> NULL]
  /\ issued = {} /\ job_attempts = {} /\ snapshots = {}
  /\ now = 0

ApiNext ==
  \E j \in Job :
    \/ \E q \in Queue, k \in Key \cup {NULL}, retries \in MaxRetries,
          run_at \in RunAt \cup {NULL}, t \in TxNow :
         CreateJob(j, q, k, retries, run_at, t)
    \/ CancelJob(j)
    \/ \E t \in TxNow : RetryJob(j, t) \/ RetryDeadLetterJob(j, t)
    \/ DeleteDeadLetterJob(j)

WorkerNext ==
  \/ \E w \in Worker :
       \/ \E S \in SUBSET Job, t \in TxNow : ClaimJobs(w, S, t)
       \/ \E j \in Job, t \in TxNow : ExtendLease(w, j, t)
       \/ ReleaseInFlightJobs(w)
       \/ \E S \in SUBSET {s \in snapshots : s.worker = w} : LoseSnapshots(S)
  \/ \E t \in TxNow, S \in SUBSET Job :
       \E delay \in [S -> 0..RetryMax] : ReapExpiredJobs(S, delay, t)
  \/ \E s \in snapshots :
       \/ MarkJobSucceeded(s)
       \/ \E t \in TxNow, delay \in 0..RetryMax : MarkJobFailed(s, delay, t)

Next == ApiNext \/ WorkerNext \/ Tick

Spec == Init /\ [][Next]_vars

------------------------------------------------------------------------------
(* Properties. *)

\* Every column and every row has its type.  In particular the decrement of
\* release_in_flight_jobs never takes attempts below zero.
TypeOK ==
  /\ jobs \in [Job -> JobRow \cup {NULL}]
  /\ issued \subseteq Job
  /\ job_attempts \subseteq JobAttempt
  /\ snapshots \subseteq Snapshot
  /\ now \in Nat

\* The lock columns are set exactly on running rows.  mark_job_* depend on
\* it: their UPDATE tests locked_by alone, so a lock left behind on a job that
\* was cancelled, buried or completed would let an outcome revive it.
LockIffRunning ==
  \A j \in Job : Exists(j) =>
    /\ jobs[j].locked_by # NULL <=> jobs[j].status = "running"
    /\ jobs[j].lease_expires_at # NULL <=> jobs[j].status = "running"

\* The finish marks agree with the status through failures, retries and
\* cancellation: a job waiting or running again carries none of its last run.
MarksMatchStatus ==
  \A j \in Job : Exists(j) =>
    /\ jobs[j].completed_at <=> jobs[j].status = "succeeded"
    /\ jobs[j].dead_lettered_at <=> jobs[j].status = "dead_letter"
    /\ jobs[j].failed_at => jobs[j].status \in {"dead_letter", "cancelled"}
    /\ jobs[j].status = "dead_letter" => jobs[j].failed_at

\* max_retries = 0 still allows the first run.
RunBudget(max_retries) == IF max_retries = 0 THEN 1 ELSE max_retries

Budget(r) == RunBudget(r.max_retries)

\* No job is run more often than its budget between two manual retries, a job
\* that waits has a run left, and a dead letter has none: whatever mix of
\* failures, expiries and releases it went through.
AttemptBudget ==
  \A j \in Job : Exists(j) =>
    /\ jobs[j].attempts <= Budget(jobs[j])
    /\ jobs[j].status = "running" => jobs[j].attempts >= 1
    /\ jobs[j].status \in {"queued", "scheduled", "retrying"} =>
         jobs[j].attempts < Budget(jobs[j])
    /\ jobs[j].status = "dead_letter" => jobs[j].attempts = Budget(jobs[j])

\* mark_job_* do not compare attempts, so a worker that lost its lease and
\* claimed the same job again could record the first run's outcome against
\* the second.  What prevents it is the attempts table: a snapshot is either
\* the run in progress or already has its row there (and its INSERT aborts).
StaleSnapshotsAreFenced ==
  \A s \in snapshots : Exists(s.job) =>
    \/ AttemptRecorded(s.job, s.attempts)
    \/ HoldsLock(s.worker, s.job) /\ jobs[s.job].attempts = s.attempts

\* The history a dead letter shows is complete: one row per attempt, no gap
\* below the counter, a success exactly on succeeded jobs, and the failure
\* that buried the job.  No row outlives its job.
AttemptHistory ==
  /\ \A a \in job_attempts : Exists(a.job)
  /\ \A a, b \in job_attempts :
       a.job = b.job /\ a.attempt_number = b.attempt_number => a = b
  /\ \A j \in Job : Exists(j) =>
       /\ \A n \in 1..jobs[j].attempts :
            AttemptRecorded(j, n) \/ (n = jobs[j].attempts /\ jobs[j].status = "running")
       /\ \A a \in job_attempts : a.job = j /\ a.status = "succeeded" =>
            jobs[j].status = "succeeded" /\ a.attempt_number = jobs[j].attempts
       /\ jobs[j].status = "succeeded" =>
            Attempt(j, jobs[j].attempts, "succeeded") \in job_attempts
       /\ jobs[j].status = "dead_letter" =>
            Attempt(j, jobs[j].attempts, "failed") \in job_attempts

\* A succeeded or cancelled job is final: no late outcome, reap, release,
\* claim or retry changes its row.
FinalStatesStick ==
  [][\A j \in Job : HasStatus(j, {"succeeded", "cancelled"}) => jobs'[j] = jobs[j]]_vars

\* While its lease has not run out, a worker loses a job only by its own act:
\* it spends its own snapshot of this very attempt on an outcome, or releases
\* the job and leaves the cancelled attempt on record.
LiveLeaseIsHonoured ==
  [][\A j \in Job :
       /\ HasStatus(j, {"running"}) /\ jobs[j].lease_expires_at >= now
       /\ ~(jobs'[j] # NULL /\ jobs'[j].locked_by = jobs[j].locked_by)
       => \/ [worker |-> jobs[j].locked_by, job |-> j, attempts |-> jobs[j].attempts]
               \in snapshots \ snapshots'
          \/ Attempt(j, jobs[j].attempts, "cancelled") \in job_attempts' \ job_attempts]_vars

\* A lease that ran out is never revived, whatever transaction lags behind
\* the clock: the attempt can only end.  The reaper presumes the owner dead.
LapsedLeaseIsDead ==
  [][\A j \in Job :
       /\ HasStatus(j, {"running"}) /\ jobs[j].lease_expires_at + MaxTxLag <= now
       => jobs'[j] = jobs[j] \/ jobs'[j] = NULL \/ jobs'[j].status # "running"]_vars

\* A run whose number already has a row: release gives a number back after
\* recording it, a manual retry starts again from 1 and keeps the rows.
Stuck(j) == HasStatus(j, {"running"}) /\ AttemptRecorded(j, jobs[j].attempts)

\* Such a job never leaves running again: every outcome, reap and release of
\* it aborts on the unique constraint, and the API acts on no running job.
StuckJobsStayStuck == [][\A j \in Job : Stuck(j) => Stuck(j)']_vars

\* An id is handed out once, so nothing refers to a row before it exists.
IdsAreIssued ==
  /\ \A j \in Job : Exists(j) => j \in issued
  /\ \A s \in snapshots : s.job \in issued

\* The parts support one another: inductive together (JobStore_proofs).
IInv ==
  /\ TypeOK
  /\ LockIffRunning
  /\ MarksMatchStatus
  /\ AttemptBudget
  /\ StaleSnapshotsAreFenced
  /\ AttemptHistory
  /\ IdsAreIssued

------------------------------------------------------------------------------
(* The tables implement the lifecycle of a job. *)

PhaseOf(status) ==
  CASE status \in {"queued", "scheduled"}   -> "waiting"
    [] status = "retrying"                  -> "backing_off"
    [] status \in {"failed", "dead_letter"} -> "dead"
    [] OTHER                                -> status

LifeOf(j) ==
  IF Exists(j)
  THEN [phase |-> PhaseOf(jobs[j].status), tries |-> jobs[j].attempts,
        budget |-> Budget(jobs[j])]
  ELSE [phase |-> IF j \in issued THEN "purged" ELSE "unborn", tries |-> 0, budget |-> 0]

Lifecycle == INSTANCE JobLifecycle
  WITH life    <- [j \in Job |-> LifeOf(j)],
       Budgets <- {RunBudget(n) : n \in MaxRetries}

\* Every committed transaction is, for each job it touches, one step of the
\* lifecycle: no mix of claims, outcomes, expiries, releases and API calls
\* skips a phase, loses a run or grants one too many.
ImplementsLifecycle == Lifecycle!Spec
==============================================================================
