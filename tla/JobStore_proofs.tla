--------------------------- MODULE JobStore_proofs ---------------------------
(***************************************************************************)
(* Theorems about JobStore, for every value of its constants: IInv is an   *)
(* invariant, with the safety properties it contains; what a step may do   *)
(* to one row, with the action properties that follow from that; and that  *)
(* the tables implement JobLifecycle.                                      *)
(*                                                                         *)
(* IInv speaks of each job separately (lemma PerJob): its row, its rows in *)
(* job_attempts, its snapshots, its id.  So an action is proved on the     *)
(* jobs it touches, and Frame takes care of all others.                    *)
(***************************************************************************)
EXTENDS JobStore, TLAPS

------------------------------------------------------------------------------
(* One row. *)

\* What TypeOK, LockIffRunning, MarksMatchStatus and AttemptBudget say of it.
RowOK(r) ==
  /\ r \in JobRow
  /\ r.locked_by # NULL <=> r.status = "running"
  /\ r.lease_expires_at # NULL <=> r.status = "running"
  /\ r.completed_at <=> r.status = "succeeded"
  /\ r.dead_lettered_at <=> r.status = "dead_letter"
  /\ r.failed_at => r.status \in {"dead_letter", "cancelled"}
  /\ r.status = "dead_letter" => r.failed_at
  /\ r.attempts <= Budget(r)
  /\ r.status = "running" => r.attempts >= 1
  /\ r.status \in {"queued", "scheduled", "retrying"} => r.attempts < Budget(r)
  /\ r.status = "dead_letter" => r.attempts = Budget(r)

\* NULL is no name, key, number or row.
LEMMA NullIsDistinct ==
  NULL \notin Worker /\ NULL \notin Key /\ NULL \notin Nat /\ NULL \notin JobRow
BY NullAssumption DEF NullAssumption

\* Clearing the lock leaves every other column alone.
LEMMA UnlockedRow ==
  ASSUME NEW r \in JobRow
  PROVE  /\ Unlocked(r) \in JobRow
         /\ Unlocked(r).locked_by = NULL /\ Unlocked(r).lease_expires_at = NULL
         /\ Unlocked(r).status = r.status
         /\ Unlocked(r).attempts = r.attempts
         /\ Unlocked(r).max_retries = r.max_retries
         /\ Unlocked(r).completed_at = r.completed_at
         /\ Unlocked(r).failed_at = r.failed_at
         /\ Unlocked(r).dead_lettered_at = r.dead_lettered_at
BY DEF Unlocked, JobRow

\* A claim keeps the row consistent and starts the next attempt.
LEMMA ClaimedRow ==
  ASSUME NEW r, RowOK(r), r.status \in {"queued", "scheduled", "retrying"},
         NEW w \in Worker, NEW t \in Nat
  PROVE  RowOK(Claimed(r, w, t)) /\ Claimed(r, w, t).attempts = r.attempts + 1
                                 /\ Claimed(r, w, t).status = "running"
                                 /\ Claimed(r, w, t).locked_by = w
                                 /\ Claimed(r, w, t).max_retries = r.max_retries
<1> DEFINE c == Claimed(r, w, t)
<1>1. r \in JobRow
  BY DEF RowOK
<1>2. c \in JobRow
  <2>1. t + LeaseTTL \in Nat /\ r.attempts + 1 \in Nat /\ "running" \in JobStatus
    BY <1>1, StoreAssumption DEF JobRow, JobStatus, StoreAssumption
  <2>2. QED
    BY <1>1, <2>1 DEF Claimed, JobRow
<1>3. /\ c.status = "running" /\ c.locked_by = w /\ c.lease_expires_at = t + LeaseTTL
      /\ c.attempts = r.attempts + 1 /\ c.max_retries = r.max_retries
      /\ c.completed_at = r.completed_at /\ c.failed_at = r.failed_at
      /\ c.dead_lettered_at = r.dead_lettered_at
  BY <1>1 DEF Claimed, JobRow
<1>4. c.attempts <= Budget(c) /\ c.attempts >= 1
  BY <1>1, <1>3 DEF RowOK, JobRow, Budget, RunBudget
<1>5. c.locked_by # NULL /\ c.lease_expires_at # NULL
  BY <1>3, NullIsDistinct, StoreAssumption DEF StoreAssumption
<1>6. ~c.completed_at /\ ~c.failed_at /\ ~c.dead_lettered_at
  BY <1>3 DEF RowOK
<1>7. QED
  BY <1>2, <1>3, <1>4, <1>5, <1>6 DEF RowOK

\* A release takes back the attempt a running row has counted.
LEMMA ReleasedRow ==
  ASSUME NEW r, RowOK(r), r.status = "running"
  PROVE  RowOK(Released(r)) /\ Released(r).attempts = r.attempts - 1
                            /\ Released(r).status = "queued"
                            /\ Released(r).max_retries = r.max_retries
<1> DEFINE u == Unlocked(r)
           c == Released(r)
<1>1. r \in JobRow
  BY DEF RowOK
<1>2. /\ u \in JobRow /\ u.attempts = r.attempts
      /\ u.locked_by = NULL /\ u.lease_expires_at = NULL
      /\ u.max_retries = r.max_retries /\ u.completed_at = r.completed_at
      /\ u.failed_at = r.failed_at /\ u.dead_lettered_at = r.dead_lettered_at
  BY <1>1, UnlockedRow
<1>3. u.attempts - 1 \in Nat /\ "queued" \in JobStatus
  BY <1>1, <1>2 DEF RowOK, JobRow, JobStatus
<1>4. /\ c \in JobRow
      /\ c.status = "queued" /\ c.attempts = u.attempts - 1
      /\ c.locked_by = u.locked_by /\ c.lease_expires_at = u.lease_expires_at
      /\ c.max_retries = u.max_retries /\ c.completed_at = u.completed_at
      /\ c.failed_at = u.failed_at /\ c.dead_lettered_at = u.dead_lettered_at
  BY <1>2, <1>3 DEF Released, JobRow
<1>5. c.attempts < Budget(c) /\ c.attempts <= Budget(c)
  BY <1>1, <1>2, <1>4 DEF RowOK, JobRow, Budget, RunBudget
<1>6. ~c.completed_at /\ ~c.failed_at /\ ~c.dead_lettered_at
  BY <1>2, <1>4 DEF RowOK
<1>7. QED
  BY <1>2, <1>4, <1>5, <1>6 DEF RowOK

\* A success unlocks and marks the row, and keeps its count.
LEMMA SucceededRow ==
  ASSUME NEW r, RowOK(r), r.status = "running"
  PROVE  RowOK(Succeeded(r)) /\ Succeeded(r).attempts = r.attempts
                             /\ Succeeded(r).status = "succeeded"
                             /\ Succeeded(r).max_retries = r.max_retries
<1> DEFINE u == Unlocked(r)
           c == Succeeded(r)
<1>1. r \in JobRow
  BY DEF RowOK
<1>2. /\ u \in JobRow /\ u.attempts = r.attempts
      /\ u.locked_by = NULL /\ u.lease_expires_at = NULL
      /\ u.max_retries = r.max_retries
  BY <1>1, UnlockedRow
<1>3. /\ c \in JobRow
      /\ c.status = "succeeded" /\ c.attempts = u.attempts
      /\ c.locked_by = u.locked_by /\ c.lease_expires_at = u.lease_expires_at
      /\ c.max_retries = u.max_retries
      /\ c.completed_at = TRUE /\ c.failed_at = FALSE /\ c.dead_lettered_at = FALSE
  BY <1>2 DEF Succeeded, JobRow, JobStatus
<1>4. c.attempts <= Budget(c)
  BY <1>1, <1>2, <1>3 DEF RowOK, JobRow, Budget, RunBudget
<1>5. QED
  BY <1>2, <1>3, <1>4 DEF RowOK
\* A failure either leaves a run in the budget and the row waiting for it, or
\* uses the last one and buries the job.
LEMMA FailedOnceRow ==
  ASSUME NEW r, RowOK(r), r.status = "running",
         NEW t \in Nat, NEW delay \in Nat
  PROVE  LET c == FailedOnce(r, r.attempts, t, delay)
         IN  /\ RowOK(c) /\ c.attempts = r.attempts
             /\ c.status \in {"retrying", "dead_letter"}
             /\ c.status = "retrying" <=> r.attempts < r.max_retries
             /\ c.max_retries = r.max_retries
<1> DEFINE u == Unlocked(r)
           c == FailedOnce(r, r.attempts, t, delay)
<1>1. r \in JobRow
  BY DEF RowOK
<1>2. /\ u \in JobRow /\ u.attempts = r.attempts
      /\ u.locked_by = NULL /\ u.lease_expires_at = NULL
      /\ u.max_retries = r.max_retries /\ u.completed_at = r.completed_at
  BY <1>1, UnlockedRow
<1>3. ~r.completed_at
  BY DEF RowOK
<1>4. CASE r.attempts < r.max_retries
  <2>1. t + delay \in Nat
    OBVIOUS
  <2>2. c = [u EXCEPT !.status = "retrying", !.next_run_at = t + delay,
                      !.failed_at = FALSE, !.dead_lettered_at = FALSE]
    BY <1>4 DEF FailedOnce, WillRetry
  <2>3. /\ c \in JobRow
        /\ c.status = "retrying" /\ c.attempts = u.attempts
        /\ c.locked_by = u.locked_by /\ c.lease_expires_at = u.lease_expires_at
        /\ c.max_retries = u.max_retries /\ c.completed_at = u.completed_at
        /\ c.failed_at = FALSE /\ c.dead_lettered_at = FALSE
    BY <1>2, <2>1, <2>2 DEF JobRow, JobStatus
  <2>4. c.attempts < Budget(c) /\ c.attempts <= Budget(c)
    BY <1>1, <1>2, <1>4, <2>3 DEF JobRow, Budget, RunBudget
  <2>5. QED
    BY <1>2, <1>3, <1>4, <2>3, <2>4 DEF RowOK
<1>5. CASE ~(r.attempts < r.max_retries)
  <2>1. c = [u EXCEPT !.status = "dead_letter",
                      !.failed_at = TRUE, !.dead_lettered_at = TRUE]
    BY <1>5 DEF FailedOnce, WillRetry
  <2>2. /\ c \in JobRow
        /\ c.status = "dead_letter" /\ c.attempts = u.attempts
        /\ c.locked_by = u.locked_by /\ c.lease_expires_at = u.lease_expires_at
        /\ c.max_retries = u.max_retries /\ c.completed_at = u.completed_at
        /\ c.failed_at = TRUE /\ c.dead_lettered_at = TRUE
    BY <1>2, <2>1 DEF JobRow, JobStatus
  <2>3. c.attempts = Budget(c) /\ c.attempts <= Budget(c)
    BY <1>1, <1>2, <1>5, <2>2 DEF RowOK, JobRow, Budget, RunBudget
  <2>4. QED
    BY <1>2, <1>3, <1>5, <2>2, <2>3 DEF RowOK
<1>6. QED
  BY <1>4, <1>5

\* A cancelled row is unlocked and counts what it counted.
LEMMA CancelledRow ==
  ASSUME NEW r, RowOK(r), r.status \in Cancellable
  PROVE  RowOK(Cancelled(r)) /\ Cancelled(r).attempts = r.attempts
                             /\ Cancelled(r).status = "cancelled"
                             /\ Cancelled(r).max_retries = r.max_retries
<1> DEFINE c == Cancelled(r)
<1>1. r \in JobRow
  BY DEF RowOK
<1>2. /\ c \in JobRow
      /\ c.status = "cancelled" /\ c.dead_lettered_at = FALSE
      /\ c.attempts = r.attempts /\ c.max_retries = r.max_retries
      /\ c.locked_by = r.locked_by /\ c.lease_expires_at = r.lease_expires_at
      /\ c.completed_at = r.completed_at
  BY <1>1 DEF Cancelled, JobRow, JobStatus
<1>3. c.locked_by = NULL /\ c.lease_expires_at = NULL /\ ~c.completed_at
  BY <1>2 DEF RowOK, Cancellable
<1>4. c.attempts <= Budget(c)
  BY <1>2 DEF RowOK, Budget
<1>5. QED
  BY <1>2, <1>3, <1>4 DEF RowOK

\* A manual retry starts the count again.
LEMMA RequeuedRow ==
  ASSUME NEW r, RowOK(r), r.status \in Retryable, NEW t \in Nat
  PROVE  RowOK(Requeued(r, t)) /\ Requeued(r, t).attempts = 0
                               /\ Requeued(r, t).status = "queued"
                               /\ Requeued(r, t).max_retries = r.max_retries
<1> DEFINE u == Unlocked(r)
           c == Requeued(r, t)
<1>1. r \in JobRow
  BY DEF RowOK
<1>2. /\ u \in JobRow
      /\ u.locked_by = NULL /\ u.lease_expires_at = NULL
      /\ u.max_retries = r.max_retries /\ u.completed_at = r.completed_at
  BY <1>1, UnlockedRow
<1>3. /\ c \in JobRow
      /\ c.status = "queued" /\ c.attempts = 0
      /\ c.locked_by = u.locked_by /\ c.lease_expires_at = u.lease_expires_at
      /\ c.max_retries = u.max_retries /\ c.completed_at = u.completed_at
      /\ c.failed_at = FALSE /\ c.dead_lettered_at = FALSE
  BY <1>2 DEF Requeued, JobRow, JobStatus
<1>4. c.attempts < Budget(c) /\ c.attempts <= Budget(c)
  BY <1>1, <1>2, <1>3 DEF JobRow, Budget, RunBudget
<1>5. QED
  BY <1>2, <1>3, <1>4 DEF RowOK, Retryable

\* A new row has used no attempt.
LEMMA NewJobRow ==
  ASSUME NEW q \in Queue, NEW k \in Key \cup {NULL}, NEW n \in Nat,
         NEW run_at \in Nat \cup {NULL}, NEW t \in Nat
  PROVE  RowOK(NewJob(q, k, n, run_at, t)) /\ NewJob(q, k, n, run_at, t).attempts = 0
           /\ NewJob(q, k, n, run_at, t).status \in {"queued", "scheduled"}
<1> DEFINE c == NewJob(q, k, n, run_at, t)
           s == IF run_at = NULL THEN "queued" ELSE "scheduled"
           d == IF run_at = NULL THEN t ELSE run_at
<1>1. s \in JobStatus /\ s \in {"queued", "scheduled"} /\ d \in Nat
  BY DEF JobStatus
<1>2. c = [queue |-> q, idempotency_key |-> k, status |-> s,
           attempts |-> 0, max_retries |-> n, next_run_at |-> d,
           locked_by |-> NULL, lease_expires_at |-> NULL,
           completed_at |-> FALSE, failed_at |-> FALSE, dead_lettered_at |-> FALSE]
  BY DEF NewJob
<1> HIDE DEF c, s, d
<1>3. /\ c \in JobRow /\ c.status = s /\ c.attempts = 0 /\ c.max_retries = n
      /\ c.locked_by = NULL /\ c.lease_expires_at = NULL
      /\ c.completed_at = FALSE /\ c.failed_at = FALSE /\ c.dead_lettered_at = FALSE
  BY <1>1, <1>2 DEF JobRow
<1>4. c.attempts < Budget(c) /\ c.attempts <= Budget(c)
  BY <1>3 DEF Budget, RunBudget
<1>5. QED
  BY <1>1, <1>3, <1>4 DEF RowOK, c

\* An extension moves the lease and nothing else.
LEMMA ExtendedRow ==
  ASSUME NEW r, RowOK(r), r.status = "running", NEW t \in Nat
  PROVE  LET c == [r EXCEPT !.lease_expires_at = t + LeaseTTL]
         IN  RowOK(c) /\ c.attempts = r.attempts /\ c.status = r.status
                      /\ c.locked_by = r.locked_by /\ c.max_retries = r.max_retries
<1> DEFINE c == [r EXCEPT !.lease_expires_at = t + LeaseTTL]
<1>1. r \in JobRow
  BY DEF RowOK
<1>2. t + LeaseTTL \in Nat
  BY StoreAssumption DEF StoreAssumption
<1>3. /\ c \in JobRow
      /\ c.status = r.status /\ c.lease_expires_at = t + LeaseTTL
      /\ c.attempts = r.attempts /\ c.max_retries = r.max_retries
      /\ c.locked_by = r.locked_by /\ c.completed_at = r.completed_at
      /\ c.failed_at = r.failed_at /\ c.dead_lettered_at = r.dead_lettered_at
  BY <1>1, <1>2 DEF JobRow
<1>4. c.lease_expires_at # NULL
  BY <1>2, <1>3, NullIsDistinct
<1>5. Budget(c) = Budget(r)
  BY <1>3 DEF Budget
<1>6. QED
  BY <1>3, <1>4, <1>5 DEF RowOK

SameJob(r, v) ==
  v \in JobRow /\ v.queue = r.queue /\ v.idempotency_key = r.idempotency_key

\* Every UPDATE keeps the job's queue and key, and only a claim or an
\* extension leaves the job running.
LEMMA UpdatedRow ==
  ASSUME NEW r \in JobRow
  PROVE  /\ \A w \in Worker, t \in Nat :
              SameJob(r, Claimed(r, w, t)) /\ Claimed(r, w, t).locked_by = w
         /\ r.attempts >= 1 => SameJob(r, Released(r)) /\ Released(r).status = "queued"
         /\ SameJob(r, Succeeded(r)) /\ Succeeded(r).status = "succeeded"
         /\ \A n : \A t, d \in Nat : /\ SameJob(r, FailedOnce(r, n, t, d))
                                     /\ FailedOnce(r, n, t, d).status # "running"
         /\ SameJob(r, Cancelled(r)) /\ Cancelled(r).status = "cancelled"
         /\ \A t \in Nat : SameJob(r, Requeued(r, t)) /\ Requeued(r, t).status = "queued"
         /\ \A t \in Nat : LET e == [r EXCEPT !.lease_expires_at = t + LeaseTTL]
                           IN  /\ SameJob(r, e) /\ e.status = r.status
                               /\ e.locked_by = r.locked_by
<1> USE DEF SameJob
<1> DEFINE u == Unlocked(r)
<1>1. \A t, d \in Nat : t + LeaseTTL \in Nat /\ t + d \in Nat
  BY StoreAssumption DEF StoreAssumption
<1>2. {"running", "queued", "succeeded", "retrying", "dead_letter", "cancelled"} \subseteq JobStatus
  BY DEF JobStatus
<1>3. SameJob(r, u) /\ u.attempts = r.attempts
  BY DEF Unlocked, JobRow
<1>4. ASSUME NEW w \in Worker, NEW t \in Nat
      PROVE  SameJob(r, Claimed(r, w, t)) /\ Claimed(r, w, t).locked_by = w
  <2>1. r.attempts + 1 \in Nat
    BY DEF JobRow
  <2>2. QED
    BY <1>1, <1>2, <2>1 DEF Claimed, JobRow
<1>5. r.attempts >= 1 => SameJob(r, Released(r)) /\ Released(r).status = "queued"
  <2>1. r.attempts >= 1 => u.attempts - 1 \in Nat
    BY <1>3 DEF JobRow
  <2>2. QED
    BY <1>2, <1>3, <2>1 DEF Released, JobRow
<1>6. SameJob(r, Succeeded(r)) /\ Succeeded(r).status = "succeeded"
  BY <1>2, <1>3 DEF Succeeded, JobRow
<1>7. ASSUME NEW n, NEW t \in Nat, NEW d \in Nat
      PROVE  SameJob(r, FailedOnce(r, n, t, d)) /\ FailedOnce(r, n, t, d).status # "running"
  <2>1. CASE WillRetry(r, n)
    BY <1>1, <1>2, <1>3, <2>1 DEF FailedOnce, JobRow
  <2>2. CASE ~WillRetry(r, n)
    BY <1>2, <1>3, <2>2 DEF FailedOnce, JobRow
  <2>3. QED
    BY <2>1, <2>2
<1>8. SameJob(r, Cancelled(r)) /\ Cancelled(r).status = "cancelled"
  BY <1>2 DEF Cancelled, JobRow
<1>9. ASSUME NEW t \in Nat
      PROVE  SameJob(r, Requeued(r, t)) /\ Requeued(r, t).status = "queued"
  BY <1>2, <1>3 DEF Requeued, JobRow
<1>10. ASSUME NEW t \in Nat
       PROVE  LET e == [r EXCEPT !.lease_expires_at = t + LeaseTTL]
              IN  SameJob(r, e) /\ e.status = r.status /\ e.locked_by = r.locked_by
  BY <1>1 DEF JobRow
<1> HIDE DEF SameJob
<1>11. QED
  BY <1>4, <1>5, <1>6, <1>7, <1>8, <1>9, <1>10

------------------------------------------------------------------------------
(* One job. *)

\* StaleSnapshotsAreFenced for job j.
FenceInv(j) ==
  \A s \in snapshots : s.job = j /\ Exists(j) =>
    \/ AttemptRecorded(j, s.attempts)
    \/ HoldsLock(s.worker, j) /\ jobs[j].attempts = s.attempts

\* AttemptHistory for job j: its rows, ...
RowsInv(j) ==
  \A a \in job_attempts : a.job = j =>
    /\ Exists(j)
    /\ \A b \in job_attempts :
         b.job = j /\ a.attempt_number = b.attempt_number => a = b
    /\ a.status = "succeeded" =>
         jobs[j].status = "succeeded" /\ a.attempt_number = jobs[j].attempts

\* ... and what they cover.
HistoryInv(j) ==
  Exists(j) =>
    /\ \A n \in 1..jobs[j].attempts :
         AttemptRecorded(j, n) \/ (n = jobs[j].attempts /\ jobs[j].status = "running")
    /\ jobs[j].status = "succeeded" =>
         Attempt(j, jobs[j].attempts, "succeeded") \in job_attempts
    /\ jobs[j].status = "dead_letter" =>
         Attempt(j, jobs[j].attempts, "failed") \in job_attempts

IssuedInv(j) ==
  j \notin issued => ~Exists(j) /\ \A s \in snapshots : s.job # j

JobInv(j) ==
  /\ Exists(j) => RowOK(jobs[j])
  /\ FenceInv(j)
  /\ RowsInv(j)
  /\ HistoryInv(j)
  /\ IssuedInv(j)

\* The part of TypeOK that is not about rows.
Types ==
  /\ jobs = [j \in Job |-> jobs[j]]
  /\ issued \subseteq Job
  /\ job_attempts \subseteq JobAttempt
  /\ snapshots \subseteq Snapshot
  /\ now \in Nat

AllJobs == \A j \in Job : JobInv(j)

\* The invariant is the invariant of every job.
LEMMA PerJob == IInv <=> Types /\ AllJobs
<1> USE DEF AllJobs
<1>1. ASSUME IInv PROVE Types /\ AllJobs
  <2>1. Types
    BY <1>1 DEF IInv, TypeOK, Types
  <2>2. ASSUME NEW j \in Job PROVE JobInv(j)
    <3>1. Exists(j) => RowOK(jobs[j])
      BY <1>1 DEF IInv, TypeOK, LockIffRunning, MarksMatchStatus, AttemptBudget,
                  RowOK, Exists
    <3>2. FenceInv(j)
      BY <1>1 DEF IInv, StaleSnapshotsAreFenced, FenceInv
    <3>3. RowsInv(j) /\ HistoryInv(j)
      BY <1>1 DEF IInv, AttemptHistory, RowsInv, HistoryInv
    <3>4. IssuedInv(j)
      BY <1>1 DEF IInv, IdsAreIssued, IssuedInv
    <3>5. QED
      BY <3>1, <3>2, <3>3, <3>4 DEF JobInv
  <2>3. QED
    BY <2>1, <2>2
<1>2. ASSUME Types, AllJobs PROVE IInv
  <2>1. \A j \in Job : Exists(j) => RowOK(jobs[j])
    BY <1>2 DEF JobInv
  <2>2. TypeOK
    <3>1. \A j \in Job : jobs[j] \in JobRow \cup {NULL}
      BY <2>1 DEF RowOK, Exists
    <3>2. QED
      BY <1>2, <3>1 DEF Types, TypeOK
  <2>3. LockIffRunning /\ MarksMatchStatus /\ AttemptBudget
    BY <2>1 DEF RowOK, LockIffRunning, MarksMatchStatus, AttemptBudget
  <2>4. \A s \in snapshots : s.job \in Job
    BY <1>2 DEF Types, Snapshot
  <2>5. \A a \in job_attempts : a.job \in Job
    BY <1>2 DEF Types, JobAttempt
  <2>6. StaleSnapshotsAreFenced
    BY <1>2, <2>4 DEF JobInv, FenceInv, StaleSnapshotsAreFenced
  <2>7. AttemptHistory
    BY <1>2, <2>5 DEF JobInv, RowsInv, HistoryInv, AttemptHistory
  <2>8. IdsAreIssued
    BY <1>2, <2>4 DEF JobInv, IssuedInv, IdsAreIssued
  <2>9. QED
    BY <2>2, <2>3, <2>6, <2>7, <2>8 DEF IInv
<1>3. QED
  BY <1>1, <1>2

\* Nothing of job j changes, except that snapshots of it may be lost.
Untouched(j) ==
  /\ jobs'[j] = jobs[j]
  /\ j \in issued' <=> j \in issued
  /\ \A a : a \in job_attempts' /\ a.job = j <=> a \in job_attempts /\ a.job = j
  /\ \A s \in snapshots' : s.job = j => s \in snapshots

\* A job that a step leaves alone keeps its invariant.
LEMMA Frame ==
  ASSUME NEW j \in Job, JobInv(j), Untouched(j)
  PROVE  JobInv(j)'
<1> USE DEF Untouched
<1>1. \A n : AttemptRecorded(j, n)' <=> AttemptRecorded(j, n)
  BY DEF AttemptRecorded
<1>2. Exists(j)' <=> Exists(j)
  BY DEF Exists
<1>3. (Exists(j) => RowOK(jobs[j]))'
  BY <1>2 DEF JobInv
<1>4. FenceInv(j)'
  BY <1>1, <1>2 DEF JobInv, FenceInv, HoldsLock, HasStatus
<1>5. RowsInv(j)'
  BY <1>2 DEF JobInv, RowsInv
<1>6. HistoryInv(j)'
  BY <1>1, <1>2 DEF JobInv, HistoryInv, Attempt
<1>7. IssuedInv(j)'
  BY <1>2 DEF JobInv, IssuedInv
<1>8. QED
  BY <1>3, <1>4, <1>5, <1>6, <1>7 DEF JobInv

\* A run of job j ends: its attempt is recorded as the row leaves "running".
RunEnds(j, result) ==
  /\ HasStatus(j, {"running"}) /\ ~AttemptRecorded(j, jobs[j].attempts)
  /\ \A a : a \in job_attempts' /\ a.job = j
            <=> (a \in job_attempts /\ a.job = j) \/ a = Attempt(j, jobs[j].attempts, result)
  /\ \A s \in snapshots' : s.job = j => s \in snapshots
  /\ issued' = issued
  /\ jobs'[j] # NULL /\ RowOK(jobs'[j]) /\ jobs'[j].status # "running"
  /\ jobs'[j].attempts \in {jobs[j].attempts, jobs[j].attempts - 1}
  /\ jobs'[j].status \in {"succeeded", "dead_letter"} =>
       jobs'[j].attempts = jobs[j].attempts
  /\ jobs'[j].status = "succeeded" <=> result = "succeeded"
  /\ jobs'[j].status = "dead_letter" => result = "failed"

\* Ending a run keeps the invariant of its job.
LEMMA RunEndsInv ==
  ASSUME NEW j \in Job, NEW result, Types, JobInv(j), RunEnds(j, result)
  PROVE  JobInv(j)'
<1>0. PICK n : n = jobs[j].attempts
  OBVIOUS
<1>1. Exists(j) /\ jobs[j].status = "running" /\ n \in Nat /\ Exists(j)'
  BY <1>0 DEF RunEnds, HasStatus, Exists, JobInv, RowOK, JobRow
<1>2. Attempt(j, n, result) \in job_attempts'
  BY <1>0 DEF RunEnds, Attempt
<1>3. AttemptRecorded(j, n)'
  BY <1>2 DEF AttemptRecorded, Attempt
<1>4. \A m : AttemptRecorded(j, m) => AttemptRecorded(j, m)'
  BY DEF RunEnds, AttemptRecorded
<1>5. FenceInv(j)'
  BY <1>0, <1>1, <1>3, <1>4 DEF RunEnds, JobInv, FenceInv
<1>6. RowsInv(j)'
  <2>1. \A a \in job_attempts : a.job = j => a.attempt_number # n
    BY <1>0 DEF RunEnds, AttemptRecorded
  <2>2. \A a \in job_attempts : a.job = j => a.status # "succeeded"
    BY <1>1 DEF JobInv, RowsInv
  <2>3. QED
    BY <1>0, <1>1, <2>1, <2>2 DEF RunEnds, JobInv, RowsInv, Attempt
<1>7. HistoryInv(j)'
  <2>1. \A m \in 1..n : AttemptRecorded(j, m)'
    BY <1>0, <1>1, <1>3, <1>4 DEF JobInv, HistoryInv
  <2>2. \A m \in 1..jobs'[j].attempts : m \in 1..n
    BY <1>0, <1>1 DEF RunEnds, RowOK, JobRow
  <2>3. QED
    BY <1>0, <1>1, <1>2, <2>1, <2>2 DEF RunEnds, HistoryInv
<1>8. IssuedInv(j)'
  BY <1>1 DEF RunEnds, JobInv, IssuedInv
<1>9. QED
  BY <1>5, <1>6, <1>7, <1>8 DEF JobInv, RunEnds

\* A job that is not running is cancelled or queued anew.
LEMMA IdleRowInv ==
  ASSUME NEW j \in Job, JobInv(j),
         Exists(j), jobs[j].status \notin {"running", "succeeded"},
         RowOK(jobs'[j]), jobs'[j].status \in {"queued", "cancelled"},
         jobs'[j].attempts <= jobs[j].attempts,
         UNCHANGED <<issued, job_attempts, snapshots>>
  PROVE  JobInv(j)'
<1>1. Exists(j)'
  BY NullIsDistinct DEF RowOK, Exists
<1>2. \A n : AttemptRecorded(j, n)' <=> AttemptRecorded(j, n)
  BY DEF AttemptRecorded
<1>3. FenceInv(j)'
  BY <1>2 DEF JobInv, FenceInv, HoldsLock, HasStatus
<1>4. RowsInv(j)'
  BY <1>1 DEF JobInv, RowsInv
<1>5. HistoryInv(j)'
  <2>1. \A n \in 1..jobs'[j].attempts : n \in 1..jobs[j].attempts
    BY DEF JobInv, RowOK, JobRow
  <2>2. QED
    BY <1>2, <2>1 DEF JobInv, HistoryInv
<1>6. IssuedInv(j)'
  BY DEF JobInv, IssuedInv
<1>7. QED
  BY <1>1, <1>3, <1>4, <1>5, <1>6 DEF JobInv

\* PerJob, after a step.
LEMMA PerJobPrime == (Types /\ AllJobs)' => IInv'
BY PerJob, PTL

\* now() of a transaction is a time.
LEMMA TxNowIsTime == ASSUME IInv PROVE TxNow \subseteq Nat
BY DEF IInv, TypeOK, TxNow

------------------------------------------------------------------------------
(* The API. *)

\* POST /jobs keeps the invariant: the id is fresh.
LEMMA CreateJobInv ==
  ASSUME IInv, NEW i \in Job, NEW q \in Queue, NEW k \in Key \cup {NULL},
         NEW n \in MaxRetries, NEW run_at \in RunAt \cup {NULL}, NEW t \in TxNow,
         CreateJob(i, q, k, n, run_at, t)
  PROVE  IInv'
<1> USE DEF CreateJob
<1>1. Types /\ \A j \in Job : JobInv(j)
  BY PerJob DEF AllJobs
<1>2. RowOK(NewJob(q, k, n, run_at, t)) /\ NewJob(q, k, n, run_at, t).attempts = 0
        /\ NewJob(q, k, n, run_at, t).status \in {"queued", "scheduled"}
  BY NewJobRow, TxNowIsTime, StoreAssumption DEF StoreAssumption
<1>3. Types'
  BY <1>1 DEF Types
<1>4. ASSUME NEW j \in Job, j # i PROVE JobInv(j)'
  BY <1>1, <1>4, Frame DEF Untouched, Types
<1>5. JobInv(i)'
  <2>1. jobs'[i] = NewJob(q, k, n, run_at, t)
    BY <1>1 DEF Types
  <2>2. /\ \A s \in snapshots : s.job # i
        /\ \A a \in job_attempts : a.job # i
    BY <1>1 DEF JobInv, IssuedInv, RowsInv
  <2>3. Exists(i)' /\ i \in issued'
    BY <1>2, <2>1, NullIsDistinct DEF Exists, RowOK
  <2>4. 1..jobs'[i].attempts = {}
    BY <1>2, <2>1
  <2>5. QED
    BY <1>2, <2>1, <2>2, <2>3, <2>4
    DEF JobInv, FenceInv, RowsInv, HistoryInv, IssuedInv
<1>6. QED
  BY <1>3, <1>4, <1>5, PerJobPrime DEF AllJobs

\* POST /jobs/{id}/cancel keeps the invariant.
LEMMA CancelJobInv ==
  ASSUME IInv, NEW i \in Job, CancelJob(i)
  PROVE  IInv'
<1> USE DEF CancelJob
<1>1. Types /\ \A j \in Job : JobInv(j)
  BY PerJob DEF AllJobs
<1>2. Types'
  BY <1>1 DEF Types
<1>3. ASSUME NEW j \in Job, j # i PROVE JobInv(j)'
  BY <1>1, <1>3, Frame DEF Untouched, Types
<1>4. Exists(i) /\ RowOK(jobs[i]) /\ jobs[i].status \in Cancellable
  BY <1>1 DEF HasStatus, JobInv
<1>5. jobs'[i] = Cancelled(jobs[i])
  BY <1>1 DEF Types
<1>6. JobInv(i)'
  BY <1>1, <1>4, <1>5, CancelledRow, IdleRowInv DEF Cancellable, RowOK, JobRow
<1>7. QED
  BY <1>2, <1>3, <1>6, PerJobPrime DEF AllJobs

\* Both retry endpoints.
LEMMA RequeueInv ==
  ASSUME IInv, NEW i \in Job, NEW t \in TxNow,
         RetryJob(i, t) \/ RetryDeadLetterJob(i, t)
  PROVE  IInv'
<1>1. Types /\ \A j \in Job : JobInv(j)
  BY PerJob DEF AllJobs
<1>2. /\ HasStatus(i, Retryable)
      /\ jobs' = [jobs EXCEPT ![i] = Requeued(@, t)]
      /\ UNCHANGED <<issued, job_attempts, snapshots, now>>
  BY DEF RetryJob, RetryDeadLetterJob, HasStatus, Retryable
<1>3. Types'
  BY <1>1, <1>2 DEF Types
<1>4. ASSUME NEW j \in Job, j # i PROVE JobInv(j)'
  BY <1>1, <1>2, <1>4, Frame DEF Untouched, Types
<1>5. Exists(i) /\ RowOK(jobs[i]) /\ jobs[i].status \in Retryable
  BY <1>1, <1>2 DEF HasStatus, JobInv
<1>6. jobs'[i] = Requeued(jobs[i], t)
  BY <1>1, <1>2 DEF Types
<1>7. RowOK(jobs'[i]) /\ jobs'[i].attempts = 0 /\ jobs'[i].status = "queued"
  BY <1>5, <1>6, TxNowIsTime, RequeuedRow
<1>8. jobs'[i].attempts <= jobs[i].attempts
  BY <1>5, <1>7 DEF RowOK, JobRow
<1>9. JobInv(i)'
  BY <1>1, <1>2, <1>5, <1>7, <1>8, IdleRowInv DEF Retryable
<1>10. QED
  BY <1>3, <1>4, <1>9, PerJobPrime DEF AllJobs

\* DELETE /dead-letter/{id} keeps the invariant: the rows go with the job.
LEMMA DeleteDeadLetterJobInv ==
  ASSUME IInv, NEW i \in Job, DeleteDeadLetterJob(i)
  PROVE  IInv'
<1> USE DEF DeleteDeadLetterJob, WithoutAttemptsOf
<1>1. Types /\ \A j \in Job : JobInv(j)
  BY PerJob DEF AllJobs
<1>2. Types'
  BY <1>1 DEF Types
<1>3. ASSUME NEW j \in Job, j # i PROVE JobInv(j)'
  BY <1>1, <1>3, Frame DEF Untouched, Types
<1>4. ~Exists(i)' /\ i \in issued /\ \A a \in job_attempts' : a.job # i
  BY <1>1 DEF Types, Exists, JobInv, IssuedInv, HasStatus
<1>5. JobInv(i)'
  BY <1>4 DEF JobInv, FenceInv, RowsInv, HistoryInv, IssuedInv
<1>6. QED
  BY <1>2, <1>3, <1>5, PerJobPrime DEF AllJobs

------------------------------------------------------------------------------
(* The worker. *)

\* A claim keeps the invariant: the new run has no row yet, every older one has.
LEMMA ClaimJobsInv ==
  ASSUME IInv, NEW w \in Worker, NEW S \in SUBSET Job, NEW t \in TxNow,
         ClaimJobs(w, S, t)
  PROVE  IInv'
<1> USE DEF ClaimJobs
<1>1. Types /\ \A j \in Job : JobInv(j)
  BY PerJob DEF AllJobs
<1>2. ASSUME NEW j \in S
      PROVE  /\ Exists(j) /\ RowOK(jobs[j])
             /\ jobs[j].status \in {"queued", "scheduled", "retrying"}
             /\ jobs[j].attempts + 1 \in Nat
  BY <1>1, <1>2 DEF Claimable, HasStatus, JobInv, RowOK, JobRow
<1>3. Types'
  <2>1. \A j \in S : [worker |-> w, job |-> j, attempts |-> jobs[j].attempts + 1]
                       \in Snapshot
    BY <1>2 DEF Snapshot
  <2>2. snapshots' \subseteq Snapshot
    BY <1>1, <2>1 DEF Types
  <2>3. QED
    BY <1>1, <2>2 DEF Types
<1>4. ASSUME NEW j \in Job, j \notin S PROVE JobInv(j)'
  BY <1>1, <1>4, Frame DEF Untouched, Types
<1>5. ASSUME NEW j \in S PROVE JobInv(j)'
  <2>0. PICK n : n = jobs[j].attempts
    OBVIOUS
  <2>1. jobs'[j] = Claimed(jobs[j], w, t)
    BY <1>5
  <2>2. /\ RowOK(jobs'[j]) /\ jobs'[j].attempts = n + 1
        /\ jobs'[j].status = "running" /\ jobs'[j].locked_by = w
    BY <1>2, <2>0, <2>1, ClaimedRow, TxNowIsTime
  <2>3. Exists(j)' /\ HoldsLock(w, j)' /\ n \in Nat
    BY <1>2, <2>0, <2>2, NullIsDistinct DEF RowOK, JobRow, Exists, HoldsLock, HasStatus
  <2>4. \A m : AttemptRecorded(j, m)' <=> AttemptRecorded(j, m)
    BY DEF AttemptRecorded
  <2>5. FenceInv(j)'
    <3>1. \A s \in snapshots : s.job = j => AttemptRecorded(j, s.attempts)
      BY <1>1, <1>2 DEF JobInv, FenceInv, HoldsLock, HasStatus
    <3>2. \A s \in snapshots' : s.job = j =>
            s \in snapshots \/ (s.worker = w /\ s.attempts = n + 1)
      BY <2>0
    <3>3. QED
      BY <2>2, <2>3, <2>4, <3>1, <3>2 DEF FenceInv
  <2>6. RowsInv(j)'
    BY <1>1, <1>2, <2>3 DEF JobInv, RowsInv
  <2>7. HistoryInv(j)'
    <3>1. \A m \in 1..n : AttemptRecorded(j, m)
      BY <1>1, <1>2, <2>0 DEF JobInv, HistoryInv
    <3>2. \A m \in 1..(n + 1) : m \in 1..n \/ m = n + 1
      BY <2>3
    <3>3. QED
      BY <2>2, <2>3, <2>4, <3>1, <3>2 DEF HistoryInv
  <2>8. IssuedInv(j)'
    BY <1>1, <1>2 DEF JobInv, IssuedInv
  <2>9. QED
    BY <2>2, <2>5, <2>6, <2>7, <2>8 DEF JobInv
<1>6. QED
  BY <1>3, <1>4, <1>5, PerJobPrime DEF AllJobs

\* extend_lease keeps the invariant.
LEMMA ExtendLeaseInv ==
  ASSUME IInv, NEW w \in Worker, NEW i \in Job, NEW t \in TxNow,
         ExtendLease(w, i, t)
  PROVE  IInv'
<1> USE DEF ExtendLease
<1>1. Types /\ \A j \in Job : JobInv(j)
  BY PerJob DEF AllJobs
<1>2. Types'
  BY <1>1 DEF Types
<1>3. ASSUME NEW j \in Job, j # i PROVE JobInv(j)'
  BY <1>1, <1>3, Frame DEF Untouched, Types
<1>4. Exists(i) /\ RowOK(jobs[i]) /\ jobs[i].status = "running"
  BY <1>1 DEF HoldsLock, HasStatus, JobInv
<1>5. jobs'[i] = [jobs[i] EXCEPT !.lease_expires_at = t + LeaseTTL]
  BY <1>1 DEF Types
<1>6. /\ RowOK(jobs'[i]) /\ jobs'[i].attempts = jobs[i].attempts
      /\ jobs'[i].status = jobs[i].status /\ jobs'[i].locked_by = jobs[i].locked_by
  BY <1>4, <1>5, ExtendedRow, TxNowIsTime
<1>7. Exists(i)'
  BY <1>6, NullIsDistinct DEF RowOK, Exists
<1>8. \A m : AttemptRecorded(i, m)' <=> AttemptRecorded(i, m)
  BY DEF AttemptRecorded
<1>9. FenceInv(i)'
  BY <1>1, <1>4, <1>6, <1>7, <1>8 DEF JobInv, FenceInv, HoldsLock, HasStatus
<1>10. RowsInv(i)'
  BY <1>1, <1>6, <1>7 DEF JobInv, RowsInv
<1>11. HistoryInv(i)'
  BY <1>1, <1>4, <1>6, <1>8 DEF JobInv, HistoryInv
<1>12. IssuedInv(i)'
  BY <1>1, <1>4 DEF JobInv, IssuedInv
<1>13. JobInv(i)'
  BY <1>6, <1>9, <1>10, <1>11, <1>12 DEF JobInv
<1>14. QED
  BY <1>2, <1>3, <1>13, PerJobPrime DEF AllJobs

\* reap_expired_jobs keeps the invariant, for every batch.
LEMMA ReapExpiredJobsInv ==
  ASSUME IInv, NEW S \in SUBSET Job, NEW delay \in [S -> 0..RetryMax],
         NEW t \in TxNow, ReapExpiredJobs(S, delay, t)
  PROVE  IInv'
<1> USE DEF ReapExpiredJobs
<1>1. Types /\ \A j \in Job : JobInv(j)
  BY PerJob DEF AllJobs
<1>2. ASSUME NEW j \in S
      PROVE  Exists(j) /\ RowOK(jobs[j]) /\ jobs[j].status = "running"
             /\ jobs[j].attempts \in Nat
  BY <1>1, <1>2 DEF Expired, HasStatus, JobInv, RowOK, JobRow
<1>3. Types'
  <2>1. \A j \in S : Attempt(j, jobs[j].attempts, "failed") \in JobAttempt
    BY <1>2 DEF Attempt, JobAttempt
  <2>2. QED
    BY <1>1, <2>1 DEF Types
<1>4. ASSUME NEW j \in Job, j \notin S PROVE JobInv(j)'
  <2>1. jobs'[j] = jobs[j]
    BY <1>4
  <2>2. \A a : a \in job_attempts' /\ a.job = j <=> a \in job_attempts /\ a.job = j
    BY <1>4 DEF Attempt
  <2>3. QED
    BY <1>1, <2>1, <2>2, Frame DEF Untouched
<1>5. ASSUME NEW j \in S PROVE JobInv(j)'
  <2>1. jobs'[j] = FailedOnce(jobs[j], jobs[j].attempts, t, delay[j])
    BY <1>5
  <2>2. t \in Nat /\ delay[j] \in Nat
    BY <1>5, TxNowIsTime, BackoffAssumption DEF BackoffAssumption
  <2>3. /\ RowOK(jobs'[j]) /\ jobs'[j].attempts = jobs[j].attempts
        /\ jobs'[j].status \in {"retrying", "dead_letter"}
    BY <1>2, <2>1, <2>2, FailedOnceRow
  <2>4. \A a : a \in job_attempts' /\ a.job = j
              <=> (a \in job_attempts /\ a.job = j) \/ a = Attempt(j, jobs[j].attempts, "failed")
    BY <1>5 DEF Attempt
  <2>5. RunEnds(j, "failed")
    BY <1>2, <2>3, <2>4, NullIsDistinct DEF RunEnds, HasStatus, RowOK
  <2>6. QED
    BY <1>1, <2>5, RunEndsInv
<1>6. QED
  BY <1>3, <1>4, <1>5, PerJobPrime DEF AllJobs

\* release_in_flight_jobs keeps the invariant.
LEMMA ReleaseInFlightJobsInv ==
  ASSUME IInv, NEW w \in Worker, ReleaseInFlightJobs(w)
  PROVE  IInv'
<1> DEFINE S == InFlight(w)
<1> USE DEF ReleaseInFlightJobs
<1>1. Types /\ \A j \in Job : JobInv(j)
  BY PerJob DEF AllJobs
<1>2. ASSUME NEW j \in S
      PROVE  j \in Job /\ Exists(j) /\ RowOK(jobs[j]) /\ jobs[j].status = "running"
             /\ jobs[j].attempts \in Nat
  BY <1>1, <1>2 DEF InFlight, HoldsLock, HasStatus, JobInv, RowOK, JobRow
<1>3. Types'
  <2>1. \A j \in S : Attempt(j, jobs[j].attempts, "cancelled") \in JobAttempt
    BY <1>2 DEF Attempt, JobAttempt
  <2>2. QED
    BY <1>1, <2>1 DEF Types
<1>4. ASSUME NEW j \in Job, j \notin S PROVE JobInv(j)'
  <2>1. jobs'[j] = jobs[j]
    BY <1>4
  <2>2. \A a : a \in job_attempts' /\ a.job = j <=> a \in job_attempts /\ a.job = j
    BY <1>4 DEF Attempt
  <2>3. QED
    BY <1>1, <2>1, <2>2, Frame DEF Untouched
<1>5. ASSUME NEW j \in S PROVE JobInv(j)'
  <2>1. j \in Job /\ jobs'[j] = Released(jobs[j])
    BY <1>2, <1>5
  <2>2. /\ RowOK(jobs'[j]) /\ jobs'[j].attempts = jobs[j].attempts - 1
        /\ jobs'[j].status = "queued"
    BY <1>2, <2>1, ReleasedRow
  <2>3. \A a : a \in job_attempts' /\ a.job = j
              <=> (a \in job_attempts /\ a.job = j)
                  \/ a = Attempt(j, jobs[j].attempts, "cancelled")
    BY <1>5 DEF Attempt
  <2>4. RunEnds(j, "cancelled")
    BY <1>2, <2>2, <2>3, NullIsDistinct DEF RunEnds, HasStatus, RowOK
  <2>5. QED
    BY <1>1, <2>1, <2>4, RunEndsInv
<1>6. QED
  BY <1>3, <1>4, <1>5, PerJobPrime DEF AllJobs

\* The fence at work: an UPDATE that still finds the worker's lock, and whose
\* row in job_attempts is accepted, is about the very run in progress.
LEMMA OutcomeIsCurrent ==
  ASSUME IInv, NEW s \in snapshots, StillLocked(s), ~AttemptRecorded(s.job, s.attempts)
  PROVE  /\ s.job \in Job /\ s.worker \in Worker
         /\ HasStatus(s.job, {"running"}) /\ RowOK(jobs[s.job])
         /\ jobs[s.job].attempts = s.attempts /\ jobs[s.job].attempts \in Nat
         /\ s = [worker |-> jobs[s.job].locked_by, job |-> s.job,
                 attempts |-> jobs[s.job].attempts]
<1>1. Types /\ \A j \in Job : JobInv(j)
  BY PerJob DEF AllJobs
<1>2. s \in Snapshot /\ s.job \in Job /\ s.worker \in Worker
  BY <1>1 DEF Types, Snapshot
<1>3. Exists(s.job) /\ RowOK(jobs[s.job]) /\ jobs[s.job].locked_by = s.worker
  BY <1>1, <1>2 DEF StillLocked, JobInv
<1>4. jobs[s.job].attempts = s.attempts /\ HasStatus(s.job, {"running"})
  BY <1>1, <1>2, <1>3 DEF JobInv, FenceInv, HoldsLock
<1>5. s = [worker |-> s.worker, job |-> s.job, attempts |-> s.attempts]
  BY <1>2 DEF Snapshot
<1>6. QED
  BY <1>2, <1>3, <1>4, <1>5 DEF RowOK, JobRow

\* What mark_job_succeeded and mark_job_failed share.
LEMMA OutcomeInv ==
  ASSUME IInv, NEW s \in snapshots, StillLocked(s), ~AttemptRecorded(s.job, s.attempts),
         NEW r, NEW result \in {"succeeded", "failed"},
         RowOK(r), r.attempts = s.attempts,
         r.status \in {"succeeded", "retrying", "dead_letter"},
         r.status = "succeeded" <=> result = "succeeded",
         jobs' = [jobs EXCEPT ![s.job] = r],
         job_attempts' = job_attempts \cup {Attempt(s.job, s.attempts, result)},
         snapshots' = snapshots \ {s},
         UNCHANGED <<issued, now>>
  PROVE  IInv'
<1> DEFINE i == s.job
<1>1. Types /\ \A j \in Job : JobInv(j)
  BY PerJob DEF AllJobs
<1>2. /\ i \in Job /\ HasStatus(i, {"running"}) /\ RowOK(jobs[i])
      /\ jobs[i].attempts = s.attempts /\ s.attempts \in Nat
  BY OutcomeIsCurrent
<1>3. Types'
  <2>1. Attempt(i, s.attempts, result) \in JobAttempt
    BY <1>2 DEF Attempt, JobAttempt
  <2>2. jobs' = [j \in Job |-> jobs'[j]]
    BY <1>1 DEF Types
  <2>3. QED
    BY <1>1, <2>1, <2>2 DEF Types
<1>4. ASSUME NEW j \in Job, j # i PROVE JobInv(j)'
  <2>1. jobs'[j] = jobs[j]
    BY <1>1, <1>4 DEF Types
  <2>2. \A a : a \in job_attempts' /\ a.job = j <=> a \in job_attempts /\ a.job = j
    BY <1>4 DEF Attempt
  <2>3. QED
    BY <1>1, <1>4, <2>1, <2>2, Frame DEF Untouched
<1>5. JobInv(i)'
  <2>1. jobs'[i] = r /\ jobs'[i] # NULL
    BY <1>1, <1>2, NullIsDistinct DEF Types, RowOK
  <2>2. \A a : a \in job_attempts' /\ a.job = i
              <=> (a \in job_attempts /\ a.job = i) \/ a = Attempt(i, jobs[i].attempts, result)
    BY <1>2 DEF Attempt
  <2>3. RunEnds(i, result)
    BY <1>2, <2>1, <2>2 DEF RunEnds
  <2>4. QED
    BY <1>1, <1>2, <2>3, RunEndsInv
<1>6. QED
  BY <1>3, <1>4, <1>5, PerJobPrime DEF AllJobs

\* Snapshots may be dropped and the clock may advance at any time.
LEMMA DropInv ==
  ASSUME IInv, snapshots' \subseteq snapshots, now' \in Nat,
         UNCHANGED <<jobs, issued, job_attempts>>
  PROVE  IInv'
<1>1. Types /\ \A j \in Job : JobInv(j)
  BY PerJob DEF AllJobs
<1>2. Types'
  BY <1>1 DEF Types
<1>3. \A j \in Job : JobInv(j)'
  BY <1>1, Frame DEF Untouched
<1>4. QED
  BY <1>2, <1>3, PerJobPrime DEF AllJobs

\* mark_job_succeeded keeps the invariant.
LEMMA MarkJobSucceededInv ==
  ASSUME IInv, NEW s \in snapshots, MarkJobSucceeded(s)
  PROVE  IInv'
<1> USE DEF MarkJobSucceeded
<1>1. CASE StillLocked(s)
  <2>1. /\ s.job \in Job /\ RowOK(jobs[s.job]) /\ jobs[s.job].status = "running"
        /\ jobs[s.job].attempts = s.attempts
    BY <1>1, OutcomeIsCurrent DEF HasStatus
  <2>2. /\ RowOK(Succeeded(jobs[s.job])) /\ Succeeded(jobs[s.job]).attempts = s.attempts
        /\ Succeeded(jobs[s.job]).status = "succeeded"
    BY <2>1, SucceededRow
  <2>3. QED
    BY <1>1, <2>2, OutcomeInv
<1>2. CASE ~StillLocked(s)
  BY <1>2, DropInv DEF IInv, TypeOK
<1>3. QED
  BY <1>1, <1>2

\* mark_job_failed keeps the invariant.
LEMMA MarkJobFailedInv ==
  ASSUME IInv, NEW s \in snapshots, NEW t \in TxNow, NEW delay \in 0..RetryMax,
         MarkJobFailed(s, delay, t)
  PROVE  IInv'
<1> USE DEF MarkJobFailed
<1>1. CASE StillLocked(s)
  <2> DEFINE r == FailedOnce(jobs[s.job], s.attempts, t, delay)
  <2>1. /\ s.job \in Job /\ RowOK(jobs[s.job]) /\ jobs[s.job].status = "running"
        /\ jobs[s.job].attempts = s.attempts
    BY <1>1, OutcomeIsCurrent DEF HasStatus
  <2>2. t \in Nat /\ delay \in Nat
    BY TxNowIsTime, BackoffAssumption DEF BackoffAssumption
  <2>3. RowOK(r) /\ r.attempts = s.attempts /\ r.status \in {"retrying", "dead_letter"}
    BY <2>1, <2>2, FailedOnceRow
  <2>4. jobs' = [jobs EXCEPT ![s.job] = r]
    BY <1>1
  <2> HIDE DEF r
  <2>5. QED
    BY <1>1, <2>3, <2>4, OutcomeInv
<1>2. CASE ~StillLocked(s)
  BY <1>2, DropInv DEF IInv, TypeOK
<1>3. QED
  BY <1>1, <1>2

------------------------------------------------------------------------------
(* The invariant. *)

\* Empty tables satisfy the invariant.
LEMMA InitInv == Init => IInv
BY DEF Init, IInv, TypeOK, LockIffRunning, MarksMatchStatus, AttemptBudget,
       StaleSnapshotsAreFenced, AttemptHistory, IdsAreIssued, Exists

\* Every step keeps the invariant.
LEMMA NextInv == IInv /\ [Next]_vars => IInv'
<1> SUFFICES ASSUME IInv, [Next]_vars PROVE IInv'
  OBVIOUS
<1>1. CASE ApiNext
  <2> SUFFICES ASSUME NEW j \in Job,
                      \/ \E q \in Queue, k \in Key \cup {NULL}, retries \in MaxRetries,
                            run_at \in RunAt \cup {NULL}, t \in TxNow :
                           CreateJob(j, q, k, retries, run_at, t)
                      \/ CancelJob(j)
                      \/ \E t \in TxNow : RetryJob(j, t) \/ RetryDeadLetterJob(j, t)
                      \/ DeleteDeadLetterJob(j)
               PROVE IInv'
    BY <1>1 DEF ApiNext
  <2>1. QED
    BY CreateJobInv, CancelJobInv, RequeueInv, DeleteDeadLetterJobInv
<1>2. CASE WorkerNext
  <2>1. CASE \E w \in Worker, S \in SUBSET Job, t \in TxNow : ClaimJobs(w, S, t)
    BY <2>1, ClaimJobsInv
  <2>2. CASE \E w \in Worker, j \in Job, t \in TxNow : ExtendLease(w, j, t)
    BY <2>2, ExtendLeaseInv
  <2>3. CASE \E w \in Worker : ReleaseInFlightJobs(w)
    BY <2>3, ReleaseInFlightJobsInv
  <2>4. CASE \E S \in SUBSET snapshots : LoseSnapshots(S)
    BY <2>4, DropInv DEF LoseSnapshots, IInv, TypeOK
  <2>5. CASE \E t \in TxNow, S \in SUBSET Job :
               \E delay \in [S -> 0..RetryMax] : ReapExpiredJobs(S, delay, t)
    BY <2>5, ReapExpiredJobsInv
  <2>6. CASE \E s \in snapshots : MarkJobSucceeded(s)
    BY <2>6, MarkJobSucceededInv
  <2>7. CASE \E s \in snapshots, t \in TxNow, delay \in 0..RetryMax :
               MarkJobFailed(s, delay, t)
    BY <2>7, MarkJobFailedInv
  <2>8. QED
    BY <1>2, <2>1, <2>2, <2>3, <2>4, <2>5, <2>6, <2>7 DEF WorkerNext
<1>3. CASE Tick
  BY <1>3, DropInv DEF Tick, IInv, TypeOK
<1>4. CASE UNCHANGED vars
  BY <1>4, DropInv DEF vars, IInv, TypeOK
<1>5. QED
  BY <1>1, <1>2, <1>3, <1>4 DEF Next

\* IInv holds in every reachable state.
THEOREM Invariance == Spec => []IInv
BY InitInv, NextInv, PTL DEF Spec

\* Every row and every column keeps its type; attempts never go below zero.
THEOREM TypeCorrectness == Spec => []TypeOK
<1>1. IInv => TypeOK
  BY DEF IInv
<1>2. QED
  BY <1>1, Invariance, PTL

\* The lock columns are set exactly on running rows.
THEOREM LocksAreExact == Spec => []LockIffRunning
<1>1. IInv => LockIffRunning
  BY DEF IInv
<1>2. QED
  BY <1>1, Invariance, PTL

\* The finish marks always agree with the status.
THEOREM MarksAreExact == Spec => []MarksMatchStatus
<1>1. IInv => MarksMatchStatus
  BY DEF IInv
<1>2. QED
  BY <1>1, Invariance, PTL

\* Whatever mix of failures, expiries and releases a job goes through, it is
\* run at most max(1, max_retries) times between two manual retries.
THEOREM BudgetIsKept == Spec => []AttemptBudget
<1>1. IInv => AttemptBudget
  BY DEF IInv
<1>2. QED
  BY <1>1, Invariance, PTL

\* Every snapshot a worker may still report on is the run in progress or is
\* refused by the unique constraint, although mark_job_* compare no attempts.
THEOREM OutcomesAreFenced == Spec => []StaleSnapshotsAreFenced
<1>1. IInv => StaleSnapshotsAreFenced
  BY DEF IInv
<1>2. QED
  BY <1>1, Invariance, PTL

\* The attempt rows of a job are complete, unique, and agree with its status.
THEOREM HistoryIsComplete == Spec => []AttemptHistory
<1>1. IInv => AttemptHistory
  BY DEF IInv
<1>2. QED
  BY <1>1, Invariance, PTL
------------------------------------------------------------------------------
(* What a step may do to one row. *)

Created(j) ==
  /\ j \notin issued /\ j \in issued'
  /\ \E q \in Queue, k \in Key \cup {NULL}, n \in MaxRetries,
        run_at \in RunAt \cup {NULL}, t \in TxNow :
       jobs'[j] = NewJob(q, k, n, run_at, t)

Withdrawn(j) == HasStatus(j, Cancellable) /\ jobs'[j] = Cancelled(jobs[j])

Rearmed(j) ==
  HasStatus(j, Retryable) /\ \E t \in TxNow : jobs'[j] = Requeued(jobs[j], t)

Deleted(j) ==
  HasStatus(j, {"dead_letter"}) /\ jobs'[j] = NULL /\ issued' = issued

Started(j) ==
  /\ HasStatus(j, {"queued", "scheduled", "retrying"})
  /\ \E w \in Worker, t \in TxNow : jobs'[j] = Claimed(jobs[j], w, t)

Extended(j) ==
  /\ HasStatus(j, {"running"})
  /\ \E t \in TxNow : /\ jobs[j].lease_expires_at > t
                      /\ jobs'[j] = [jobs[j] EXCEPT !.lease_expires_at = t + LeaseTTL]

Failed(j) == \E t \in TxNow, d \in Nat :
               jobs'[j] = FailedOnce(jobs[j], jobs[j].attempts, t, d)

Reaped(j) ==
  /\ HasStatus(j, {"running"}) /\ ~AttemptRecorded(j, jobs[j].attempts)
  /\ \E t \in TxNow : jobs[j].lease_expires_at < t
  /\ Failed(j)

GivenBack(j) ==
  /\ HasStatus(j, {"running"}) /\ ~AttemptRecorded(j, jobs[j].attempts)
  /\ jobs'[j] = Released(jobs[j])
  /\ Attempt(j, jobs[j].attempts, "cancelled") \in job_attempts'

Reported(j) ==
  /\ HasStatus(j, {"running"}) /\ ~AttemptRecorded(j, jobs[j].attempts)
  /\ jobs'[j] = Succeeded(jobs[j]) \/ Failed(j)
  /\ [worker |-> jobs[j].locked_by, job |-> j, attempts |-> jobs[j].attempts]
       \in snapshots \ snapshots'

RowStep(j) ==
  \/ Created(j) \/ Withdrawn(j) \/ Rearmed(j) \/ Deleted(j)
  \/ Started(j) \/ Extended(j) \/ Reaped(j) \/ GivenBack(j) \/ Reported(j)

RowUnchanged(j) == jobs'[j] = jobs[j] /\ (j \in issued' <=> j \in issued)

\* A step leaves a row alone or does one of these nine things to it.
LEMMA RowSteps ==
  ASSUME IInv, [Next]_vars, NEW j \in Job
  PROVE  RowUnchanged(j) \/ RowStep(j)
<1>1. Types
  BY PerJob
<1>2. ASSUME NEW i \in Job, NEW q \in Queue, NEW k \in Key \cup {NULL},
             NEW n \in MaxRetries, NEW run_at \in RunAt \cup {NULL}, NEW t \in TxNow,
             CreateJob(i, q, k, n, run_at, t)
      PROVE  RowUnchanged(j) \/ Created(j)
  BY <1>1, <1>2 DEF Types, CreateJob, RowUnchanged, Created
<1>3. ASSUME NEW i \in Job, CancelJob(i)
      PROVE  RowUnchanged(j) \/ Withdrawn(j)
  BY <1>1, <1>3 DEF Types, CancelJob, RowUnchanged, Withdrawn
<1>4. ASSUME NEW i \in Job, NEW t \in TxNow, RetryJob(i, t) \/ RetryDeadLetterJob(i, t)
      PROVE  RowUnchanged(j) \/ Rearmed(j)
  BY <1>1, <1>4 DEF Types, RetryJob, RetryDeadLetterJob, HasStatus, Retryable,
                    RowUnchanged, Rearmed
<1>5. ASSUME NEW i \in Job, DeleteDeadLetterJob(i)
      PROVE  RowUnchanged(j) \/ Deleted(j)
  BY <1>1, <1>5 DEF Types, DeleteDeadLetterJob, RowUnchanged, Deleted
<1>6. ASSUME NEW w \in Worker, NEW S \in SUBSET Job, NEW t \in TxNow, ClaimJobs(w, S, t)
      PROVE  RowUnchanged(j) \/ Started(j)
  BY <1>6 DEF ClaimJobs, Claimable, RowUnchanged, Started, HasStatus
<1>7. ASSUME NEW w \in Worker, NEW i \in Job, NEW t \in TxNow, ExtendLease(w, i, t)
      PROVE  RowUnchanged(j) \/ Extended(j)
  BY <1>1, <1>7 DEF Types, ExtendLease, HoldsLock, RowUnchanged, Extended
<1>8. ASSUME NEW w \in Worker, ReleaseInFlightJobs(w)
      PROVE  RowUnchanged(j) \/ GivenBack(j)
  BY <1>8 DEF ReleaseInFlightJobs, InFlight, HoldsLock, RowUnchanged, GivenBack
<1>9. ASSUME NEW t \in TxNow, NEW S \in SUBSET Job, NEW delay \in [S -> 0..RetryMax],
             ReapExpiredJobs(S, delay, t)
      PROVE  RowUnchanged(j) \/ Reaped(j)
  <2>1. CASE j \notin S
    BY <1>9, <2>1 DEF ReapExpiredJobs, RowUnchanged
  <2>2. CASE j \in S
    <3>1. /\ HasStatus(j, {"running"}) /\ ~AttemptRecorded(j, jobs[j].attempts)
          /\ jobs[j].lease_expires_at < t
          /\ jobs'[j] = FailedOnce(jobs[j], jobs[j].attempts, t, delay[j])
      BY <1>9, <2>2 DEF ReapExpiredJobs, Expired
    <3>2. delay[j] \in Nat
      BY <2>2, BackoffAssumption DEF BackoffAssumption
    <3>3. QED
      BY <3>1, <3>2 DEF Reaped, Failed
  <2>3. QED
    BY <2>1, <2>2
<1>10. ASSUME NEW s \in snapshots, MarkJobSucceeded(s)
       PROVE  RowUnchanged(j) \/ Reported(j)
  <2>1. CASE StillLocked(s) /\ s.job = j
    <3>1. /\ HasStatus(j, {"running"}) /\ ~AttemptRecorded(j, jobs[j].attempts)
          /\ s = [worker |-> jobs[j].locked_by, job |-> j, attempts |-> jobs[j].attempts]
      BY <1>10, <2>1, OutcomeIsCurrent DEF MarkJobSucceeded
    <3>2. jobs'[j] = Succeeded(jobs[j]) /\ s \in snapshots \ snapshots'
      BY <1>1, <1>10, <2>1 DEF Types, MarkJobSucceeded
    <3>3. QED
      BY <3>1, <3>2 DEF Reported
  <2>2. CASE ~(StillLocked(s) /\ s.job = j)
    BY <1>1, <1>10, <2>2 DEF Types, MarkJobSucceeded, RowUnchanged
  <2>3. QED
    BY <2>1, <2>2
<1>11. ASSUME NEW s \in snapshots, NEW t \in TxNow, NEW delay \in 0..RetryMax,
              MarkJobFailed(s, delay, t)
       PROVE  RowUnchanged(j) \/ Reported(j)
  <2>1. CASE StillLocked(s) /\ s.job = j
    <3>1. /\ HasStatus(j, {"running"}) /\ ~AttemptRecorded(j, jobs[j].attempts)
          /\ s = [worker |-> jobs[j].locked_by, job |-> j, attempts |-> jobs[j].attempts]
          /\ jobs[j].attempts = s.attempts
      BY <1>11, <2>1, OutcomeIsCurrent DEF MarkJobFailed
    <3>2. /\ jobs'[j] = FailedOnce(jobs[j], s.attempts, t, delay)
          /\ s \in snapshots \ snapshots'
      BY <1>1, <1>11, <2>1 DEF Types, MarkJobFailed
    <3>3. delay \in Nat
      BY BackoffAssumption DEF BackoffAssumption
    <3>4. QED
      BY <3>1, <3>2, <3>3 DEF Reported, Failed
  <2>2. CASE ~(StillLocked(s) /\ s.job = j)
    BY <1>1, <1>11, <2>2 DEF Types, MarkJobFailed, RowUnchanged
  <2>3. QED
    BY <2>1, <2>2
<1>12. CASE (\E S \in SUBSET snapshots : LoseSnapshots(S)) \/ Tick \/ UNCHANGED vars
  BY <1>12 DEF LoseSnapshots, Tick, vars, RowUnchanged
<1>13. CASE ApiNext
  BY <1>2, <1>3, <1>4, <1>5, <1>13 DEF ApiNext, RowStep
<1>14. CASE WorkerNext
  <2>1. CASE \E w \in Worker, S \in SUBSET Job, t \in TxNow : ClaimJobs(w, S, t)
    BY <1>6, <2>1 DEF RowStep
  <2>2. CASE \E w \in Worker, i \in Job, t \in TxNow : ExtendLease(w, i, t)
    BY <1>7, <2>2 DEF RowStep
  <2>3. CASE \E w \in Worker : ReleaseInFlightJobs(w)
    BY <1>8, <2>3 DEF RowStep
  <2>4. CASE \E S \in SUBSET snapshots : LoseSnapshots(S)
    BY <1>12, <2>4
  <2>5. CASE \E t \in TxNow, S \in SUBSET Job :
               \E delay \in [S -> 0..RetryMax] : ReapExpiredJobs(S, delay, t)
    BY <1>9, <2>5 DEF RowStep
  <2>6. CASE \E s \in snapshots : MarkJobSucceeded(s)
    BY <1>10, <2>6 DEF RowStep
  <2>7. CASE \E s \in snapshots, t \in TxNow, delay \in 0..RetryMax :
               MarkJobFailed(s, delay, t)
    BY <1>11, <2>7 DEF RowStep
  <2>8. QED
    BY <1>14, <2>1, <2>2, <2>3, <2>4, <2>5, <2>6, <2>7 DEF WorkerNext
<1>15. QED
  BY <1>12, <1>13, <1>14 DEF Next

\* A recorded attempt stays on record unless its dead letter is deleted.
LEMMA RecordsKept ==
  ASSUME IInv, [Next]_vars, NEW a \in job_attempts
  PROVE  \/ a \in job_attempts'
         \/ HasStatus(a.job, {"dead_letter"}) /\ jobs'[a.job] = NULL
<1> jobs = [j \in Job |-> jobs[j]]
  BY DEF IInv, TypeOK
<1>1. CASE ApiNext
  BY <1>1 DEF ApiNext, CreateJob, CancelJob, RetryJob, RetryDeadLetterJob,
              DeleteDeadLetterJob, WithoutAttemptsOf
<1>2. CASE WorkerNext
  <2>1. CASE \E w \in Worker, S \in SUBSET Job, t \in TxNow : ClaimJobs(w, S, t)
    BY <2>1 DEF ClaimJobs
  <2>2. CASE \E w \in Worker, i \in Job, t \in TxNow : ExtendLease(w, i, t)
    BY <2>2 DEF ExtendLease
  <2>3. CASE \E w \in Worker : ReleaseInFlightJobs(w)
    BY <2>3 DEF ReleaseInFlightJobs
  <2>4. CASE \E S \in SUBSET snapshots : LoseSnapshots(S)
    BY <2>4 DEF LoseSnapshots
  <2>5. CASE \E t \in TxNow, S \in SUBSET Job :
               \E delay \in [S -> 0..RetryMax] : ReapExpiredJobs(S, delay, t)
    BY <2>5 DEF ReapExpiredJobs
  <2>6. CASE \E s \in snapshots : MarkJobSucceeded(s)
    BY <2>6 DEF MarkJobSucceeded
  <2>7. CASE \E s \in snapshots, t \in TxNow, delay \in 0..RetryMax :
               MarkJobFailed(s, delay, t)
    BY <2>7 DEF MarkJobFailed
  <2>8. QED
    BY <1>2, <2>1, <2>2, <2>3, <2>4, <2>5, <2>6, <2>7 DEF WorkerNext
<1>3. CASE Tick \/ UNCHANGED vars
  BY <1>3 DEF Tick, vars
<1>4. QED
  BY <1>1, <1>2, <1>3 DEF Next

\* A job keeps its queue and its key; an id never gets a second row.
LEMMA JobIsKept ==
  ASSUME IInv, [Next]_vars, NEW j \in Job
  PROVE  /\ j \in issued => j \in issued'
         /\ Exists(j) /\ Exists(j)' => SameJob(jobs[j], jobs'[j])
         /\ j \in issued /\ ~Exists(j) => ~Exists(j)'
<1> DEFINE r == jobs[j]
<1>1. IInv'
  BY NextInv
<1>2. Exists(j) => RowOK(r) /\ r \in JobRow /\ j \in issued
  BY PerJob DEF AllJobs, JobInv, IssuedInv, RowOK
<1>3. TxNow \subseteq Nat
  BY TxNowIsTime
<1>4. CASE RowUnchanged(j)
  BY <1>2, <1>4 DEF RowUnchanged, Exists, SameJob
<1>5. CASE Created(j)
  BY <1>2, <1>5 DEF Created
<1>6. ASSUME Exists(j), SameJob(r, jobs'[j])
      PROVE  j \in issued' /\ Exists(j)' /\ SameJob(r, jobs'[j])
  <2>1. Exists(j)'
    BY <1>6, NullIsDistinct DEF SameJob, Exists
  <2>2. QED
    BY <1>1, <1>6, <2>1 DEF IInv, IdsAreIssued
<1>7. CASE Withdrawn(j) \/ Rearmed(j)
  <2>1. Exists(j) /\ \E t \in Nat : jobs'[j] \in {Cancelled(r), Requeued(r, t)}
    BY <1>3, <1>7 DEF Withdrawn, Rearmed, HasStatus
  <2>2. QED
    BY <1>2, <1>6, <2>1, UpdatedRow
<1>8. CASE Deleted(j)
  BY <1>8 DEF Deleted, HasStatus, Exists
<1>9. CASE Started(j)
  <2>1. Exists(j) /\ \E w \in Worker, t \in Nat : jobs'[j] = Claimed(r, w, t)
    BY <1>3, <1>9 DEF Started, HasStatus
  <2>2. QED
    BY <1>2, <1>6, <2>1, UpdatedRow
<1>10. CASE Extended(j)
  <2>1. Exists(j) /\ \E t \in Nat : jobs'[j] = [r EXCEPT !.lease_expires_at = t + LeaseTTL]
    BY <1>3, <1>10 DEF Extended, HasStatus
  <2>2. QED
    BY <1>2, <1>6, <2>1, UpdatedRow
<1>11. CASE Reaped(j) \/ GivenBack(j) \/ Reported(j)
  <2>1. Exists(j) /\ r.status = "running"
    BY <1>11 DEF Reaped, GivenBack, Reported, HasStatus
  <2>2. r.attempts >= 1
    BY <1>2, <2>1 DEF RowOK
  <2>3. CASE Failed(j)
    BY <1>2, <1>3, <1>6, <2>1, <2>3, UpdatedRow DEF Failed
  <2>4. CASE jobs'[j] \in {Released(r), Succeeded(r)}
    BY <1>2, <1>6, <2>1, <2>2, <2>4, UpdatedRow
  <2>5. QED
    BY <1>11, <2>3, <2>4 DEF Reaped, GivenBack, Reported
<1>12. QED
  <2>1. RowUnchanged(j) \/ RowStep(j)
    BY RowSteps
  <2>2. QED
    BY <1>4, <1>5, <1>7, <1>8, <1>9, <1>10, <1>11, <2>1 DEF RowStep, Exists

\* What the row of an existing job says under the invariant.
LEMMA RowFacts ==
  ASSUME IInv, NEW j \in Job, Exists(j)
  PROVE  RowOK(jobs[j]) /\ j \in issued
BY PerJob DEF AllJobs, JobInv, IssuedInv

\* An extension keeps the run: its owner, its number, its status.
LEMMA ExtendedFacts ==
  ASSUME IInv, NEW j \in Job, Extended(j)
  PROVE  /\ RowOK(jobs'[j]) /\ jobs'[j] # NULL
         /\ jobs'[j].attempts = jobs[j].attempts /\ jobs'[j].status = jobs[j].status
         /\ jobs'[j].locked_by = jobs[j].locked_by
         /\ jobs'[j].max_retries = jobs[j].max_retries
         /\ \E t \in TxNow : jobs[j].lease_expires_at > t
<1>1. PICK t \in TxNow : /\ jobs[j].lease_expires_at > t
                        /\ jobs'[j] = [jobs[j] EXCEPT !.lease_expires_at = t + LeaseTTL]
  BY DEF Extended
<1>2. RowOK(jobs[j]) /\ jobs[j].status = "running" /\ t \in Nat
  BY RowFacts, TxNowIsTime DEF Extended, HasStatus
<1>3. /\ RowOK(jobs'[j]) /\ jobs'[j].attempts = jobs[j].attempts
      /\ jobs'[j].status = jobs[j].status /\ jobs'[j].locked_by = jobs[j].locked_by
      /\ jobs'[j].max_retries = jobs[j].max_retries
  BY <1>1, <1>2, ExtendedRow
<1>4. QED
  BY <1>1, <1>3, NullIsDistinct DEF RowOK

------------------------------------------------------------------------------
(* The action properties. *)

\* No step changes the row of a job that has ended.
LEMMA EndedStays ==
  ASSUME IInv, [Next]_vars, NEW j \in Job, HasStatus(j, {"succeeded", "cancelled"})
  PROVE  jobs'[j] = jobs[j]
<1>1. j \in issued
  BY RowFacts DEF HasStatus
<1>2. QED
  BY <1>1, RowSteps
  DEF RowUnchanged, RowStep, Created, Withdrawn, Rearmed, Deleted, Started, Extended,
      Reaped, GivenBack, Reported, HasStatus, Cancellable, Retryable

\* A succeeded or cancelled job is final, whatever comes late.
THEOREM FinalIsFinal == Spec => FinalStatesStick
<1>1. IInv /\ [Next]_vars =>
        [\A j \in Job : HasStatus(j, {"succeeded", "cancelled"}) => jobs'[j] = jobs[j]]_vars
  BY EndedStays
<1>2. QED
  BY <1>1, Invariance, PTL DEF Spec, FinalStatesStick

\* Once a running job's number is on record, nothing but an extension touches it.
LEMMA StuckStep ==
  ASSUME IInv, [Next]_vars, NEW j \in Job, Stuck(j)
  PROVE  Stuck(j)' /\ jobs'[j].locked_by = jobs[j].locked_by
                   /\ jobs'[j].attempts = jobs[j].attempts
<1>1. /\ Exists(j) /\ jobs[j].status = "running" /\ RowOK(jobs[j]) /\ j \in issued
      /\ AttemptRecorded(j, jobs[j].attempts)
  BY RowFacts DEF Stuck, HasStatus
<1>2. RowUnchanged(j) \/ Extended(j)
  BY <1>1, RowSteps
  DEF RowStep, Created, Withdrawn, Rearmed, Deleted, Started, Reaped, GivenBack,
      Reported, HasStatus, Cancellable, Retryable
<1>3. /\ jobs'[j] # NULL /\ jobs'[j].status = "running"
      /\ jobs'[j].attempts = jobs[j].attempts /\ jobs'[j].locked_by = jobs[j].locked_by
  <2>1. CASE RowUnchanged(j)
    BY <1>1, <2>1 DEF RowUnchanged, Exists
  <2>2. CASE Extended(j)
    BY <1>1, <2>2, ExtendedFacts
  <2>3. QED
    BY <1>2, <2>1, <2>2
<1>4. \A a \in job_attempts : a.job = j => a \in job_attempts'
  BY <1>1, RecordsKept DEF HasStatus
<1>5. QED
  BY <1>1, <1>3, <1>4 DEF Stuck, HasStatus, Exists, AttemptRecorded

\* What StaleSnapshotsAreFenced says of one Job object, whoever holds it.
Fenced(s) ==
  Exists(s.job) =>
    \/ AttemptRecorded(s.job, s.attempts)
    \/ HoldsLock(s.worker, s.job) /\ jobs[s.job].attempts = s.attempts

\* It stays fenced although another process takes the step: the run it belongs
\* to goes on, or ended on record.
LEMMA FencedStays ==
  ASSUME IInv, IInv', [Next]_vars, NEW s \in Snapshot, s.job \in issued, Fenced(s)
  PROVE  Fenced(s)'
<1> DEFINE j == s.job
           n == s.attempts
<1> SUFFICES ASSUME Exists(j)'
             PROVE  AttemptRecorded(j, n)' \/ (HoldsLock(s.worker, j)' /\ jobs'[j].attempts = n)
  BY DEF Fenced
<1>0. j \in Job /\ n \in Nat /\ s.worker \in Worker /\ j \in issued /\ jobs'[j] # NULL
  BY DEF Snapshot, Exists
<1>1. CASE ~Exists(j)
  BY <1>0, <1>1, RowSteps
  DEF RowUnchanged, RowStep, Created, Withdrawn, Rearmed, Deleted, Started, Extended,
      Reaped, GivenBack, Reported, HasStatus, Exists
<1>2. CASE AttemptRecorded(j, n)
  <2>1. PICK a \in job_attempts : a.job = j /\ a.attempt_number = n
    BY <1>2 DEF AttemptRecorded
  <2>2. a \in job_attempts'
    BY <1>0, <2>1, RecordsKept
  <2>3. QED
    BY <2>1, <2>2 DEF AttemptRecorded
<1>3. CASE Exists(j) /\ HoldsLock(s.worker, j) /\ jobs[j].attempts = n
  <2>1. /\ jobs[j].status = "running" /\ jobs[j].locked_by = s.worker /\ RowOK(jobs[j])
        /\ jobs[j].attempts >= 1
    BY <1>0, <1>3, RowFacts DEF HoldsLock, HasStatus, RowOK
  <2>2. \/ RowUnchanged(j) \/ Extended(j) \/ Reaped(j) \/ GivenBack(j) \/ Reported(j)
    BY <1>0, <2>1, RowSteps
    DEF RowStep, Created, Withdrawn, Rearmed, Deleted, Started, HasStatus, Cancellable,
        Retryable
  <2>3. CASE RowUnchanged(j)
    BY <1>3, <2>3 DEF RowUnchanged, HoldsLock, HasStatus, Exists
  <2>4. CASE Extended(j)
    BY <1>0, <1>3, <2>1, <2>4, ExtendedFacts DEF HoldsLock, HasStatus, Exists
  <2>5. CASE GivenBack(j)
    BY <1>3, <2>5 DEF GivenBack, AttemptRecorded, Attempt
  <2>6. CASE Reaped(j) \/ Reported(j)
    <3>1. jobs'[j].status # "running" /\ jobs'[j].attempts = n
      <4>1. CASE Failed(j)
        BY <1>0, <1>3, <2>1, <4>1, FailedOnceRow, TxNowIsTime DEF Failed
      <4>2. CASE jobs'[j] = Succeeded(jobs[j])
        BY <1>3, <2>1, <4>2, SucceededRow
      <4>3. QED
        BY <2>6, <4>1, <4>2 DEF Reaped, Reported
    <3>2. (\A i \in 1..jobs[j].attempts :
             AttemptRecorded(j, i) \/ (i = jobs[j].attempts /\ jobs[j].status = "running"))'
      BY <1>0 DEF IInv, AttemptHistory
    <3>3. n \in 1..n
      BY <1>0, <1>3, <2>1
    <3>4. QED
      BY <3>1, <3>2, <3>3
  <2>7. QED
    BY <2>2, <2>3, <2>4, <2>5, <2>6
<1>4. QED
  BY <1>1, <1>2, <1>3 DEF Fenced

\* So nothing ends the run.
THEOREM StuckIsForever == Spec => StuckJobsStayStuck
<1>1. IInv /\ [Next]_vars => [\A j \in Job : Stuck(j) => Stuck(j)']_vars
  BY StuckStep
<1>2. QED
  BY <1>1, Invariance, PTL DEF Spec, StuckJobsStayStuck

\* A lapsed lease is never revived: extend_lease and the reaper cannot both
\* win, however old the transaction's now().
THEOREM LapsedIsDead == Spec => LapsedLeaseIsDead
<1>1. ASSUME IInv, [Next]_vars, NEW j \in Job,
             HasStatus(j, {"running"}), jobs[j].lease_expires_at + MaxTxLag <= now
      PROVE  jobs'[j] = jobs[j] \/ jobs'[j] = NULL \/ jobs'[j].status # "running"
  <2>1. /\ RowOK(jobs[j]) /\ j \in issued /\ jobs[j].status = "running"
        /\ jobs[j].lease_expires_at \in Nat
    BY <1>1, RowFacts DEF HasStatus, RowOK, JobRow
  <2>2. ~Extended(j)
    <3>1. \A t \in TxNow : jobs[j].lease_expires_at <= t
      BY <1>1, <2>1, StoreAssumption DEF TxNow, StoreAssumption, IInv, TypeOK
    <3>2. \A t \in TxNow : ~(jobs[j].lease_expires_at > t)
      BY <1>1, <2>1, <3>1, TxNowIsTime
    <3>3. QED
      BY <1>1, <3>2, ExtendedFacts
  <2>3. RowUnchanged(j) \/ Reaped(j) \/ GivenBack(j) \/ Reported(j)
    BY <1>1, <2>1, <2>2, RowSteps
    DEF RowStep, Created, Withdrawn, Rearmed, Deleted, Started, HasStatus,
        Cancellable, Retryable
  <2>4. ASSUME Failed(j) PROVE jobs'[j].status # "running"
    BY <1>1, <2>1, <2>4, FailedOnceRow, TxNowIsTime DEF Failed
  <2>5. Succeeded(jobs[j]).status # "running" /\ Released(jobs[j]).status # "running"
    BY <2>1, SucceededRow, ReleasedRow
  <2>6. QED
    BY <2>3, <2>4, <2>5 DEF RowUnchanged, Reaped, GivenBack, Reported
<1>2. IInv /\ [Next]_vars =>
        [\A j \in Job :
           /\ HasStatus(j, {"running"}) /\ jobs[j].lease_expires_at + MaxTxLag <= now
           => jobs'[j] = jobs[j] \/ jobs'[j] = NULL \/ jobs'[j].status # "running"]_vars
  BY <1>1
<1>3. QED
  BY <1>2, Invariance, PTL DEF Spec, LapsedLeaseIsDead

\* A worker whose lease has not run out loses its job only by its own act.
THEOREM LeaseIsHonoured == Spec => LiveLeaseIsHonoured
<1>1. ASSUME IInv, [Next]_vars, NEW j \in Job,
             HasStatus(j, {"running"}), jobs[j].lease_expires_at >= now,
             ~(jobs'[j] # NULL /\ jobs'[j].locked_by = jobs[j].locked_by)
      PROVE  \/ [worker |-> jobs[j].locked_by, job |-> j, attempts |-> jobs[j].attempts]
                   \in snapshots \ snapshots'
             \/ Attempt(j, jobs[j].attempts, "cancelled") \in job_attempts' \ job_attempts
  <2>1. /\ RowOK(jobs[j]) /\ j \in issued /\ jobs[j].status = "running"
        /\ jobs[j].lease_expires_at \in Nat /\ jobs[j] # NULL
    BY <1>1, RowFacts DEF HasStatus, Exists, RowOK, JobRow
  <2>2. ~Reaped(j)
    BY <1>1, <2>1 DEF Reaped, TxNow, IInv, TypeOK
  <2>3. ~RowUnchanged(j)
    BY <1>1, <2>1 DEF RowUnchanged
  <2>4. ~Extended(j)
    BY <1>1, ExtendedFacts
  <2>5. GivenBack(j) \/ Reported(j)
    BY <1>1, <2>1, <2>2, <2>3, <2>4, RowSteps
    DEF RowStep, Created, Withdrawn, Rearmed, Deleted, Started, HasStatus,
        Cancellable, Retryable
  <2>6. QED
    BY <2>5 DEF GivenBack, Reported, AttemptRecorded, Attempt
<1>2. IInv /\ [Next]_vars =>
        [\A j \in Job :
           /\ HasStatus(j, {"running"}) /\ jobs[j].lease_expires_at >= now
           /\ ~(jobs'[j] # NULL /\ jobs'[j].locked_by = jobs[j].locked_by)
           => \/ [worker |-> jobs[j].locked_by, job |-> j, attempts |-> jobs[j].attempts]
                   \in snapshots \ snapshots'
              \/ Attempt(j, jobs[j].attempts, "cancelled") \in job_attempts' \ job_attempts]_vars
  BY <1>1
<1>3. QED
  BY <1>2, Invariance, PTL DEF Spec, LiveLeaseIsHonoured

------------------------------------------------------------------------------
(* The refinement. *)

\* A step is a step of the lifecycle for every job, or leaves it where it is.
LEMMA LifeSteps ==
  ASSUME IInv, [Next]_vars, NEW j \in Job
  PROVE  LifeOf(j)' = LifeOf(j) \/ Lifecycle!Step(LifeOf(j), LifeOf(j)')
<1> USE DEF LifeOf, PhaseOf, Exists, HasStatus, Lifecycle!State
<1>1. CASE RowUnchanged(j)
  BY <1>1 DEF RowUnchanged, Budget, RunBudget
<1>2. CASE Created(j)
  <2>1. PICK q \in Queue, k \in Key \cup {NULL}, n \in MaxRetries,
             run_at \in RunAt \cup {NULL}, t \in TxNow :
          jobs'[j] = NewJob(q, k, n, run_at, t)
    BY <1>2 DEF Created
  <2>2. ~Exists(j) /\ j \notin issued
    BY <1>2, RowFacts DEF Created
  <2>3. /\ jobs'[j] # NULL /\ jobs'[j].attempts = 0 /\ jobs'[j].max_retries = n
        /\ jobs'[j].status \in {"queued", "scheduled"}
    <3>1. n \in Nat /\ run_at \in Nat \cup {NULL} /\ t \in Nat
      BY TxNowIsTime, StoreAssumption DEF StoreAssumption
    <3>2. RowOK(jobs'[j])
      BY <2>1, <3>1, NewJobRow
    <3>3. jobs'[j] # NULL
      BY <3>2, NullIsDistinct DEF RowOK
    <3>4. QED
      BY <2>1, <3>3 DEF NewJob
  <2>4. LifeOf(j) = Lifecycle!Unborn
    BY <2>2 DEF Lifecycle!Unborn
  <2>5. LifeOf(j)' = Lifecycle!State("waiting", 0, RunBudget(n))
    BY <2>3 DEF Budget
  <2>6. QED
    BY <2>4, <2>5 DEF Lifecycle!Step, Lifecycle!Submit
<1> DEFINE a == LifeOf(j)
           b == LifeOf(j)'
<1>3. ASSUME Exists(j)
      PROVE  /\ RowOK(jobs[j]) /\ j \in issued /\ jobs[j].attempts \in Nat
             /\ a = Lifecycle!State(PhaseOf(jobs[j].status), jobs[j].attempts, Budget(jobs[j]))
  BY <1>3, RowFacts DEF RowOK, JobRow
<1>4. ASSUME RowOK(jobs'[j]), jobs'[j].max_retries = jobs[j].max_retries
      PROVE  b = Lifecycle!State(PhaseOf(jobs'[j].status), jobs'[j].attempts, Budget(jobs[j]))
  BY <1>4, NullIsDistinct DEF RowOK, Budget
<1>5. CASE Withdrawn(j)
  <2>1. RowOK(jobs[j]) /\ jobs[j].status \in Cancellable /\ Exists(j)
    BY <1>5, <1>3 DEF Withdrawn
  <2>2. /\ RowOK(jobs'[j]) /\ jobs'[j].max_retries = jobs[j].max_retries
        /\ jobs'[j].attempts = jobs[j].attempts /\ jobs'[j].status = "cancelled"
    BY <1>5, <2>1, CancelledRow DEF Withdrawn
  <2>3. Lifecycle!Cancel(a, b)
    BY <1>3, <1>4, <2>1, <2>2 DEF Lifecycle!Cancel, Cancellable
  <2>4. QED
    BY <2>3 DEF Lifecycle!Step
<1>6. CASE Rearmed(j)
  <2>1. RowOK(jobs[j]) /\ jobs[j].status \in Retryable /\ Exists(j)
    BY <1>6, <1>3 DEF Rearmed
  <2>2. /\ RowOK(jobs'[j]) /\ jobs'[j].max_retries = jobs[j].max_retries
        /\ jobs'[j].attempts = 0 /\ jobs'[j].status = "queued"
    BY <1>6, <2>1, RequeuedRow, TxNowIsTime DEF Rearmed
  <2>3. Lifecycle!Rearm(a, b)
    BY <1>3, <1>4, <2>1, <2>2 DEF Lifecycle!Rearm, Retryable
  <2>4. QED
    BY <2>3 DEF Lifecycle!Step
<1>7. CASE Deleted(j)
  <2>1. Lifecycle!Purge(a, b)
    BY <1>3, <1>7 DEF Deleted, Lifecycle!Purge, Lifecycle!Purged
  <2>2. QED
    BY <2>1 DEF Lifecycle!Step
<1>8. CASE Started(j)
  <2>1. /\ RowOK(jobs[j]) /\ jobs[j].status \in {"queued", "scheduled", "retrying"}
        /\ Exists(j) /\ jobs[j].attempts < Budget(jobs[j])
    BY <1>8, <1>3 DEF Started, RowOK
  <2>2. /\ RowOK(jobs'[j]) /\ jobs'[j].max_retries = jobs[j].max_retries
        /\ jobs'[j].attempts = jobs[j].attempts + 1 /\ jobs'[j].status = "running"
    BY <1>8, <2>1, ClaimedRow, TxNowIsTime DEF Started
  <2>3. Lifecycle!Start(a, b)
    BY <1>3, <1>4, <2>1, <2>2 DEF Lifecycle!Start
  <2>4. QED
    BY <2>3 DEF Lifecycle!Step
<1>9. CASE Extended(j)
  <2>1. b = a
    BY <1>3, <1>4, <1>9, ExtendedFacts DEF Extended
  <2>2. QED
    BY <2>1
<1>10. CASE GivenBack(j)
  <2>1. RowOK(jobs[j]) /\ jobs[j].status = "running" /\ Exists(j)
    BY <1>10, <1>3 DEF GivenBack
  <2>2. /\ RowOK(jobs'[j]) /\ jobs'[j].max_retries = jobs[j].max_retries
        /\ jobs'[j].attempts = jobs[j].attempts - 1 /\ jobs'[j].status = "queued"
    BY <1>10, <2>1, ReleasedRow DEF GivenBack
  <2>3. Lifecycle!Interrupt(a, b)
    BY <1>3, <1>4, <2>1, <2>2 DEF Lifecycle!Interrupt
  <2>4. QED
    BY <2>3 DEF Lifecycle!Step
<1>11. CASE HasStatus(j, {"running"}) /\ Failed(j)
  <2>1. RowOK(jobs[j]) /\ jobs[j].status = "running" /\ Exists(j)
        /\ jobs[j].attempts \in Nat /\ jobs[j].max_retries \in Nat
    BY <1>11, <1>3 DEF RowOK, JobRow
  <2>2. /\ RowOK(jobs'[j]) /\ jobs'[j].max_retries = jobs[j].max_retries
        /\ jobs'[j].attempts = jobs[j].attempts
        /\ jobs'[j].status \in {"retrying", "dead_letter"}
        /\ jobs'[j].status = "retrying" <=> jobs[j].attempts < jobs[j].max_retries
    BY <1>11, <2>1, FailedOnceRow, TxNowIsTime DEF Failed
  <2>3. CASE jobs'[j].status = "retrying"
    <3>1. jobs[j].attempts < Budget(jobs[j])
      BY <2>1, <2>2, <2>3 DEF Budget, RunBudget
    <3>2. Lifecycle!BackOff(a, b)
      BY <1>3, <1>4, <2>1, <2>2, <2>3, <3>1 DEF Lifecycle!BackOff
    <3>3. QED
      BY <3>2 DEF Lifecycle!Step
  <2>4. CASE jobs'[j].status = "dead_letter"
    <3>1. jobs[j].attempts = Budget(jobs[j])
      BY <2>2, <2>4 DEF RowOK, Budget
    <3>2. Lifecycle!Bury(a, b)
      BY <1>3, <1>4, <2>1, <2>2, <2>4, <3>1 DEF Lifecycle!Bury
    <3>3. QED
      BY <3>2 DEF Lifecycle!Step
  <2>5. QED
    BY <2>2, <2>3, <2>4
<1>12. CASE HasStatus(j, {"running"}) /\ jobs'[j] = Succeeded(jobs[j])
  <2>1. RowOK(jobs[j]) /\ jobs[j].status = "running" /\ Exists(j)
    BY <1>12, <1>3
  <2>2. /\ RowOK(jobs'[j]) /\ jobs'[j].max_retries = jobs[j].max_retries
        /\ jobs'[j].attempts = jobs[j].attempts /\ jobs'[j].status = "succeeded"
    BY <1>12, <2>1, SucceededRow
  <2>3. Lifecycle!Succeed(a, b)
    BY <1>3, <1>4, <2>1, <2>2 DEF Lifecycle!Succeed
  <2>4. QED
    BY <2>3 DEF Lifecycle!Step
<1>13. QED
  BY <1>1, <1>2, <1>5, <1>6, <1>7, <1>8, <1>9, <1>10, <1>11, <1>12, RowSteps
  DEF RowStep, Reaped, Reported

\* Every behaviour of the tables is, job by job, a behaviour of the lifecycle.
THEOREM Refinement == Spec => ImplementsLifecycle
<1>1. Init => Lifecycle!Init
  BY DEF Init, Lifecycle!Init, Lifecycle!Unborn, Lifecycle!State, LifeOf, Exists
<1>2. ASSUME IInv, [Next]_vars PROVE Lifecycle!Next
  BY <1>2, LifeSteps DEF Lifecycle!Next
<1>3. QED
  BY <1>1, <1>2, Invariance, PTL DEF Spec, ImplementsLifecycle, Lifecycle!Spec
==============================================================================
