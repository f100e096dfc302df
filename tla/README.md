# Verification of atlas-queue

atlas-queue is a job queue on PostgreSQL: a FastAPI application writes jobs into
a table, worker processes claim them under a lease, report outcomes, and reap
the jobs of workers that stopped renewing. All coordination goes through the
database. The repository has no prose documentation; docstrings, comments and
tests are what the specifications are held against.

This directory holds the TLA+ modules, their TLC configurations, and the TLAPS
proofs. `PROJECT.json` lists components, runs, mutants, the source lines of
every definition, findings, hazards and theorems.

    tlc -config MCJobStore_tables.cfg MCJobStore
    tlapm JobStore_proofs.tla

## The system

| Component | Source | State | Operations |
|---|---|---|---|
| Job API | `api/jobs.py` | rows of `jobs` | create (idempotent per queue and key), list, get, cancel, retry |
| Dead letters | `api/dead_letter.py` | `jobs`, `job_attempts` | list, detail with attempts, retry, delete |
| Queue views | `api/queues.py` | none of its own | list, get, statistics |
| Claims and leases | `worker/claim.py` | lock columns of `jobs`, `job_attempts` | count, claim (`SKIP LOCKED`), extend, reap, release |
| Outcomes | `worker/complete.py` | `jobs`, `job_attempts` | mark succeeded, mark failed |
| Worker process | `worker/app.py` | `workers` row, heartbeat tasks, shutdown event | register, poll loop, heartbeat tasks, shutdown |
| Execution | `worker/execute.py`, `core/registry.py` | handler registry | run a handler under a timeout |
| Backoff | `core/backoff.py` | none | delay of a retry |
| Schema | `core/models.py`, `migrations/` | constraints: `(queue, idempotency_key)` and `(job_id, attempt_number)` unique, attempts cascade | up- and downgrade |
| Settings, CLI, logging | `core/config.py`, `worker/cli.py`, `core/logging.py` | read once | validation |

Interaction: the API and any number of workers share the two tables, and each
request or poll is one transaction. A claim moves a row to `running` and stamps
owner, lease and attempt number; from then on the row can change through its
owner's heartbeat, an outcome, its owner's release, or anybody's reaper. Outcomes
work on the Job object the claim returned, which keeps its values when the row
moves on (`expire_on_commit=False`). Inside a worker, the poll loop, one
heartbeat task per claimed job and the signal handler share an event loop and
interleave at every `await`.

What is hard about it:

- **Stale actors.** A worker that lost its lease may still extend, complete or
  release. What stops it is spread over the code: the `locked_by` test, the lease
  test, and the unique constraint on attempts.
- **One attempt counter, several writers.** Claim increments it, release
  decrements it, a manual retry resets it, and outcome, reap and release write a
  row under its value which only a delete removes.
- **Time.** `now()` is the start of a transaction, so a slow one judges leases by
  an old clock.
- **Errors inside a batch.** A reap or release is all or nothing, and an error
  in the reaper leaves the poll loop.
- **Shutdown and crash** at any step, and restarts under the same name.
- **A connection that fails**, before a commit or after it, with an except clause
  of its own in some places and none in others.
- **Statements, not transactions, are what interleaves.** Claim and reap decide
  in one statement and write in another, at READ COMMITTED.
- **Replies from several snapshots.** A handler reads again to choose its answer,
  statistics and lists are two statements, a walk over pages is many.
- **Handlers that hang** or catch their own cancellation; migrations that race.

What makes each part correct: locks exactly on running rows, a bounded number of
runs, outcomes recorded against the run they belong to, a complete attempt
history, final states that stay, live leases honoured and lapsed ones dead
(JobStore); every interleaving of statements a sequence of transactions, without
deadlock (Transactions); no more jobs claimed than slots were free, nothing held when
offline, lapsed jobs reaped, shutdowns that finish, whatever connection fails (WorkerApp,
WorkerFaults, WatchedWorkers) and whoever shares the name (SharedName), within the times the settings promise
(PollLoop); outcomes that are what happened (Execution); replies that stay true or
whose errors can be explained (JobsApi, JobViews); a schema that depends on its
revision alone (Migrations); and all of it adding up to a lifecycle a user of the
queue can rely on (JobLifecycle).

## Modules

`Backoff` gives the set of delays `retry_delay_seconds` may return: exponential,
capped, jittered, capped again. Its assumption is what the settings validators
accept; the code's floats are whole seconds here, so the multiplier and the base
are positive integers.

`JobLifecycle` is the abstract specification: one record per job with a phase,
the runs used and the budget. It has no tables, owners, leases or clock.

`JobStore` models the tables. Each action is one committed transaction.

| Action | Code |
|---|---|
| `CreateJob`, `CancelJob`, `RetryJob` | `create_job`, `cancel_job`, `retry_job` |
| `RetryDeadLetterJob`, `DeleteDeadLetterJob` | `retry_dead_letter_job`, `delete_dead_letter_job` |
| `ClaimJobs`, `ExtendLease`, `ReapExpiredJobs`, `ReleaseInFlightJobs` | the functions of `worker/claim.py` |
| `MarkJobSucceeded`, `MarkJobFailed` | the functions of `worker/complete.py` |
| `LoseSnapshots` | claimed Job objects of one name are dropped: one, or all that a process held |
| `Tick` | the database clock |

A transaction that violates a constraint has no action here: it leaves nothing
behind. `snapshots` are the Job objects still held somewhere, so an outcome may
be reported at any later time, also by a worker that holds the same job again.
Every operation that reads the clock takes its time from `TxNow`, the instants at
most `MaxTxLag` before the commit. A claim or a reap may take any subset of the
rows that match, because `SKIP LOCKED` may pass over any of them.

`WorkerApp` extends `JobStore` with processes. Its steps end where the code
awaits: `proc[w].pc` is the place in `main` or `run_loop`, `tasks` the heartbeat
tasks, `shutdown` the event. It adds what `JobStore` leaves out: how many jobs a
worker asks for, which batch the reaper takes, what an `IntegrityError` does to the
process (`ReapFails`, the last disjunct of `Release`), signals, crashes and
restarts. `run_loop` executes no job in this version of the code, so a process
never reports an outcome; `JobStore` covers outcomes.

`WorkerFaults` extends `WorkerApp` with a connection that fails. Each transaction
of a worker may raise, once per `try` block and worker, with or without having taken
effect. The process goes where the exception is caught: out of `run_loop` or
`register_worker` into `main`'s `finally`, past one of its two `try` blocks, or out
of a heartbeat task. `Unwind` drops the Job objects of the frame that is left.

`LeaseHistory` is a history variable, `lapsed`: the running jobs whose lease has run out
since their claim. `Watch` keeps it beside every step. A lease in it may be alive again,
since a heartbeat whose `now()` is older can revive it; `FreshLeases` are the others.
`WatchedWorkers` is `WorkerFaults` with this history beside it.

`SharedName` is two instances of `WorkerApp`, `Here` and `There`, with processes and
Job objects of their own over one set of tables, for two processes that were
started with one `--name`. Their transactions do not overlap; their steps do. Its
`WatchedSpec` has the history of the leases beside it.

`PollLoop` is `run_loop` with a clock in place of the tables: the intervals, the
backoff of an idle loop, the reaper's timer and the wait that a signal ends, for
every setting the validators accept.

`Transactions` refines `JobStore` in the other direction: a transaction is a BEGIN,
a scan, a visit of each row and a COMMIT. `tx[c]` is the open transaction of
session `c`: the rows its statement has yet to visit (`todo`), the values its
SELECT returned (`seen`), the row locks it holds and the versions it wrote (`new`).
The rules of READ COMMITTED are external code, modelled from how the statements
use them: `SelectRow` and `SkipRow` are FOR UPDATE SKIP LOCKED, `WriteRow` and
`PassRow` the second look at a row after a wait, `Insert` the wait in the unique
index. A process has one claim or release open at a time, as `main` and `run_loop`
do; heartbeats, reaps, outcomes and requests overlap freely.

`JobsApi` has the handlers of the writing requests and of the dead letter detail
as two steps each, with the reply the client keeps in `request[c]`. The first step
is an action of `JobStore`; the second is the read that chooses the reply. A create also
remembers, in the field `job`, which job it inserted or which one it met under its key,
so that a 409 or 500 can be held against that job and no other. `Shown` is the status
that `JobResponse` derives for a due scheduled job.

`JobViews` has one reader of the statistics and the lists. `reader` is the request
and what its client has seen (`rows` counts the rows shown, `shown` says which), `watch`
the history of what left and entered the list meanwhile. `created` and `buried` are the
times the lists are ordered by: `buried` in `GET /dead-letter` (the view `dead_letters`),
`created` in `GET /jobs`, also when it is filtered by the status `dead_letter`.

`Execution` is the registry and `execute_job`. A handler is external code that may
do anything at an `await`; `wait_for` cancels once and turns only its own
cancellation into a `TimeoutError`, at once or after the handler held it back. A
CancelledError that a handler raises on its own leaves no outcome, like one from outside. No code under `worker/` calls `execute_job` yet.

`Migrations` keeps the schema as a set of named objects, each revision as its two
lists of statements, translated from `migrations/versions/`, and `command[m]`, an
alembic command that has read the current revision and has yet to run. `Executed` is
what a statement makes of a schema, `Result` a list of statements, `Migrated` the
revisions of a command, one after the other. `ModelSchema` is `core/models.py`. A
command is one transaction that fails as a whole, also when the version row is not the
one it started from.

The `MC` modules give the constants their values. `JobStore_proofs`,
`Transactions_proofs`, `WorkerApp_proofs`, `WorkerFaults_proofs`, `SharedName_proofs`,
`Api_proofs` (of `JobsApi` and `JobViews`), `Timing_proofs` (of `PollLoop` and
`Execution`) and `Migrations_proofs` hold the theorems.

| Module | Builds on |
|---|---|
| `JobStore` | `Backoff`; implements `JobLifecycle` |
| `Transactions` | extends `JobStore`, implements it |
| `WorkerApp` | extends `JobStore`, implements it |
| `WorkerFaults` | extends `WorkerApp`, implements `JobStore` |
| `LeaseHistory` | extends `JobStore` |
| `WatchedWorkers` | extends `WorkerFaults` and `LeaseHistory`, implements `JobStore` |
| `SharedName` | two instances of `WorkerApp` and one of `LeaseHistory`; implements `JobStore` |
| `JobsApi`, `JobViews` | extend `JobStore` |
| `PollLoop`, `Execution`, `Migrations` | stand alone |

Data left out because no write depends on it: payload, job type, priority,
timeouts, error texts, the worker and times of an attempt. Priority and creation
time order a claim and would only narrow its choice. `locked_at` goes with
`locked_by`; the three finish times are kept as set or not set.

## Runs

| Run | Instance | What it shows |
|---|---|---|
| `tables` | 2 jobs, 2 workers, `max_retries` 0 and 2, a scheduled start, lease 1 s, lag 1 s, jitter 50 %, clock to 3 | the invariants of the tables; final rows never change; stuck jobs stay stuck; live leases are honoured and lapsed ones stay dead; `JobStore` implements `JobLifecycle` |
| `workers` | 1 worker that somebody restarts, concurrency 1, 2 jobs, two of: a signal or a crash (once), failures of any of its transactions; lease 2 s, lag 1 s, clock to 3 | nothing held when offline; no job without heartbeat but for a failure; beyond its slots a worker holds only leases that ran out and were revived; every step is one of `JobStore`; lapsed jobs are reaped, shutdowns complete |
| `transactions` | 2 sessions, 2 jobs, seven kinds of transactions | each commit is one step of `JobStore`; no deadlock; selected rows stay put |
| `api` | 2 clients, 2 jobs, 2 queues, one key, all requests | replies are not undone, creates are idempotent, a history is whole or gone |
| `views` | 2 jobs, 2 queues, pages of one row, all views, and `GET /jobs` by status `dead_letter` | what torn statistics and walks may get wrong, and nothing more |
| `shared_name` | 2 processes of one name, concurrency 1 each, 2 jobs, a signal or a crash, lease 2 s, lag 1 s, clock to 2 | a job both claimed is fenced; but for revived leases, what they hold and are about to claim fits the slots of both |
| `migrations` | 2 deployments, the whole chain, 2 rows, 2 queues, one key | the schema depends on the revision alone, agrees with the models, and only shared keys stop a downgrade |
| `execution` | 2 calls, one with no time to run, 2 job types, 2 handlers | the outcome is what happened; a hanging handler is cut off |
| `poll_timing` | intervals of 1, 2 and 5 s (0 is refused), multipliers 1 and 2 (0.5 is refused), transactions of up to 1 s, a host booted 0, 3 or 9 s ago | bounds on waits, on the time between reaps and on the time a signal takes |
| `expiry`, `heartbeat`, `overrun` | 1 worker, 1 job or 2 | the findings below |

Why the bounds are enough. `max_retries` 2 gives a run that may be retried and a
last one, and 0 is the boundary where the code still grants one run. Two jobs
give batches in which one may fail; two workers give a worker that lost its job to
another and won it back. The clock reaches past a lease and one delay, which is
what reap, claim by another and a late answer take. A stop and the failures give
release, restart, claim and a second release, or a crash in between. What the
instance of `tables` leaves out (more jobs, workers and queues, longer leases) is
covered by the theorems, which hold for all constants.

`transactions` has the kinds that differ in their statements: one that selects and
may stop early (claim), one that selects a batch (reap), the UPDATE of several rows
(release), of one row under three tests (extend, fail) and the DELETE, against
INSERTs. Cancel, retry and success are UPDATEs of one row like fail. It has one
worker name, and no keys: with `Key = {k1}` the instance passes as well, with
940,539 states, but takes too long beside the others.

In `workers` and `shared_name` a lease can run out while a poll is between its count and
its claim, and a heartbeat that began earlier can revive it; in `workers` a reaper can also
take it, a second later. That takes a lease of 2, a lag of 1 and a clock to 2 or 3. The
limit is overrun in both (`overrun` shows the shortest way). Two processes of concurrency 1 can hold two jobs without anything being
wrong; since `SlotsAddUp` also counts what a poll has found room for, two jobs are enough
to violate it. `shared_name` also passes with three jobs (6,517,761 states) and
with two and a clock to 3, when reapers take leases too (3,492,059 states), but these take
too long beside the others. `MaxTroubles` bounds stops and failures together: with two, a
reply is lost and the release after it fails, or a failure meets a crash. `LastRequest`
is the last instant at which somebody uses the API. In both runs it is 0: jobs are created,
cancelled, retried and deleted while processes start, poll, claim and stop, and only time
goes by without requests. Requests at any time, with leases that run out, are in `tables`.

Deadlock is not checked in the runs whose clock, ids, calls or requests run out. In
`WorkerApp`, `WorkerFaults`, `SharedName` and `Migrations` some process can always
step, so it is.

### Fairness

`AppFairness` is weak fairness of each process's next step (`MainStep`), of its
reaper timer, and of each heartbeat task; `FaultFairness` is the same where a step
may fail, without the heartbeat tasks: neither liveness property needs them. asyncio runs every ready task, the waits in `run_loop` have timeouts, and
transactions end. That the reaper's timer is fair is what `PollLoop` bounds in
seconds (`ReapsComeInTime`). `MainStep` includes `Start`: liveness assumes that
somebody restarts a worker which is down, as a supervisor does. Without it, a lapsed
job with no worker left would rightly wait for ever. The API, signals, crashes and
the clock are not fair, and nothing is asked of failures.

In `Execution`, time passes, timers fire and a cancellation is thrown into the
handler; a handler that was not cancelled need never do anything, and one that
catches its cancellation may hang for ever (`overrun`).

## Findings

1. **A stuck job stops the reaper** (`expiry`). `job_attempts` is unique on
   `(job_id, attempt_number)`. A release writes a cancelled row for attempt *n*
   and sets the counter back to *n*-1; a manual retry sets it to 0 and keeps all
   rows. The next claim counts up to a number that is taken. From then on every
   transaction that would end the run inserts that number again and rolls back:
   the job stays `running` (`StuckJobsStayStuck`, proved as `StuckIsForever`). Its
   expired lease is always among the oldest, so every batch of the reaper contains
   it and aborts, and the exception leaves `run_loop` and stops the worker. The
   cleanup releases its other jobs, which writes cancelled rows for them too: they
   get stuck when claimed again, and a second release of a worker with a stuck job
   releases none.
2. **A run without heartbeat** (`heartbeat`). `run_loop` starts no task for a job
   whose old task is not done. If that task has found its lease gone and is just
   closing its session while the same worker claims the job again, the new run is
   never renewed.
3. **A job too many** (`overrun`). `test_run_loop_respects_concurrency_limit` asserts that
   a worker never has more jobs in flight than its limit (`ConcurrencyIsKept`). A poll
   counts the leases that are alive by its own `now()` and fills the other slots. A
   heartbeat whose transaction began just before a lease ran out, and commits after that
   count, still finds the lease alive by its older `now()` and extends it: the worker then
   has one live lease more than slots, and no poll takes it back. Nor is there another
   bound: TLC finds a third live lease of a worker with one slot (3 jobs), when the next
   poll again finds all leases run out and heartbeats under way revive them. What does
   hold is `OverrunIsRevived`: leases that never ran out fit the slots, so whatever is too
   much was revived in this way.

Met while modelling, and not the subject of a run:

- The 409 of cancel and retry names a status read after the refusal, possibly one
  from which the request is accepted (`ReadRefused` of `JobsApi`).
- A create with a key is refused with "already exists in this queue" exactly when
  the lookup found no such job, because it was deleted in between (`Lookup`).
- Lists filter on the stored status, replies show the derived one
  (`core/schemas.py:86`): `status=scheduled` lists due jobs as queued.
- `alembic downgrade base` fails once two queues share a key (`CommandsApply`).
- A `TimeoutError` that a handler raises itself is reported as "job timed out after
  ...s", however early (`OutcomeOf`).

The same unique constraint is also what makes late outcomes harmless
(`StaleSnapshotsAreFenced`): `mark_job_*` compare the worker's name and not the
attempt, so a repair of finding 1 that only drops or relaxes the constraint would
open that hole.

Properties that mention `Stuck` (`OfflineIsEmpty`, `LapsedJobsAreReaped`)
state what the code does achieve apart from finding 1.

## Proofs

`JobStore_proofs` proves, for all constants that satisfy `BackoffAssumption`,
`StoreAssumption` and `NullAssumption`, that `IInv` is an invariant of `JobStore`:

    IInv = TypeOK /\ LockIffRunning /\ MarksMatchStatus /\ AttemptBudget
           /\ StaleSnapshotsAreFenced /\ AttemptHistory /\ IdsAreIssued

No part is inductive alone. An outcome is recorded against the right run only
because a snapshot whose attempt has no row is the run in progress
(`StaleSnapshotsAreFenced`). That survives a claim only because all numbers up to
the counter are on record (`AttemptHistory`), a release only because the running
number is what it records, and a delete only because ids are not issued again
(`IdsAreIssued`). The budget after a failure decided from a snapshot follows
because that snapshot equals the row.

The proof splits `IInv` into a formula per job (`PerJob`). Row lemmas say what each
UPDATE does to one row. `Frame` says that a job whose row, attempts and snapshots
are untouched keeps its part. `RunEndsInv` covers the three ways a run ends with a
new attempt row. Then there is one lemma per action, `InitInv`, `NextInv` and the
temporal theorem.

The action properties follow from `IInv` and a common lemma on what any step does to
one row (`RowSteps`, `LifeSteps`): `FinalIsFinal`, `StuckIsForever`, `LapsedIsDead`,
`LeaseIsHonoured`, and `Refinement`, the theorem that `JobStore` implements
`JobLifecycle` under the mapping the run `tables` checks. Two more lemmas serve the
modules built on `JobStore`: a job keeps its queue, its key and its id (`JobIsKept`),
and a snapshot that is fenced stays so (`FencedStays`).

`Transactions_proofs` proves that statements may interleave as they like
(`TransactionsAreAtomic`): `TxSpec => Spec`. Its invariant `TxInv` has one part per
transaction (`TxOK`): the rows it holds, and that what its statements read of them and
intend to write is still what `JobStore` lets them write. A second part keeps each two
transactions apart (`Apart`): they hold no common row, do not report one snapshot, do not
insert one key, and are not both in the run loop of one worker. A row changes only by the
commit of its holder, so what `TxOK` says of it lasts. `TxTypeCorrectness` and
`RowsStayPut` are contained in it. `NothingDeadlocks` needs the third part,
`ReleasesInOrder`. Claims and reaps skip what they cannot lock, and whatever names one row
holds nothing while it waits, so a circle could only be made of releases. A release waits
for rows that its scan found running under its worker; one of them is another release's
only if it was reaped and claimed meanwhile, before that one scanned. So the one that
scanned last waits for none. With the theorems about `JobStore`, atomicity gives
`AtomicInvariance` (`IInv`, at every moment of open transactions) and `AtomicLifecycle`.

`Api_proofs` has two parts. `ReqInv` says of each request what it has seen so far, in
words that no step takes back: a job cancelled stays cancelled (`EndedStays`), an id
deleted stays deleted, a job keeps its queue and key. A create that met a conflict keeps
the job it met, so when the lookup finds nothing, that job is gone. Of two requests it says that they
have not both done the same thing to one job (`Exclusive`). From that come
`CreatesAreIdempotent`, `WinnersStay` and `DetailsAreWhole`; the last needs `IInv`, by
which the attempts of a dead letter are on record when the first statement reads it.

`ViewsInv` is about reads that are spread over time. The rank of a row is the number of
rows before it. `RanksFollowOrder`, `RanksAreTaken` and `TopSize` show that a finite list
in order has the ranks 0 to its length, so a page holds exactly the ranks of its range
(`PageIsSlice`), and that a write pushes rows out of the first *n* at most as many as come
in above (`PushedOff`). `LostOK` counts the rows that a walk has behind it without having
shown them, `RepeatOK` those it has shown and has still ahead; every arrival and
departure moves at most one row over the offset (`MovesAreCounted`), and a page that
comes back short leaves nothing ahead. This gives `WalksLoseOnlyToDepartures` and
`WalksRepeatOnlyForArrivals` for lists and walks of any length. `StatsStayExplained`
rests on `StatsOK`: between the two statements a waiting job can leave its status only
by leaving the waiting ones (`WaitingKeepsStatus`).

`WorkerApp_proofs` carries the theorems about `JobStore` over to the processes, as long as no
connection fails (`AppSpec`). `ProcInv` says that
`proc` is typed, that `now` is a number and that the poll time a process keeps
between its count and its claim may still be the `now()` of a transaction. It is
inductive because the clock stands still at the bound of an open transaction.
`StoreSteps` then maps every process step to a transaction of `JobStore` or to a
stutter (`StoreRefinement`), so `IInv` holds of `WorkerApp` (`AppInvariance`), and
with the types of the processes that gives `AppTypeCorrectness`. Assumed:
`AppAssumption` (positive concurrency, finitely many jobs, which the counts need).

`OfflineIsClean` proves `OfflineHoldsNothing`. The property is not inductive: the
strengthening `OfflineInv` adds that a worker whose row says offline is `Away`, with
no process or one that has yet to register or is on its way out, and covers the
process between its release and the update of its row. Two facts carry it: only a
claim gives a worker a lock (`OnlyClaimsLock`), and a stuck job stays stuck in the
hands it is in (`StuckStep`).

For the slots of a worker it prepares `RoomInv`: the leases that never ran out and what
the process may still claim on the count it made (`Pending`) are together at most
`Concurrency`. It is inductive whatever lags. A count sees every such lease, since the
history misses none that has run out (`LapsedInv`, `FreshIsCounted`), and no step but a
claim adds one, since what a heartbeat revives stays in the history (`OnlyClaimsAreFresh`).

`WorkerFaults_proofs` repeats this for `FaultSpec`, of which the run `workers` checks a
small instance, for any number of failures, workers and jobs.
A step is one of `WorkerApp` or a failing one (`FaultSteps`), so the lemmas of
`WorkerApp_proofs` cover half of each proof and only the failing steps are new. What
they leave in the tables is nothing or a whole transaction (`FailingStoreSteps`),
which gives `FaultRefinement`, `FaultInvariance` and `FaultTypeCorrectness`, and with
the theorems about `JobStore` that jobs keep their lifecycle (`FaultLifecycle`). The only
way a failing step gives a worker a lock is a claim whose reply is lost
(`FailingLocks`, `LostClaim`). It leads to the cleanup, so `FaultyOfflineIsEmpty`
holds, and it took no more than `remaining`, so `RoomInv` is kept and
`OverrunsAreRevived` proves `OverrunIsRevived` of `WatchedSpec`, for every lag.
`FaultOfflineInv` is `OfflineInv` with the releases that failed.

`HeartbeatsAreKept` proves `HeartbeatsCoverClaims` through `CoverInv`, which says for
every place of the loop which jobs of the worker have a heartbeat task and which are
about to get one (`Covered`). It needs two facts about the whole system: no lease ends
before the first that can be given does (`LeaseFloor`), so nobody reaps and the count of
running jobs is that of the jobs held; and claimed Job objects are held only until their
tasks are started (`ClaimsAreRead`).

`SharedName_proofs` is two instances of `WorkerApp_proofs`. A step of one process is a
step of `WorkerApp` in its instance, and for the other it is one of the tables alone,
which leaves process and Job objects untouched (`HereIsApp`, `ThereIsApp`). So `IInv` and
`ProcInv` hold in both, and `DoubleClaimsStayFenced` needs one conjunct more, `Twice`: a
claim that both hold is on record. It holds because a job must be given back before it
is claimed again under the same number. `SlotsOfBothAddUp`, of `WatchedSpec` and for every lag, adds `Room`:
leases that never ran out, and what both processes may still claim on the count they
made, are together within the slots of both. Each step is that of one process with the
history beside it, so `PollFits` of `WorkerApp_proofs` serves both.

The action properties need more, since a step of one process is no step of the other.
With the Job objects of both put together (`B`), every step is a transaction of
`JobStore` or none (`SharedRefinement`): no process reports an outcome (`TableSteps`),
and a Job object that one drops is gone only if the other does not hold it
(`HereInBoth`, `ThereInBoth`). `SharedLifecycle` is what follows: the refinement of
`JobLifecycle`, `FinalStatesStick`, `LapsedLeaseIsDead` and `LiveLeaseIsHonoured`.

`Timing_proofs` proves `ExecutionTypes` and `ReportsAreTrue` under
`ExecutionAssumption` and `NullAssumption`. `ExecutionInv` adds two facts: a call is
in `cancelling` or `overrun` only once its deadline was met, and a call at work has a handler. It
is split into a formula per call (`Standing`), since a step moves one call
(`OneCallMoves`). A registration disturbs none of them, because it never replaces a
handler.

It also proves the bounds of `poll_timing` for all settings the validators
accept, under `PollAssumption`: `PollTypeCorrectness`, `WaitsAreBounded`,
`ReaperIsInTime` and `LoopStopsPromptly`. The strengthening `PlaceBounds` gives, for
each place of the loop, how far behind the last reap and the signal may be on
arrival, and how long the loop may stay. Each step then adds at most one transaction
or one wait to the bound before it.

`Migrations_proofs` proves the three properties of the run `migrations` for any number
of deployments, rows, queues and keys. `MigrationInv` says that the schema is
`SchemaAt(revision)`, a closed form of what each revision adds and replaces, that the
rows satisfy its unique constraints, and that commands name revisions of the chain. It
is preserved because a command that applies leads from one such schema to another
(`CommandLeads`) under constraints that the rows still satisfy (`RowsSurvive`).

- Scripts recurse over positions. A theorem of the library about induction cannot be
  used, because it takes an operator, but least elements can: a set of positions that
  holds 0 and every successor holds all of them (`PositionInduction`). So whoever follows
  a script step by step reaches its end (`ResultIsTheEnd`, `MigratedIsTheEnd`).
- One lemma for each revision, in both directions, follows its statements. Most of them
  put one object in the place of another among objects that stay (`Kept`).
- A key that is unique in the table is unique in its queue, so no upgrade fails
  (`Upgraded`). A downgrade fails where it restores the constraint on the whole table
  while rows share a key (`SharedKeyFails`), and nowhere else (`Downgraded`).
  `CommandsMostlyApply` is what this says of the commands.
- `ModelsMatchHead` compares the closed form with `core/models.py`, object by object.

Every strengthening above was also checked by TLC, on the instance of a run of its
module; so was `SharedRefinement`, on that of `shared_name`.

Assumptions. The theorems hold for all constants that satisfy the assumptions of their
modules. What these ask beyond types: finitely many jobs wherever rows are counted
(`AppAssumption`, `ViewsAssumption`), a positive concurrency, ids and queue
names that are numbers where a list is ordered by them, and a NULL that is no value of a
column. Those of `Migrations_proofs` need no assumption. No theorem restricts the lag.

Only model-checked:

- The liveness properties (`LapsedJobsAreReaped`, `ShutdownCompletes`, `CallsEnd`), since
  liveness under fairness and ENABLED are out of the prover's reach, and what a run shows
  violated.

Every other property of a passing run is the subject of a theorem.

## Not modelled

- The command line, the parsing of settings, logging and the empty dashboard: text,
  read or written once, on which no later state depends. Their results are the
  constants `Serves`, `Concurrency`, `LeaseTTL` and the settings of `PollLoop`.
- Validation of request fields. `MaxRetries` and `RunAt` stand for what it lets
  through.
- Engine and pool of SQLAlchemy, and the rules of PostgreSQL beyond READ COMMITTED row
  locks, unique indexes and `SKIP LOCKED`.
- The order of a claim by priority and creation time. It narrows the choice that
  `ClaimJobs` leaves open, and no property here depends on it.
- The filters of the lists by queue and job type, which are equal to the filter by
  status in what they read and when.
- In `Migrations`, column types and defaults, and the offline mode, which prints SQL.
- The derived status in the lists of `JobViews`: no property there depends on it.
- In `SharedName`, transactions of the two processes that overlap. `Transactions` has
  overlapping transactions, of one worker name.
- An outcome reported by a worker process: `run_loop` executes no job in this version.

## Plan

All components with state have their module. What is left is depth:

1. Proofs: `SharedName` with failing connections, as `WorkerFaults` has them; the
   invariants of the requests (`JobsApi`) over `Transactions` in place of `JobStore`.
2. `Transactions` with keys under contention and a second worker name, on smaller sets
   of kinds.
3. The order of a claim, as a fairness question: whether a stream of urgent jobs can
   keep a plain one waiting for ever.
4. Liveness of two workers with failures.
