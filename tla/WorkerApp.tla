------------------------------ MODULE WorkerApp ------------------------------
(***************************************************************************)
(* Worker processes (worker/app.py) over the tables of JobStore: main,     *)
(* run_loop and the heartbeat task of every claimed job, with shutdown     *)
(* signals, crashes and restarts.  The API acts in between.                *)
(*                                                                         *)
(* A step is what happens up to the next await that lets others run: one   *)
(* transaction, or the code between two of them.  A transaction that the   *)
(* unique constraint on job_attempts aborts raises IntegrityError: out of  *)
(* run_loop into main's finally, or into the except clause around release. *)
(*                                                                         *)
(* Abstractions, beyond JobStore's:                                        *)
(*  - Sleeping takes any time: poll interval, its backoff and the          *)
(*    heartbeat interval are left open, so a process may also stall longer *)
(*    than a lease.                                                        *)
(*  - A transaction finds no row locked by another one, so a claim or reap *)
(*    takes all it may; JobStore covers what SKIP LOCKED passes over.      *)
(*    priority and created_at are not modelled: a claim takes any rows.    *)
(*  - One process per worker name; a restart may reuse the name.           *)
(*  - run_loop executes no job yet, so no outcome is reported.             *)
(***************************************************************************)
EXTENDS JobStore

CONSTANTS
  Concurrency,  \* args.concurrency
  MaxStops,     \* bound: how many signals and crashes happen in all
  LastRequest   \* bound: the API is used until then

\* Job is finite: the jobs in flight are counted.
ASSUME AppAssumption ==
  /\ Concurrency \in Nat \ {0} /\ IsFiniteSet(Job)
  /\ MaxStops \in Nat /\ LastRequest \in Nat

VARIABLES
  proc,     \* proc[w]: the process of worker w
  workers,  \* workers[w]: status in the row of worker w, or NULL
  stops     \* signals and crashes so far

appVars == <<proc, workers, stops>>
allVars == <<vars, appVars>>

\* "none": not in heartbeat_tasks.  "waiting": in wait_for.  "ending":
\* extend_lease returned False and the coroutine has yet to return.  "done".
TaskState == {"none", "waiting", "ending", "done"}

Place == {"down", "register", "loop", "reap", "count", "claim", "spawn", "sleep",
          "finally", "release", "offline"}

Process == [pc: Place, shutdown: BOOLEAN, reap_due: BOOLEAN,
            remaining: Nat, poll_time: Nat, tasks: [Job -> TaskState]]

NoTasks == [j \in Job |-> "none"]

Idle(pc, reap_due) ==
  [pc |-> pc, shutdown |-> FALSE, reap_due |-> reap_due,
   remaining |-> 0, poll_time |-> 0, tasks |-> NoTasks]

At(w, place) == proc[w].pc = place

Goto(w, place) == proc' = [proc EXCEPT ![w].pc = place]

MyClaim(w) == {s \in snapshots : s.worker = w}

------------------------------------------------------------------------------
(* main and run_loop. *)

\* last_reap_at is 0.0, so the first reap is due unless the host just booted.
Start(w) ==
  /\ At(w, "down")
  /\ \E reap_due \in BOOLEAN : proc' = [proc EXCEPT ![w] = Idle("register", reap_due)]
  /\ UNCHANGED <<vars, workers, stops>>

Register(w) ==
  /\ At(w, "register")
  /\ Goto(w, "loop")
  /\ workers' = [workers EXCEPT ![w] = "running"]
  /\ UNCHANGED <<vars, stops>>

\* Mutant: the loop never looks at the event.
LoopTest_IgnoresShutdown(w) ==
  /\ At(w, "loop")
  /\ Goto(w, "reap")
  /\ UNCHANGED <<vars, workers, stops>>

\* The while condition, and the worker's own heartbeat.
LoopTest(w) ==
  /\ At(w, "loop")
  /\ Goto(w, IF proc[w].shutdown THEN "finally" ELSE "reap")
  /\ UNCHANGED <<vars, workers, stops>>

\* Mutant: a worker reaps once, when it starts.
ReapFallsDue_Never(w) == FALSE

\* reaper_interval_seconds have passed since last_reap_at.
ReapFallsDue(w) ==
  /\ ~At(w, "down") /\ ~proc[w].reap_due
  /\ proc' = [proc EXCEPT ![w].reap_due = TRUE]
  /\ UNCHANGED <<vars, workers, stops>>

SkipReap(w) ==
  /\ At(w, "reap") /\ ~proc[w].reap_due
  /\ Goto(w, "count")
  /\ UNCHANGED <<vars, workers, stops>>

\* ORDER BY lease_expires_at LIMIT ReapLimit
ReapBatches ==
  LET E == Expired(now)
      n == IF Cardinality(E) < ReapLimit THEN Cardinality(E) ELSE ReapLimit
  IN  {S \in SUBSET E :
         /\ Cardinality(S) = n
         /\ \A i \in S, k \in E \ S : jobs[i].lease_expires_at <= jobs[k].lease_expires_at}

Reap(w) ==
  /\ At(w, "reap") /\ proc[w].reap_due
  /\ proc' = [proc EXCEPT ![w].pc = "count", ![w].reap_due = FALSE]
  /\ \/ \E S \in ReapBatches :
          \E delay \in [S -> 0..RetryMax] : ReapExpiredJobs(S, delay, now)
     \/ {} \in ReapBatches /\ UNCHANGED vars
  /\ UNCHANGED <<workers, stops>>

\* One job whose attempt number has a row already fails the whole batch.
ReapFails(w) ==
  /\ At(w, "reap") /\ proc[w].reap_due
  /\ \E S \in ReapBatches : \E j \in S : Stuck(j)
  /\ Goto(w, "finally")
  /\ UNCHANGED <<vars, workers, stops>>

\* Expired jobs do not count.
CountInFlight(w, t) ==
  Cardinality({j \in Job : HoldsLock(w, j) /\ jobs[j].lease_expires_at > t})

\* Mutant: every poll asks for a full batch.
Remaining_IgnoresInFlight(w, t) == Concurrency

Remaining(w, t) ==
  LET n == CountInFlight(w, t) IN IF n < Concurrency THEN Concurrency - n ELSE 0

\* The first statement of the transaction that claims: its now() is fixed here.
Count(w) ==
  /\ At(w, "count")
  /\ proc' = [proc EXCEPT ![w].pc = "claim", ![w].poll_time = now,
                          ![w].remaining = Remaining(w, now)]
  /\ UNCHANGED <<vars, workers, stops>>

Claim(w) ==
  LET t  == proc[w].poll_time
      C  == Claimable(w, t)
      n  == IF Cardinality(C) < proc[w].remaining THEN Cardinality(C)
                                                  ELSE proc[w].remaining
  IN  /\ At(w, "claim")
      /\ proc' = [proc EXCEPT ![w].pc = "spawn", ![w].poll_time = 0, ![w].remaining = 0]
      /\ \/ \E S \in SUBSET C : Cardinality(S) = n /\ ClaimJobs(w, S, t)
         \/ n = 0 /\ UNCHANGED vars
      /\ UNCHANGED <<workers, stops>>

\* A job with a task that is not done gets no new one; done tasks go.
TasksAfter(tasks, claimed) ==
  [j \in Job |-> CASE j \in claimed /\ tasks[j] \in {"none", "done"} -> "waiting"
                   [] j \notin claimed /\ tasks[j] = "done"          -> "none"
                   [] OTHER                                          -> tasks[j]]

\* Nothing else of the process runs between these assignments.  The claimed
\* Job objects are not kept.
Spawn(w) ==
  /\ At(w, "spawn")
  /\ proc' = [proc EXCEPT ![w].pc = "sleep",
                ![w].tasks = TasksAfter(@, {s.job : s \in MyClaim(w)})]
  /\ snapshots' = snapshots \ MyClaim(w)
  /\ UNCHANGED <<jobs, issued, job_attempts, now, workers, stops>>

Wake(w) ==
  /\ At(w, "sleep")
  /\ Goto(w, "loop")
  /\ UNCHANGED <<vars, workers, stops>>

CancelHeartbeats(w) ==
  /\ At(w, "finally")
  /\ proc' = [proc EXCEPT ![w].pc = "release", ![w].tasks = NoTasks]
  /\ UNCHANGED <<vars, workers, stops>>

\* Mutant: the jobs are released one by one, each in its own transaction.
Release_OneByOne(w) ==
  /\ At(w, "release")
  /\ \/ \E j \in InFlight(w) :
          /\ ~AttemptRecorded(j, jobs[j].attempts)
          /\ jobs' = [jobs EXCEPT ![j] = Released(@)]
          /\ job_attempts' = job_attempts \cup {Attempt(j, jobs[j].attempts, "cancelled")}
          /\ UNCHANGED <<issued, snapshots, now, proc>>
     \/ (\A j \in InFlight(w) : Stuck(j)) /\ Goto(w, "offline") /\ UNCHANGED vars
  /\ UNCHANGED <<workers, stops>>

\* An IntegrityError is logged and leaves the jobs as they are.
Release(w) ==
  /\ At(w, "release")
  /\ Goto(w, "offline")
  /\ \/ ReleaseInFlightJobs(w)
     \/ InFlight(w) = {} /\ UNCHANGED vars
     \/ (\E j \in InFlight(w) : Stuck(j)) /\ UNCHANGED vars
  /\ UNCHANGED <<workers, stops>>

MarkOffline(w) ==
  /\ At(w, "offline")
  /\ workers' = [workers EXCEPT ![w] = "offline"]
  /\ proc' = [proc EXCEPT ![w] = Idle("down", FALSE)]
  /\ UNCHANGED <<vars, stops>>

------------------------------------------------------------------------------
(* The heartbeat task of job j. *)

Beat(w, j) ==
  /\ proc[w].tasks[j] = "waiting"
  /\ \E t \in TxNow : ExtendLease(w, j, t)
  /\ UNCHANGED appVars

BeatFindsNothing(w, j) ==
  /\ proc[w].tasks[j] = "waiting"
  /\ \E t \in TxNow : ~(HoldsLock(w, j) /\ jobs[j].lease_expires_at > t)
  /\ proc' = [proc EXCEPT ![w].tasks[j] = "ending"]
  /\ UNCHANGED <<vars, workers, stops>>

TaskReturns(w, j) ==
  /\ \/ proc[w].tasks[j] = "ending"
     \/ proc[w].tasks[j] = "waiting" /\ proc[w].shutdown
  /\ proc' = [proc EXCEPT ![w].tasks[j] = "done"]
  /\ UNCHANGED <<vars, workers, stops>>

------------------------------------------------------------------------------
(* What befalls a process. *)

\* SIGINT or SIGTERM.
Signal(w) ==
  /\ ~At(w, "down") /\ ~proc[w].shutdown /\ stops < MaxStops
  /\ proc' = [proc EXCEPT ![w].shutdown = TRUE]
  /\ stops' = stops + 1
  /\ UNCHANGED <<vars, workers>>

Crash(w) ==
  /\ ~At(w, "down") /\ stops < MaxStops
  /\ proc' = [proc EXCEPT ![w] = Idle("down", FALSE)]
  /\ stops' = stops + 1
  /\ snapshots' = snapshots \ MyClaim(w)
  /\ UNCHANGED <<jobs, issued, job_attempts, now, workers>>

\* Bound: a claiming transaction is open for at most MaxTxLag ticks.
ClockTicks ==
  /\ \A w \in Worker : At(w, "claim") => now < proc[w].poll_time + MaxTxLag
  /\ Tick
  /\ UNCHANGED appVars

------------------------------------------------------------------------------
AppInit ==
  /\ Init
  /\ proc = [w \in Worker |-> Idle("down", FALSE)]
  /\ workers = [w \in Worker |-> NULL]
  /\ stops = 0

\* What main and run_loop of worker w do next.
MainStep(w) ==
  \/ Start(w) \/ Register(w) \/ LoopTest(w) \/ SkipReap(w) \/ Reap(w) \/ ReapFails(w)
  \/ Count(w) \/ Claim(w) \/ Spawn(w) \/ Wake(w)
  \/ CancelHeartbeats(w) \/ Release(w) \/ MarkOffline(w)

TaskStep(w, j) == Beat(w, j) \/ BeatFindsNothing(w, j) \/ TaskReturns(w, j)

AppNext ==
  \/ now <= LastRequest /\ ApiNext /\ UNCHANGED appVars
  \/ \E w \in Worker :
       \/ MainStep(w) \/ ReapFallsDue(w) \/ Signal(w) \/ Crash(w)
       \/ \E j \in Job : TaskStep(w, j)
  \/ ClockTicks

AppSpec == AppInit /\ [][AppNext]_allVars

\* asyncio runs every ready task, timers fire, and somebody restarts a worker
\* that is down.
AppFairness ==
  \A w \in Worker :
    /\ WF_allVars(MainStep(w))
    /\ WF_allVars(ReapFallsDue(w))
    /\ \A j \in Job : WF_allVars(TaskStep(w, j))

FairAppSpec == AppSpec /\ AppFairness

------------------------------------------------------------------------------
(* Properties. *)

\* The slots that the poll in progress may still fill.
Pending(w) == IF At(w, "claim") THEN proc[w].remaining ELSE 0

AppTypeOK ==
  /\ TypeOK
  /\ proc \in [Worker -> Process]
  /\ workers \in [Worker -> {"running", "offline", NULL}]
  /\ stops \in 0..MaxStops

\* A worker that went offline holds no job, unless one of its jobs is stuck:
\* then the release aborts and all of them stay locked until they expire.
OfflineHoldsNothing ==
  \A w \in Worker : workers[w] = "offline" =>
    InFlight(w) = {} \/ \E j \in InFlight(w) : Stuck(j)

\* Whatever the processes do to the tables, they do in the transactions of
\* JobStore: the claim's now() is never older than a transaction may be, and
\* what claims, reaps and releases is one process between two of its awaits.
ImplementsStore == Spec

Lapsed(j) == j \in Expired(now)

\* A job whose lease lapsed is requeued or buried by some worker's reaper,
\* unless a stuck job stands in the way of a batch.
LapsedJobsAreReaped ==
  \A j \in Job : Lapsed(j) ~> (~Lapsed(j) \/ \E i \in Job : Stuck(i))

\* A signalled worker gets through its cleanup and stops.
ShutdownCompletes ==
  \A w \in Worker : proc[w].shutdown ~> At(w, "down")

\* What a docstring and two tests promise, and the code does not keep.

\* test_run_loop_respects_concurrency_limit: a worker never holds more live
\* leases than its concurrency.
ConcurrencyIsKept ==
  \A w \in Worker : CountInFlight(w, now) <= Concurrency

\* reap_expired_jobs: "Requeue/retry RUNNING jobs whose owning worker's lease
\* expired."
ExpiredJobsAreRequeued == \A j \in Job : Lapsed(j) ~> ~Lapsed(j)

\* test_run_loop_extends_job_lease_while_in_flight: whatever run_loop has just
\* claimed has a heartbeat task to extend its lease.
ClaimedJobsHaveHeartbeats ==
  [][\A w \in Worker : At(w, "spawn") /\ proc'[w].pc = "sleep" =>
       \A s \in MyClaim(w) : proc'[w].tasks[s.job] = "waiting"]_allVars
==============================================================================
