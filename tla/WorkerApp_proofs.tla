-------------------------- MODULE WorkerApp_proofs --------------------------
(***************************************************************************)
(* The processes of WorkerApp do to the tables only what JobStore allows,  *)
(* so its theorems hold of them.                                           *)
(***************************************************************************)
EXTENDS WorkerApp, LeaseHistory, JobStore_proofs, FiniteSetTheorems

\* The now() a polling process fixed when it counted can still be the now()
\* of the transaction it claims in.
PollTimes ==
  \A w \in Worker : At(w, "claim") => proc[w].poll_time \in TxNow

ProcInv ==
  /\ now \in Nat
  /\ proc \in [Worker -> Process]
  /\ PollTimes

BooksOK ==
  /\ workers \in [Worker -> {"running", "offline", NULL}]
  /\ stops \in 0..MaxStops

\* A transaction may be as fast as the clock can tell.
LEMMA NowIsTxNow == ASSUME now \in Nat PROVE now \in TxNow
BY StoreAssumption DEF StoreAssumption, TxNow

\* What happens to the tables while nobody reports an outcome.
TablesNext ==
  \/ ApiNext \/ Tick
  \/ \E w \in Worker :
       \/ \E S \in SUBSET Job, t \in TxNow : ClaimJobs(w, S, t)
       \/ \E j \in Job, t \in TxNow : ExtendLease(w, j, t)
       \/ ReleaseInFlightJobs(w)
       \/ \E S \in SUBSET {s \in snapshots : s.worker = w} : LoseSnapshots(S)
  \/ \E t \in TxNow, S \in SUBSET Job :
       \E delay \in [S -> 0..RetryMax] : ReapExpiredJobs(S, delay, t)

\* A worker may drop the Job objects it holds.
LEMMA DropMyClaim ==
  ASSUME NEW w \in Worker, snapshots' = snapshots \ MyClaim(w),
         UNCHANGED <<jobs, issued, job_attempts, now>>
  PROVE  [TablesNext]_vars
<1>1. CASE MyClaim(w) = {}
  BY <1>1 DEF vars
<1>2. CASE MyClaim(w) # {}
  <2>1. LoseSnapshots({s \in snapshots : s.worker = w})
    BY <1>2 DEF LoseSnapshots, MyClaim
  <2>2. QED
    BY <2>1 DEF TablesNext
<1>3. QED
  BY <1>1, <1>2

\* What a process does to the tables is a transaction, and never an outcome.
LEMMA TableSteps ==
  ASSUME ProcInv, [AppNext]_allVars
  PROVE  [TablesNext]_vars
<1>1. now \in TxNow
  BY NowIsTxNow DEF ProcInv
<1>2. ASSUME NEW w \in Worker, Reap(w) PROVE [TablesNext]_vars
  <2>1. CASE UNCHANGED vars
    BY <2>1
  <2>2. CASE \E S \in ReapBatches : \E delay \in [S -> 0..RetryMax] :
               ReapExpiredJobs(S, delay, now)
    <3>1. ReapBatches \subseteq SUBSET Job
      BY DEF ReapBatches, Expired
    <3>2. QED
      BY <1>1, <2>2, <3>1 DEF TablesNext
  <2>3. QED
    BY <1>2, <2>1, <2>2 DEF Reap
<1>3. ASSUME NEW w \in Worker, Claim(w) PROVE [TablesNext]_vars
  <2>1. proc[w].poll_time \in TxNow
    BY <1>3 DEF ProcInv, PollTimes, Claim
  <2>2. Claimable(w, proc[w].poll_time) \subseteq Job
    BY DEF Claimable
  <2>3. CASE UNCHANGED vars
    BY <2>3
  <2>4. CASE \E S \in SUBSET Claimable(w, proc[w].poll_time) :
               ClaimJobs(w, S, proc[w].poll_time)
    BY <2>1, <2>2, <2>4 DEF TablesNext
  <2>5. QED
    BY <1>3, <2>3, <2>4 DEF Claim
<1>4. ASSUME NEW w \in Worker, Spawn(w) \/ Crash(w) PROVE [TablesNext]_vars
  BY <1>4, DropMyClaim DEF Spawn, Crash
<1>5. ASSUME NEW w \in Worker, Release(w) PROVE [TablesNext]_vars
  BY <1>5 DEF Release, TablesNext
<1>6. ASSUME NEW w \in Worker, NEW j \in Job, Beat(w, j) PROVE [TablesNext]_vars
  BY <1>6 DEF Beat, TablesNext
<1>7. ASSUME NEW w \in Worker, MainStep(w) PROVE [TablesNext]_vars
  BY <1>2, <1>3, <1>4, <1>5, <1>7
  DEF MainStep, Start, Register, LoopTest, SkipReap, ReapFails, Count, Wake,
      CancelHeartbeats, MarkOffline
<1>8. ASSUME NEW w \in Worker, ReapFallsDue(w) \/ Signal(w) PROVE [TablesNext]_vars
  BY <1>8 DEF ReapFallsDue, Signal
<1>9. ASSUME NEW w \in Worker, NEW j \in Job, TaskStep(w, j) PROVE [TablesNext]_vars
  BY <1>6, <1>9 DEF TaskStep, BeatFindsNothing, TaskReturns
<1>10. CASE ApiNext \/ ClockTicks
  BY <1>10 DEF ClockTicks, TablesNext
<1>11. CASE UNCHANGED allVars
  BY <1>11 DEF allVars, vars
<1>12. QED
  BY <1>4, <1>7, <1>8, <1>9, <1>10, <1>11 DEF AppNext

\* So it is a step of JobStore.
LEMMA StoreSteps ==
  ASSUME ProcInv, [AppNext]_allVars
  PROVE  [Next]_vars
<1>1. TablesNext => Next
  BY DEF TablesNext, Next, WorkerNext
<1>2. QED
  BY <1>1, TableSteps

------------------------------------------------------------------------------
(* The processes keep their types and their poll times. *)

\* The state of a process moves within Process, field by field.
LEMMA PcUpdate ==
  ASSUME NEW p \in Process, NEW x \in Place
  PROVE  LET q == [p EXCEPT !.pc = x]
         IN  /\ q \in Process /\ q.pc = x /\ q.poll_time = p.poll_time
             /\ q.remaining = p.remaining
BY DEF Process

\* The same for reap_due.
LEMMA ReapDueUpdate ==
  ASSUME NEW p \in Process, NEW x \in BOOLEAN
  PROVE  LET q == [p EXCEPT !.reap_due = x]
         IN  /\ q \in Process /\ q.pc = p.pc /\ q.poll_time = p.poll_time
             /\ q.remaining = p.remaining
BY DEF Process

\* The same for shutdown.
LEMMA ShutdownUpdate ==
  ASSUME NEW p \in Process, NEW x \in BOOLEAN
  PROVE  LET q == [p EXCEPT !.shutdown = x]
         IN  /\ q \in Process /\ q.pc = p.pc /\ q.poll_time = p.poll_time
             /\ q.remaining = p.remaining
BY DEF Process

\* The same for tasks.
LEMMA TasksUpdate ==
  ASSUME NEW p \in Process, NEW x \in [Job -> TaskState]
  PROVE  LET q == [p EXCEPT !.tasks = x]
         IN  /\ q \in Process /\ q.pc = p.pc /\ q.poll_time = p.poll_time
             /\ q.remaining = p.remaining
BY DEF Process

\* The reaper is done: on to the count.
LEMMA ReapUpdate ==
  ASSUME NEW p \in Process
  PROVE  LET q == [[p EXCEPT !.pc = "count"] EXCEPT !.reap_due = FALSE]
         IN  q \in Process /\ q.pc = "count"
BY DEF Process, Place

\* The two statements of a poll fill and empty poll_time and remaining.
Polled(p, pc, t, n) ==
  [[[p EXCEPT !.pc = pc] EXCEPT !.poll_time = t] EXCEPT !.remaining = n]

\* What a poll makes of a process.
LEMMA PollUpdate ==
  ASSUME NEW p \in Process, NEW pc \in Place, NEW t \in Nat, NEW n \in Nat
  PROVE  /\ Polled(p, pc, t, n) \in Process /\ Polled(p, pc, t, n).pc = pc
         /\ Polled(p, pc, t, n).poll_time = t /\ Polled(p, pc, t, n).remaining = n
BY DEF Polled, Process

\* Heartbeat tasks come and go with a change of place.
Tended(p, pc, tasks) == [[p EXCEPT !.pc = pc] EXCEPT !.tasks = tasks]

\* What tending the tasks makes of a process.
LEMMA TendUpdate ==
  ASSUME NEW p \in Process, NEW pc \in Place, NEW tasks \in [Job -> TaskState]
  PROVE  Tended(p, pc, tasks) \in Process /\ Tended(p, pc, tasks).pc = pc
BY DEF Tended, Process

\* Only worker w moves, to q; and if it is then about to claim, its poll time
\* is of this instant or the one it had.
Moves(w, q) ==
  /\ q \in Process
  /\ proc' = [proc EXCEPT ![w] = q]
  /\ q.pc = "claim" => \/ q.poll_time = now
                       \/ At(w, "claim") /\ q.poll_time = proc[w].poll_time

\* A worker that goes somewhere other than to its claim.
LEMMA GotoMoves ==
  ASSUME ProcInv, NEW w \in Worker, NEW place \in Place \ {"claim"}, Goto(w, place)
  PROVE  Moves(w, [proc[w] EXCEPT !.pc = place])
<1>1. proc[w] \in Process /\ place \in Place
  BY DEF ProcInv
<1>2. /\ [proc[w] EXCEPT !.pc = place] \in Process
      /\ [proc[w] EXCEPT !.pc = place].pc = place
  BY <1>1, PcUpdate
<1>3. proc' = [proc EXCEPT ![w] = [proc[w] EXCEPT !.pc = place]]
  BY DEF Goto
<1>4. QED
  BY <1>2, <1>3 DEF Moves

\* What a finished poll leaves of the heartbeat tasks.
LEMMA TasksAfterType ==
  ASSUME NEW tasks \in [Job -> TaskState], NEW claimed
  PROVE  TasksAfter(tasks, claimed) \in [Job -> TaskState]
BY DEF TasksAfter, TaskState

\* The remaining capacity is clamped at zero.
LEMMA RemainingType ==
  ASSUME NEW w \in Worker, NEW t \in Nat
  PROVE  CountInFlight(w, t) \in Nat /\ Remaining(w, t) \in Nat
<1>1. CountInFlight(w, t) \in Nat
  BY AppAssumption, FS_Subset, FS_CardinalityType DEF AppAssumption, CountInFlight
<1>2. QED
  BY <1>1, AppAssumption DEF AppAssumption, Remaining

\* Every step of a process is such a move.
LEMMA WorkerMoves ==
  ASSUME ProcInv, NEW w \in Worker,
         \/ MainStep(w) \/ ReapFallsDue(w) \/ Signal(w) \/ Crash(w)
         \/ \E j \in Job : TaskStep(w, j)
  PROVE  UNCHANGED proc \/ \E q \in Process : Moves(w, q)
<1> DEFINE p == proc[w]
<1>1. p \in Process /\ NoTasks \in [Job -> TaskState] /\ p.tasks \in [Job -> TaskState]
  BY DEF ProcInv, NoTasks, TaskState, Process
<1>0. "claim" \in Place /\ "spawn" \in Place /\ "sleep" \in Place /\ "release" \in Place
  BY DEF Place
<1>2. \A pc \in Place, b \in BOOLEAN : Idle(pc, b) \in Process /\ Idle(pc, b).pc = pc
  BY <1>1 DEF Idle, Process
<1>3. ASSUME NEW place \in Place \ {"claim"}, Goto(w, place)
      PROVE  \E q \in Process : Moves(w, q)
  BY <1>3, GotoMoves DEF Moves
<1>4. CASE Start(w) \/ MarkOffline(w) \/ Crash(w)
  <2>1. PICK pc \in {"register", "down"}, b \in BOOLEAN :
          proc' = [proc EXCEPT ![w] = Idle(pc, b)]
    BY <1>4 DEF Start, MarkOffline, Crash
  <2>2. Idle(pc, b) \in Process /\ Idle(pc, b).pc # "claim"
    BY <1>2 DEF Place
  <2>3. QED
    BY <2>1, <2>2 DEF Moves
<1>5. CASE \/ Register(w) \/ LoopTest(w) \/ SkipReap(w) \/ ReapFails(w) \/ Wake(w)
           \/ Release(w)
  <2>1. {"loop", "finally", "reap", "count", "offline"} \subseteq Place \ {"claim"}
    BY DEF Place
  <2>2. QED
    BY <1>3, <1>5, <2>1 DEF Register, LoopTest, SkipReap, ReapFails, Wake, Release
<1>6. CASE Reap(w)
  <2> DEFINE q == [[p EXCEPT !.pc = "count"] EXCEPT !.reap_due = FALSE]
  <2>1. q \in Process /\ q.pc = "count"
    BY <1>1, ReapUpdate
  <2>2. proc' = [proc EXCEPT ![w] = q]
    BY <1>6, <1>1 DEF Reap, ProcInv
  <2>3. QED
    BY <2>1, <2>2 DEF Moves
<1>7. CASE Count(w)
  <2> DEFINE n == Remaining(w, now)
             q == Polled(p, "claim", now, n)
  <2>1. n \in Nat /\ now \in Nat
    BY RemainingType DEF ProcInv
  <2>2. q \in Process /\ q.poll_time = now
    <3>1. p \in Process /\ "claim" \in Place
      BY <1>0, <1>1
    <3> HIDE DEF n, p
    <3>2. \A t \in Nat, k \in Nat : Polled(p, "claim", t, k) \in Process
                                    /\ Polled(p, "claim", t, k).poll_time = t
      BY <3>1, PollUpdate
    <3>3. QED
      BY <2>1, <3>2
  <2>3. proc' = [proc EXCEPT ![w] = q]
    BY <1>7, <1>1 DEF Count, Polled, ProcInv
  <2>4. QED
    BY <2>2, <2>3 DEF Moves
<1>8. CASE Claim(w)
  <2> DEFINE q == Polled(p, "spawn", 0, 0)
  <2>1. q \in Process /\ q.pc = "spawn"
    BY <1>0, <1>1, PollUpdate
  <2>2. proc' = [proc EXCEPT ![w] = q]
    BY <1>8, <1>1 DEF Claim, Polled, ProcInv
  <2>3. QED
    BY <2>1, <2>2 DEF Moves
<1>9. CASE Spawn(w)
  <2> DEFINE tasks == TasksAfter(p.tasks, {s.job : s \in MyClaim(w)})
             q == Tended(p, "sleep", tasks)
  <2>1. tasks \in [Job -> TaskState]
    BY <1>1, TasksAfterType
  <2>2. q \in Process /\ q.pc = "sleep"
    BY <1>0, <1>1, <2>1, TendUpdate
  <2>3. proc' = [proc EXCEPT ![w] = q]
    BY <1>9, <1>1 DEF Spawn, Tended, ProcInv
  <2>4. QED
    BY <2>2, <2>3 DEF Moves
<1>10. CASE CancelHeartbeats(w)
  <2> DEFINE q == Tended(p, "release", NoTasks)
  <2>1. q \in Process /\ q.pc = "release"
    BY <1>0, <1>1, TendUpdate
  <2>2. proc' = [proc EXCEPT ![w] = q]
    BY <1>10, <1>1 DEF CancelHeartbeats, Tended, ProcInv
  <2>3. QED
    BY <2>1, <2>2 DEF Moves
<1>11. CASE ReapFallsDue(w) \/ Signal(w)
  <2> DEFINE q == [p EXCEPT !.reap_due = TRUE]
             r == [p EXCEPT !.shutdown = TRUE]
  <2>1. /\ q \in Process /\ q.pc = p.pc /\ q.poll_time = p.poll_time
        /\ r \in Process /\ r.pc = p.pc /\ r.poll_time = p.poll_time
    BY <1>1, ReapDueUpdate, ShutdownUpdate
  <2>2. proc' = [proc EXCEPT ![w] = q] \/ proc' = [proc EXCEPT ![w] = r]
    BY <1>11 DEF ReapFallsDue, Signal
  <2>3. QED
    BY <2>1, <2>2 DEF Moves, At
<1>12. CASE \E j \in Job : TaskStep(w, j)
  <2>1. CASE UNCHANGED proc
    BY <2>1
  <2>2. CASE \E j \in Job, state \in {"ending", "done"} :
               proc' = [proc EXCEPT ![w].tasks[j] = state]
    <3>1. PICK j \in Job, state \in {"ending", "done"} :
            proc' = [proc EXCEPT ![w].tasks[j] = state]
      BY <2>2
    <3> DEFINE tasks == [p.tasks EXCEPT ![j] = state]
               q == [p EXCEPT !.tasks = tasks]
    <3>2. tasks \in [Job -> TaskState]
      BY <1>1 DEF TaskState
    <3>3. q \in Process /\ q.pc = p.pc /\ q.poll_time = p.poll_time
      BY <1>1, <3>2, TasksUpdate
    <3>4. proc' = [proc EXCEPT ![w] = q]
      BY <3>1
    <3>5. QED
      BY <3>3, <3>4 DEF Moves, At
  <2>3. QED
    BY <1>12, <2>1, <2>2 DEF TaskStep, Beat, BeatFindsNothing, TaskReturns, appVars
<1>13. QED
  BY <1>4, <1>5, <1>6, <1>7, <1>8, <1>9, <1>10, <1>11, <1>12 DEF MainStep

\* What a process does takes no time.
LEMMA WorkersTakeNoTime ==
  ASSUME NEW w \in Worker,
         \/ MainStep(w) \/ ReapFallsDue(w) \/ Signal(w) \/ Crash(w)
         \/ \E j \in Job : TaskStep(w, j)
  PROVE  UNCHANGED now
BY DEF MainStep, Start, Register, LoopTest, SkipReap, Reap, ReapFails, Count, Claim, Spawn,
       Wake, CancelHeartbeats, Release, MarkOffline, ReapFallsDue, Signal, Crash, TaskStep,
       Beat, BeatFindsNothing, TaskReturns, ReapExpiredJobs, ClaimJobs, ReleaseInFlightJobs,
       ExtendLease, vars

\* The clock moves in ClockTicks alone.
LEMMA NowSteps ==
  ASSUME [AppNext]_allVars
  PROVE  UNCHANGED now \/ ClockTicks
<1>1. CASE ApiNext
  BY <1>1 DEF ApiNext, CreateJob, CancelJob, RetryJob, RetryDeadLetterJob,
              DeleteDeadLetterJob
<1>2. QED
  BY <1>1, WorkersTakeNoTime DEF AppNext, allVars, vars

\* A step moves one process at most.
LEMMA OneMoves ==
  ASSUME ProcInv, [AppNext]_allVars
  PROVE  UNCHANGED proc \/ \E w \in Worker, q \in Process : Moves(w, q)
<1>1. CASE \E w \in Worker :
             \/ MainStep(w) \/ ReapFallsDue(w) \/ Signal(w) \/ Crash(w)
             \/ \E j \in Job : TaskStep(w, j)
  BY <1>1, WorkerMoves
<1>2. CASE (ApiNext /\ UNCHANGED appVars) \/ ClockTicks \/ UNCHANGED allVars
  BY <1>2 DEF ClockTicks, appVars, allVars
<1>3. QED
  BY <1>1, <1>2 DEF AppNext

\* A process that moves while the clock stands still keeps ProcInv.
LEMMA MovesKeepInv ==
  ASSUME ProcInv, UNCHANGED now,
         UNCHANGED proc \/ \E w \in Worker, q \in Process : Moves(w, q)
  PROVE  ProcInv'
<1>1. TxNow' = TxNow /\ now \in TxNow /\ now' \in Nat
  BY NowIsTxNow DEF TxNow, ProcInv
<1>2. CASE UNCHANGED proc
  BY <1>1, <1>2 DEF ProcInv, PollTimes, At
<1>3. CASE \E w \in Worker, q \in Process : Moves(w, q)
  <2>1. PICK w \in Worker, q \in Process : Moves(w, q)
    BY <1>3
  <2>2. proc' \in [Worker -> Process] /\ proc'[w] = q
        /\ \A v \in Worker : v # w => proc'[v] = proc[v]
    BY <2>1 DEF Moves, ProcInv
  <2>3. PollTimes'
    BY <1>1, <2>1, <2>2 DEF PollTimes, At, Moves, ProcInv
  <2>4. QED
    BY <1>1, <2>2, <2>3 DEF ProcInv
<1>4. QED
  BY <1>2, <1>3

\* ProcInv is inductive.
LEMMA ProcInvStep ==
  ASSUME ProcInv, [AppNext]_allVars
  PROVE  ProcInv'
<1>1. now' \in Nat
  BY NowSteps DEF ProcInv, ClockTicks, Tick
<1>2. CASE ClockTicks
  <2>1. now' = now + 1 /\ UNCHANGED appVars
    BY <1>2 DEF ClockTicks, Tick
  <2>2. ASSUME NEW w \in Worker, At(w, "claim") PROVE proc[w].poll_time \in TxNow'
    BY <1>1, <1>2, <2>1, <2>2, StoreAssumption
    DEF StoreAssumption, ClockTicks, TxNow, ProcInv, PollTimes
  <2>3. QED
    BY <1>1, <2>1, <2>2 DEF ProcInv, PollTimes, At, appVars
<1>3. CASE UNCHANGED now
  BY <1>3, OneMoves, MovesKeepInv
<1>4. QED
  BY <1>2, <1>3, NowSteps

\* The workers' rows and the count of stops keep their types.
LEMMA BooksStep ==
  ASSUME BooksOK, [AppNext]_allVars
  PROVE  BooksOK'
<1>1. CASE UNCHANGED <<workers, stops>>
  BY <1>1 DEF BooksOK
<1>2. ASSUME NEW w \in Worker, Register(w) \/ MarkOffline(w) PROVE BooksOK'
  BY <1>2 DEF BooksOK, Register, MarkOffline
<1>3. ASSUME NEW w \in Worker, Signal(w) \/ Crash(w) PROVE BooksOK'
  <2>1. stops' = stops + 1 /\ stops < MaxStops /\ workers' = workers
    BY <1>3 DEF Signal, Crash
  <2>2. stops' \in 0..MaxStops
    BY <2>1, AppAssumption DEF BooksOK, AppAssumption
  <2>3. QED
    BY <2>1, <2>2 DEF BooksOK
<1>4. ASSUME NEW w \in Worker, MainStep(w) PROVE BooksOK'
  BY <1>1, <1>2, <1>4
  DEF MainStep, Start, LoopTest, SkipReap, Reap, ReapFails, Count, Claim, Spawn, Wake,
      CancelHeartbeats, Release
<1>5. ASSUME NEW w \in Worker, NEW j \in Job, TaskStep(w, j) PROVE BooksOK'
  BY <1>1, <1>5 DEF TaskStep, Beat, BeatFindsNothing, TaskReturns, appVars
<1>6. QED
  BY <1>1, <1>3, <1>4, <1>5 DEF AppNext, ReapFallsDue, ClockTicks, appVars, allVars

\* Before any process has started.
LEMMA AppInitInv == AppInit => ProcInv /\ BooksOK
<1>1. ASSUME AppInit PROVE ProcInv
  <2>1. Idle("down", FALSE) \in Process /\ Idle("down", FALSE).pc = "down"
    BY DEF Idle, Process, Place, NoTasks, TaskState
  <2>2. QED
    BY <1>1, <2>1 DEF AppInit, Init, ProcInv, PollTimes, At
<1>2. ASSUME AppInit PROVE BooksOK
  BY <1>2, AppAssumption DEF AppInit, BooksOK, AppAssumption
<1>3. QED
  BY <1>1, <1>2

\* Every behaviour of the processes is one of the tables.
THEOREM StoreRefinement == AppSpec => ImplementsStore
<1>1. AppInit => Init
  BY DEF AppInit
<1>2. AppSpec => []ProcInv
  BY AppInitInv, ProcInvStep, PTL DEF AppSpec
<1>3. QED
  BY <1>1, <1>2, StoreSteps, PTL DEF AppSpec, ImplementsStore, Spec

\* So the invariants of the tables hold whatever the processes do.
THEOREM AppInvariance == AppSpec => []IInv
BY StoreRefinement, Invariance, PTL DEF ImplementsStore

\* Tables and processes keep their types; the remaining capacity of a poll is
\* never negative.
THEOREM AppTypeCorrectness == AppSpec => []AppTypeOK
<1>1. AppSpec => []ProcInv
  BY AppInitInv, ProcInvStep, PTL DEF AppSpec
<1>2. AppSpec => []BooksOK
  BY AppInitInv, BooksStep, PTL DEF AppSpec
<1>3. IInv /\ ProcInv /\ BooksOK => AppTypeOK
  BY DEF IInv, ProcInv, BooksOK, AppTypeOK
<1>4. QED
  BY <1>1, <1>2, <1>3, AppInvariance, PTL

------------------------------------------------------------------------------
(* A worker that went offline. *)

\* A job that starts was waiting, and its counter goes up.
LEMMA StartedFacts ==
  ASSUME IInv, NEW j \in Job, Started(j)
  PROVE  /\ Exists(j) /\ RowOK(jobs[j]) /\ j \in issued
         /\ jobs[j].status \in {"queued", "scheduled", "retrying"}
         /\ jobs'[j] # jobs[j] /\ ~HasStatus(j, {"running"})
<1>1. /\ Exists(j) /\ RowOK(jobs[j]) /\ j \in issued /\ jobs[j].attempts \in Nat
      /\ jobs[j].status \in {"queued", "scheduled", "retrying"}
  BY RowFacts DEF Started, HasStatus, RowOK, JobRow
<1>2. jobs'[j].attempts = jobs[j].attempts + 1
  BY <1>1, TxNowIsTime, ClaimedRow DEF Started
<1>3. QED
  BY <1>1, <1>2 DEF HasStatus

\* Who holds a job after a step has held it before, or it started with the step.
LEMMA LockSteps ==
  ASSUME IInv, [Next]_vars, NEW w \in Worker, NEW j \in Job, HoldsLock(w, j)'
  PROVE  Started(j) \/ (HoldsLock(w, j) /\ (RowUnchanged(j) \/ Extended(j)))
<1>1. TxNow \subseteq Nat
  BY TxNowIsTime
<1>2. jobs'[j] # NULL /\ jobs'[j].status = "running" /\ jobs'[j].locked_by = w
  BY DEF HoldsLock, HasStatus, Exists
<1>3. RowUnchanged(j) \/ Extended(j) \/ Started(j)
  <2>1. ASSUME Created(j) PROVE FALSE
    <3>1. PICK q \in Queue, k \in Key \cup {NULL}, n \in MaxRetries,
               run_at \in RunAt \cup {NULL}, t \in TxNow :
            jobs'[j] = NewJob(q, k, n, run_at, t)
      BY <2>1 DEF Created
    <3>2. n \in Nat /\ run_at \in Nat \cup {NULL} /\ t \in Nat
      BY <1>1, StoreAssumption DEF StoreAssumption
    <3>3. jobs'[j].status \in {"queued", "scheduled"}
      BY <3>1, <3>2, NewJobRow
    <3>4. QED
      BY <1>2, <3>3
  <2>2. ~Withdrawn(j) /\ ~Rearmed(j) /\ ~Deleted(j)
    BY <1>1, <1>2, RowFacts, CancelledRow, RequeuedRow
    DEF Withdrawn, Rearmed, Deleted, HasStatus
  <2>3. ~(HasStatus(j, {"running"}) /\ Failed(j))
    BY <1>1, <1>2, RowFacts, FailedOnceRow DEF Failed, HasStatus
  <2>4. ~Reaped(j) /\ ~GivenBack(j) /\ ~Reported(j)
    BY <1>2, <2>3, RowFacts, ReleasedRow, SucceededRow
    DEF Reaped, GivenBack, Reported, HasStatus
  <2>5. QED
    BY <2>1, <2>2, <2>4, RowSteps DEF RowStep
<1>4. CASE RowUnchanged(j)
  BY <1>2, <1>4 DEF RowUnchanged, HoldsLock, HasStatus, Exists
<1>5. CASE Extended(j)
  BY <1>2, <1>5, ExtendedFacts DEF Extended, HoldsLock, HasStatus
<1>6. QED
  BY <1>3, <1>4, <1>5

\* A worker gets a lock it does not hold by claiming, and in no other way.
LEMMA OnlyClaimsLock ==
  ASSUME IInv, ProcInv, [AppNext]_allVars, NEW w \in Worker, NEW j \in Job,
         HoldsLock(w, j)'
  PROVE  Claim(w) \/ (HoldsLock(w, j) /\ (RowUnchanged(j) \/ Extended(j)))
<1>1. [Next]_vars /\ TxNow \subseteq Nat
  BY StoreSteps, TxNowIsTime
<1>2. jobs'[j] # NULL /\ jobs'[j].status = "running" /\ jobs'[j].locked_by = w
  BY DEF HoldsLock, HasStatus, Exists
<1>6. CASE Started(j)
  <2>1. /\ Exists(j) /\ RowOK(jobs[j]) /\ j \in issued
        /\ jobs[j].status \in {"queued", "scheduled", "retrying"}
    BY <1>6, StartedFacts
  <2>3. jobs'[j] # jobs[j] /\ ~HasStatus(j, {"running"})
    BY <1>6, StartedFacts
  <2>4. ASSUME ApiNext PROVE FALSE
    <3>1. jobs = [i \in Job |-> jobs[i]]
      BY PerJob DEF Types
    <3>2. \/ jobs'[j] = jobs[j] \/ j \notin issued \/ jobs'[j] = Cancelled(jobs[j])
          \/ \E t \in TxNow : jobs'[j] = Requeued(jobs[j], t) /\ jobs[j].status \in Retryable
          \/ jobs'[j] = NULL
      BY <2>4, <3>1
      DEF ApiNext, CreateJob, CancelJob, RetryJob, RetryDeadLetterJob,
          DeleteDeadLetterJob, HasStatus, Retryable
    <3>3. jobs'[j] # Cancelled(jobs[j])
      BY <1>2, <2>1 DEF Cancelled, RowOK, JobRow
    <3>4. QED
      BY <1>2, <2>1, <2>3, <3>2, <3>3 DEF Retryable
  <2>5. \A v \in Worker : ~Reap(v) /\ ~Release(v)
    BY <2>3 DEF Reap, ReapBatches, ReapExpiredJobs, Expired, Release,
                ReleaseInFlightJobs, InFlight, HoldsLock, vars
  <2>6. \A v \in Worker, i \in Job : ~Beat(v, i)
    <3>1. jobs = [i \in Job |-> jobs[i]]
      BY PerJob DEF Types
    <3>2. QED
      BY <2>3, <3>1 DEF Beat, ExtendLease, HoldsLock
  <2>7. PICK v \in Worker : Claim(v)
    BY <2>3, <2>4, <2>5, <2>6
    DEF AppNext, MainStep, TaskStep, Start, Register, LoopTest, SkipReap, ReapFails, Count,
        Spawn, Wake, CancelHeartbeats, MarkOffline, BeatFindsNothing, TaskReturns,
        ReapFallsDue, Signal, Crash, ClockTicks, Tick, allVars, vars
  <2>8. proc[v].poll_time \in TxNow
    BY <2>7 DEF Claim, ProcInv, PollTimes
  <2>9. PICK t \in TxNow : jobs'[j] = Claimed(jobs[j], v, t)
    BY <2>3, <2>7, <2>8 DEF Claim, ClaimJobs, vars
  <2>10. jobs'[j].locked_by = v
    BY <1>1, <2>1, <2>9, ClaimedRow
  <2>11. QED
    BY <1>2, <2>7, <2>10
<1>7. QED
  BY <1>1, <1>6, LockSteps

\* Its row says offline, or it is about to.
Leaving(w) == workers[w] = "offline" \/ At(w, "offline")

Clean(w) == InFlight(w) = {} \/ \E j \in InFlight(w) : Stuck(j)

\* A process that has yet to register, or is on its way out.
Away(w) == proc[w].pc \in {"down", "register", "finally", "release", "offline"}

\* The row of a worker says offline until its next process registers; until
\* then it claims nothing.
OfflineInv ==
  \A w \in Worker :
    /\ workers[w] = "offline" => Away(w)
    /\ Leaving(w) => Clean(w)

\* How a worker comes to be offline, and what it does before it registers again.
LEMMA WaysOut ==
  ASSUME ProcInv, BooksOK, [AppNext]_allVars, NEW w \in Worker
  PROVE  /\ At(w, "offline")' => At(w, "offline") \/ Release(w)
         /\ workers'[w] = "offline" =>
              \/ workers[w] = "offline"
              \/ At(w, "offline") /\ At(w, "down")'
         /\ workers'[w] = "offline" /\ Away(w) => Away(w)'
<1>1. proc \in [Worker -> Process] /\ workers \in [Worker -> {"running", "offline", NULL}]
  BY DEF ProcInv, BooksOK
<1>2. ASSUME NEW v \in Worker, v # w,
             \/ MainStep(v) \/ ReapFallsDue(v) \/ Signal(v) \/ Crash(v)
             \/ \E j \in Job : TaskStep(v, j)
      PROVE  proc'[w] = proc[w] /\ workers'[w] = workers[w]
  BY <1>1, <1>2
  DEF MainStep, Start, Register, LoopTest, SkipReap, Reap, ReapFails, Count, Claim, Spawn,
      Wake, CancelHeartbeats, Release, MarkOffline, ReapFallsDue, Signal, Crash, TaskStep,
      Beat, BeatFindsNothing, TaskReturns, Goto, appVars
<1>3. CASE proc'[w] = proc[w] /\ workers'[w] = workers[w]
  BY <1>3 DEF At, Away
<1>4. CASE MainStep(w) /\ ~Release(w) /\ ~MarkOffline(w) /\ ~Register(w)
  <2>1. workers' = workers
    BY <1>4
    DEF MainStep, Start, LoopTest, SkipReap, Reap, ReapFails, Count, Claim, Spawn, Wake,
        CancelHeartbeats
  <2>2. proc'[w].pc # "offline" /\ (Away(w) => proc'[w].pc \in {"register", "release"})
    BY <1>1, <1>4
    DEF MainStep, Start, LoopTest, SkipReap, Reap, ReapFails, Count, Claim, Spawn, Wake,
        CancelHeartbeats, At, Away, Goto, Process, Idle
  <2>3. QED
    BY <2>1, <2>2 DEF At, Away
<1>5. CASE Release(w)
  <2>1. workers' = workers /\ proc'[w].pc = "offline"
    BY <1>1, <1>5 DEF Release, Goto, Process
  <2>2. QED
    BY <1>5, <2>1 DEF At, Away
<1>6. CASE MarkOffline(w)
  <2>1. At(w, "offline") /\ proc'[w].pc = "down"
    BY <1>1, <1>6 DEF MarkOffline, Idle
  <2>2. QED
    BY <2>1 DEF At, Away
<1>7. CASE Register(w)
  <2>1. workers'[w] = "running" /\ proc'[w].pc = "loop"
    BY <1>1, <1>7 DEF Register, Goto, Process
  <2>2. QED
    BY <2>1 DEF At, Away
<1>8. CASE Crash(w)
  <2>1. proc'[w].pc = "down" /\ workers' = workers
    BY <1>1, <1>8 DEF Crash, Idle
  <2>2. QED
    BY <2>1 DEF At, Away
<1>9. CASE ReapFallsDue(w) \/ Signal(w) \/ (\E j \in Job : TaskStep(w, j))
  <2>1. proc'[w].pc = proc[w].pc /\ workers' = workers
    BY <1>1, <1>9
    DEF ReapFallsDue, Signal, TaskStep, Beat, BeatFindsNothing, TaskReturns, Process, appVars
  <2>2. QED
    BY <2>1 DEF At, Away
<1>10. CASE (ApiNext /\ UNCHANGED appVars) \/ ClockTicks \/ UNCHANGED allVars
  BY <1>3, <1>10 DEF ClockTicks, appVars, allVars
<1>11. QED
  BY <1>2, <1>3, <1>4, <1>5, <1>6, <1>7, <1>8, <1>9, <1>10 DEF AppNext

\* A worker that gets no new lock stays clean: a stuck job stays in its hands.
LEMMA CleanStays ==
  ASSUME IInv, [Next]_vars, NEW w \in Worker, Clean(w),
         \A j \in Job : HoldsLock(w, j)' => HoldsLock(w, j)
  PROVE  Clean(w)'
<1>1. CASE InFlight(w) = {}
  BY <1>1 DEF InFlight, Clean
<1>2. ASSUME NEW j \in InFlight(w), Stuck(j) PROVE Clean(w)'
  BY <1>2, StuckStep DEF InFlight, HoldsLock, HasStatus, Stuck, Clean
<1>3. QED
  BY <1>1, <1>2 DEF Clean

\* How one worker leaves, and what it has in its hands then.
LEMMA OfflineByWorker ==
  ASSUME IInv, ProcInv, BooksOK, [AppNext]_allVars, NEW w \in Worker,
         workers[w] = "offline" => Away(w)
  PROVE  /\ workers'[w] = "offline" => Away(w)'
         /\ Leaving(w)' => (Leaving(w) /\ (Clean(w) => Clean(w)')) \/ Clean(w)'
<1>1. [Next]_vars
  BY StoreSteps
<1>2. workers'[w] = "offline" => Away(w)'
  BY WaysOut DEF At, Away
<1>3. ASSUME Leaving(w), Clean(w) PROVE Clean(w)'
  <2>1. ~Claim(w)
    BY <1>3 DEF Leaving, Away, At, Claim
  <2>2. QED
    BY <1>1, <1>3, <2>1, OnlyClaimsLock, CleanStays
<1>4. ASSUME Release(w) PROVE Clean(w)'
  <2>1. CASE ReleaseInFlightJobs(w)
    <3>1. \A j \in Job : ~HoldsLock(w, j)'
      <4>1. SUFFICES ASSUME NEW j \in Job, HoldsLock(w, j)' PROVE FALSE
        OBVIOUS
      <4>2. HoldsLock(w, j)
        BY <1>4, <4>1, OnlyClaimsLock DEF Release, Claim, At
      <4>3. RowOK(jobs[j]) /\ jobs[j].status = "running" /\ jobs'[j] = Released(jobs[j])
        BY <2>1, <4>2, RowFacts DEF ReleaseInFlightJobs, InFlight, HoldsLock, HasStatus
      <4>4. jobs'[j].status = "queued"
        BY <4>3, ReleasedRow
      <4>5. QED
        BY <4>1, <4>4 DEF HoldsLock, HasStatus
    <3>2. QED
      BY <3>1 DEF Clean, InFlight
  <2>2. CASE UNCHANGED vars /\ Clean(w)
    BY <2>2 DEF vars, Clean, InFlight, HoldsLock, HasStatus, Exists, Stuck, AttemptRecorded
  <2>3. QED
    BY <1>4, <2>1, <2>2 DEF Release, Clean
<1>5. Leaving(w)' => Leaving(w) \/ Release(w)
  BY WaysOut DEF Leaving
<1>6. QED
  BY <1>2, <1>3, <1>4, <1>5

\* A worker that went offline holds no job, unless a stuck one aborted its
\* release.
THEOREM OfflineIsClean == AppSpec => []OfflineHoldsNothing
<1>1. ASSUME AppInit PROVE OfflineInv
  <2>1. \A w \in Worker : InFlight(w) = {} /\ proc[w].pc = "down"
    BY <1>1 DEF AppInit, Idle, Init, InFlight, HoldsLock, HasStatus, Exists
  <2>2. QED
    BY <2>1 DEF OfflineInv, Clean, Away
<1>2. AppSpec => []ProcInv
  BY AppInitInv, ProcInvStep, PTL DEF AppSpec
<1>3. AppSpec => []BooksOK
  BY AppInitInv, BooksStep, PTL DEF AppSpec
<1>4. AppSpec => []OfflineInv
  <2>1. IInv /\ ProcInv /\ BooksOK /\ OfflineInv /\ [AppNext]_allVars => OfflineInv'
    BY OfflineByWorker DEF OfflineInv
  <2>2. QED
    BY <1>1, <1>2, <1>3, <2>1, AppInvariance, PTL DEF AppSpec
<1>5. OfflineInv => OfflineHoldsNothing
  BY DEF OfflineInv, OfflineHoldsNothing, Leaving, Clean
<1>6. QED
  BY <1>4, <1>5, PTL

------------------------------------------------------------------------------
(* A worker's leases, with the history of LeaseHistory beside the step. *)

Watched == Watch \/ UNCHANGED <<jobs, now, lapsed>>

\* The history misses no lease that has run out.
LapsedInv ==
  \A j \in Job \ lapsed : HasStatus(j, {"running"}) => ~(jobs[j].lease_expires_at <= now)

\* Watch keeps it so.
LEMMA LapsedStep ==
  ASSUME LapsedInv, Watched
  PROVE  LapsedInv'
<1>1. CASE Watch
  BY <1>1 DEF Watch, LapsedInv, HasStatus, Exists
<1>2. CASE UNCHANGED <<jobs, now, lapsed>>
  BY <1>2 DEF LapsedInv, HasStatus, Exists
<1>3. QED
  BY <1>1, <1>2 DEF Watched

\* The leases of a worker are finitely many.
LEMMA FreshIsFinite ==
  ASSUME NEW w \in Worker
  PROVE  /\ IsFiniteSet(FreshLeases(w)) /\ Cardinality(FreshLeases(w)) \in Nat
         /\ IsFiniteSet(FreshLeases(w)') /\ Cardinality(FreshLeases(w)') \in Nat
BY AppAssumption, FS_Subset, FS_CardinalityType DEF AppAssumption, FreshLeases, InFlight

\* What runs and is not in the history after the step was not in it before.
LEMMA StaysFresh ==
  ASSUME Watched, NEW w \in Worker, NEW j \in FreshLeases(w)'
  PROVE  j \in Job /\ HoldsLock(w, j)' /\ j \notin lapsed
BY DEF Watched, Watch, FreshLeases, InFlight, HoldsLock

\* No lease is fresh again but by a claim, whatever lags: what a heartbeat
\* revives stays in the history.
LEMMA OnlyClaimsAreFresh ==
  ASSUME IInv, ProcInv, [AppNext]_allVars, Watched, NEW w \in Worker, ~Claim(w)
  PROVE  FreshLeases(w)' \subseteq FreshLeases(w)
<1> SUFFICES ASSUME NEW j \in FreshLeases(w)' PROVE j \in FreshLeases(w)
  OBVIOUS
<1>1. j \in Job /\ HoldsLock(w, j)' /\ j \notin lapsed
  BY StaysFresh
<1>2. HoldsLock(w, j)
  BY <1>1, OnlyClaimsLock
<1>3. QED
  BY <1>1, <1>2 DEF FreshLeases, InFlight

\* A count sees every fresh lease.
LEMMA FreshIsCounted ==
  ASSUME IInv, now \in Nat, LapsedInv, NEW w \in Worker
  PROVE  /\ CountInFlight(w, now) \in Nat
         /\ Cardinality(FreshLeases(w)) <= CountInFlight(w, now)
<1> DEFINE C == {j \in Job : HoldsLock(w, j) /\ jobs[j].lease_expires_at > now}
<1>1. ASSUME NEW j \in FreshLeases(w) PROVE j \in C
  <2>1. j \in Job \ lapsed /\ HoldsLock(w, j)
    BY DEF FreshLeases, InFlight
  <2>2. jobs[j].lease_expires_at \in Nat
    BY <2>1, RowFacts DEF HoldsLock, HasStatus, RowOK, JobRow
  <2>3. ~(jobs[j].lease_expires_at <= now)
    BY <2>1 DEF LapsedInv, HoldsLock
  <2>4. QED
    BY <2>1, <2>2, <2>3
<1>2. IsFiniteSet(C) /\ Cardinality(C) \in Nat
  BY AppAssumption, FS_Subset, FS_CardinalityType DEF AppAssumption
<1>3. Cardinality(FreshLeases(w)) <= Cardinality(C)
  BY <1>1, <1>2, FS_Subset
<1>4. QED
  BY <1>2, <1>3 DEF CountInFlight

\* A worker about to claim has just counted, or was about to claim already.
LEMMA WayToClaim ==
  ASSUME ProcInv, [AppNext]_allVars, NEW w \in Worker, At(w, "claim")'
  PROVE  \/ Count(w)
         \/ At(w, "claim") /\ ~Claim(w) /\ proc'[w].remaining = proc[w].remaining
<1>1. proc \in [Worker -> Process]
  BY DEF ProcInv
<1>2. ~Claim(w)
  BY <1>1 DEF Claim, At, Process
<1>3. ASSUME NEW v \in Worker, v # w,
             \/ MainStep(v) \/ ReapFallsDue(v) \/ Signal(v) \/ Crash(v)
             \/ \E j \in Job : TaskStep(v, j)
      PROVE  proc'[w] = proc[w]
  BY <1>1, <1>3
  DEF MainStep, Start, Register, LoopTest, SkipReap, Reap, ReapFails, Count, Claim, Spawn,
      Wake, CancelHeartbeats, Release, MarkOffline, ReapFallsDue, Signal, Crash, TaskStep,
      Beat, BeatFindsNothing, TaskReturns, Goto, appVars
<1>4. CASE proc'[w] = proc[w]
  BY <1>2, <1>4 DEF At
<1>5. CASE MainStep(w)
  BY <1>1, <1>2, <1>5
  DEF MainStep, Start, Register, LoopTest, SkipReap, Reap, ReapFails, Spawn, Wake,
      CancelHeartbeats, Release, MarkOffline, Goto, At, Idle, Process
<1>6. CASE Crash(w)
  BY <1>1, <1>6 DEF Crash, Idle, At
<1>7. CASE ReapFallsDue(w) \/ Signal(w) \/ (\E j \in Job : TaskStep(w, j))
  <2>1. proc'[w].pc = proc[w].pc /\ proc'[w].remaining = proc[w].remaining
    BY <1>1, <1>7
    DEF ReapFallsDue, Signal, TaskStep, Beat, BeatFindsNothing, TaskReturns, Process, appVars
  <2>2. QED
    BY <1>2, <2>1 DEF At
<1>8. CASE (ApiNext /\ UNCHANGED appVars) \/ ClockTicks \/ UNCHANGED allVars
  BY <1>4, <1>8 DEF ClockTicks, appVars, allVars
<1>9. QED
  BY <1>3, <1>4, <1>5, <1>6, <1>7, <1>8 DEF AppNext

\* A claim adds at most as many leases as it takes jobs.
LEMMA BatchFits ==
  ASSUME NEW w \in Worker, NEW t, NEW n \in Nat, NEW S \in SUBSET Claimable(w, t),
         Cardinality(S) <= n, ClaimJobs(w, S, t), Watched
  PROVE  Cardinality(FreshLeases(w)') <= Cardinality(FreshLeases(w)) + n
<1>1. IsFiniteSet(S) /\ Cardinality(S) \in Nat
  BY AppAssumption, FS_Subset, FS_CardinalityType DEF AppAssumption, Claimable
<1>2. FreshLeases(w)' \subseteq FreshLeases(w) \cup S
  BY StaysFresh DEF FreshLeases, InFlight, ClaimJobs, HoldsLock, HasStatus, Exists
<1>3. /\ IsFiniteSet(FreshLeases(w) \cup S)
      /\ Cardinality(FreshLeases(w) \cup S) <= Cardinality(FreshLeases(w)) + Cardinality(S)
  <2>1. Cardinality(FreshLeases(w) \cap S) \in Nat
    BY <1>1, FS_Intersection, FS_CardinalityType
  <2>2. /\ IsFiniteSet(FreshLeases(w) \cup S)
        /\ Cardinality(FreshLeases(w) \cup S)
             = Cardinality(FreshLeases(w)) + Cardinality(S) - Cardinality(FreshLeases(w) \cap S)
    BY <1>1, FreshIsFinite, FS_Union
  <2>3. QED
    BY <1>1, <2>1, <2>2, FreshIsFinite
<1>4. Cardinality(FreshLeases(w)') <= Cardinality(FreshLeases(w) \cup S)
  BY <1>2, <1>3, FS_Subset
<1>5. Cardinality(FreshLeases(w) \cup S) \in Nat
  BY <1>3, FS_CardinalityType
<1>6. QED
  BY <1>1, <1>3, <1>4, <1>5, FreshIsFinite

\* A claim adds at most the remaining capacity.
LEMMA ClaimFits ==
  ASSUME ProcInv, Watched, NEW w \in Worker, Claim(w)
  PROVE  /\ Cardinality(FreshLeases(w)') <= Cardinality(FreshLeases(w)) + proc[w].remaining
         /\ ~At(w, "claim")'
<1>1. ~At(w, "claim")'
  BY DEF Claim, At, Process, ProcInv
<1>2. proc[w].remaining \in Nat
  BY DEF ProcInv, Process
<1>3. CASE UNCHANGED vars
  <2>1. FreshLeases(w)' \subseteq FreshLeases(w)
    BY <1>3, StaysFresh DEF vars, FreshLeases, InFlight, HoldsLock, HasStatus, Exists
  <2>2. Cardinality(FreshLeases(w)') <= Cardinality(FreshLeases(w))
    BY <2>1, FreshIsFinite, FS_Subset
  <2>3. QED
    BY <1>1, <1>2, <2>2, FreshIsFinite
<1>4. CASE ~UNCHANGED vars
  <2>1. PICK S \in SUBSET Claimable(w, proc[w].poll_time) :
          /\ Cardinality(S) <= proc[w].remaining
          /\ ClaimJobs(w, S, proc[w].poll_time)
    <3> DEFINE C == Claimable(w, proc[w].poll_time)
    <3>1. Cardinality(C) \in Nat
      BY AppAssumption, FS_Subset, FS_CardinalityType DEF AppAssumption, Claimable
    <3>2. QED
      BY <1>2, <1>4, <3>1 DEF Claim
  <2>2. QED
    BY <1>1, <1>2, <2>1, BatchFits
<1>5. QED
  BY <1>3, <1>4

\* A poll fills what its worker's slots leave, or what it found free when it
\* counted.
LEMMA PollFits ==
  ASSUME IInv, ProcInv, LapsedInv, [AppNext]_allVars, Watched, NEW w \in Worker,
         Pending(w) <= Concurrency
  PROVE  /\ Pending(w)' \in Nat /\ Pending(w)' <= Concurrency
         /\ \/ Cardinality(FreshLeases(w)') + Pending(w)'
                 <= Cardinality(FreshLeases(w)) + Pending(w)
            \/ Cardinality(FreshLeases(w)') + Pending(w)' <= Concurrency
<1>1. /\ Cardinality(FreshLeases(w)) \in Nat /\ Cardinality(FreshLeases(w)') \in Nat
      /\ Concurrency \in Nat /\ proc[w].remaining \in Nat /\ Pending(w) \in Nat
  BY FreshIsFinite, AppAssumption DEF AppAssumption, ProcInv, Process, Pending
<1>2. CASE Claim(w)
  <2>1. Pending(w) = proc[w].remaining /\ Pending(w)' = 0
    <3>1. At(w, "claim")
      BY <1>2 DEF Claim
    <3>2. ~At(w, "claim")'
      BY <1>2, ClaimFits
    <3>3. QED
      BY <3>1, <3>2 DEF Pending
  <2>2. QED
    BY <1>1, <1>2, <2>1, ClaimFits
<1>3. CASE ~Claim(w)
  <2>1. Cardinality(FreshLeases(w)') <= Cardinality(FreshLeases(w))
    BY <1>3, OnlyClaimsAreFresh, FreshIsFinite, FS_Subset
  <2>2. CASE ~At(w, "claim")'
    <3>1. Pending(w)' = 0
      BY <2>2 DEF Pending
    <3>2. QED
      BY <1>1, <2>1, <3>1
  <2>3. CASE At(w, "claim")' /\ Count(w)
    <3>1. Pending(w)' = Remaining(w, now)
      BY <2>3 DEF Count, ProcInv, Process, Pending
    <3>2. /\ CountInFlight(w, now) \in Nat
          /\ Cardinality(FreshLeases(w)) <= CountInFlight(w, now)
          /\ Remaining(w, now) = IF CountInFlight(w, now) < Concurrency
                                 THEN Concurrency - CountInFlight(w, now) ELSE 0
      BY FreshIsCounted DEF Remaining, ProcInv
    <3>3. QED
      BY <1>1, <2>1, <3>1, <3>2
  <2>4. CASE At(w, "claim")' /\ ~Count(w)
    <3>1. Pending(w)' = Pending(w)
      BY <2>4, WayToClaim DEF Pending
    <3>2. QED
      BY <1>1, <2>1, <3>1
  <2>5. QED
    BY <2>2, <2>3, <2>4
<1>4. QED
  BY <1>2, <1>3

\* A process gets a Job object with the claim that starts its run.
LEMMA NewClaims ==
  ASSUME IInv, ProcInv, [AppNext]_allVars, NEW s \in snapshots' \ snapshots
  PROVE  /\ s.job \in Job /\ Exists(s.job) /\ ~HasStatus(s.job, {"running"})
         /\ HasStatus(s.job, {"running"})' /\ jobs'[s.job].attempts = s.attempts
         /\ job_attempts' = job_attempts
<1>1. PICK w \in Worker : Claim(w)
  <2>1. ~ApiNext
    BY DEF ApiNext, CreateJob, CancelJob, RetryJob, RetryDeadLetterJob, DeleteDeadLetterJob
  <2>2. ASSUME NEW w \in Worker, ~Claim(w),
               \/ MainStep(w) \/ ReapFallsDue(w) \/ Signal(w) \/ Crash(w)
               \/ \E j \in Job : TaskStep(w, j)
        PROVE  FALSE
    BY <2>2
    DEF MainStep, Start, Register, LoopTest, SkipReap, Reap, ReapFails, Count, Spawn,
        Wake, CancelHeartbeats, Release, MarkOffline, ReapFallsDue, Signal, Crash, TaskStep,
        Beat, BeatFindsNothing, TaskReturns, ReapExpiredJobs, ReleaseInFlightJobs,
        ExtendLease, vars
  <2>3. QED
    BY <2>1, <2>2 DEF AppNext, ClockTicks, Tick, allVars, vars
<1> DEFINE t == proc[w].poll_time
<1>2. PICK S \in SUBSET Claimable(w, t) : ClaimJobs(w, S, t)
  BY <1>1 DEF Claim, vars
<1>3. PICK j \in S : s = [worker |-> w, job |-> j, attempts |-> jobs[j].attempts + 1]
  BY <1>2 DEF ClaimJobs
<1>4. /\ j \in Job /\ Exists(j) /\ jobs[j].status \in {"queued", "scheduled", "retrying"}
      /\ jobs'[j] = Claimed(jobs[j], w, t) /\ job_attempts' = job_attempts
  BY <1>2 DEF ClaimJobs, Claimable, HasStatus
<1>5. RowOK(jobs[j]) /\ t \in Nat
  BY <1>4, RowFacts DEF ProcInv, Process
<1>6. /\ RowOK(jobs'[j]) /\ jobs'[j].status = "running"
      /\ jobs'[j].attempts = jobs[j].attempts + 1
  BY <1>4, <1>5, ClaimedRow
<1>7. jobs'[j] # NULL
  BY <1>6, NullIsDistinct DEF RowOK
<1>8. QED
  BY <1>3, <1>4, <1>6, <1>7 DEF HasStatus, Exists

\* The count that Count read still bounds what Claim may add.
RoomInv == \A w \in Worker : Cardinality(FreshLeases(w)) + Pending(w) <= Concurrency

\* RoomInv is inductive.
LEMMA RoomStep ==
  ASSUME IInv, ProcInv, LapsedInv, RoomInv, [AppNext]_allVars, Watched
  PROVE  RoomInv'
<1> SUFFICES ASSUME NEW w \in Worker
             PROVE  Cardinality(FreshLeases(w)') + Pending(w)' <= Concurrency
  BY DEF RoomInv
<1>1. /\ Cardinality(FreshLeases(w)) \in Nat /\ Cardinality(FreshLeases(w)') \in Nat
      /\ Concurrency \in Nat /\ Pending(w) \in Nat
      /\ Cardinality(FreshLeases(w)) + Pending(w) <= Concurrency
  BY FreshIsFinite, AppAssumption DEF AppAssumption, ProcInv, Process, Pending, RoomInv
<1>2. /\ Pending(w)' \in Nat
      /\ \/ Cardinality(FreshLeases(w)') + Pending(w)'
              <= Cardinality(FreshLeases(w)) + Pending(w)
         \/ Cardinality(FreshLeases(w)') + Pending(w)' <= Concurrency
  BY <1>1, PollFits
<1>3. QED
  BY <1>1, <1>2

\* A worker starts without leases.
LEMMA RoomInitially == AppInit => RoomInv /\ LapsedInv
<1>1. ASSUME AppInit
      PROVE  \A w \in Worker : FreshLeases(w) = {} /\ Pending(w) = 0
  BY <1>1
  DEF AppInit, Init, FreshLeases, InFlight, HoldsLock, HasStatus, Exists, Pending, At, Idle
<1>2. ASSUME AppInit PROVE LapsedInv
  BY <1>2 DEF AppInit, Init, LapsedInv, HasStatus, Exists
<1>3. QED
  BY <1>1, <1>2, FS_EmptySet, AppAssumption DEF RoomInv, AppAssumption
==============================================================================
