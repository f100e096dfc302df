-------------------------- MODULE WorkerFaults_proofs --------------------------
(***************************************************************************)
(* What WorkerApp_proofs shows of processes whose transactions go well     *)
(* stays true when any of them fails, before or after its COMMIT.          *)
(***************************************************************************)
EXTENDS WatchedWorkers, WorkerApp_proofs

\* A step that only a failure explains, and the unwinding that follows it.
Failing(w) ==
  \/ RegisterBreaks(w) \/ HeartbeatBreaks(w) \/ ReapBreaks(w) \/ ClaimBreaks(w)
  \/ ReleaseBreaks(w) \/ OfflineBreaks(w) \/ Unwind(w)
  \/ \E j \in Job : BeatBreaks(w, j)

\* The claim that took effect although its worker never hears of it.
LostClaim(w) ==
  /\ ClaimBreaks(w) /\ At(w, "claim")
  /\ \E S \in SUBSET Claimable(w, proc[w].poll_time) :
       /\ Cardinality(S) <= proc[w].remaining
       /\ ClaimJobs(w, S, proc[w].poll_time)

\* A step is one of WorkerApp, which leaves the history of failures alone, or a
\* failing one.
LEMMA FaultSteps ==
  ASSUME [FaultNext]_faultVars
  PROVE  ([AppNext]_allVars /\ UNCHANGED faults) \/ \E w \in Worker : Failing(w)
<1>1. CASE \/ now <= LastRequest /\ ApiNext /\ UNCHANGED <<appVars, faults>>
           \/ ClockTicks /\ UNCHANGED faults
           \/ UNCHANGED faultVars
  BY <1>1 DEF AppNext, faultVars
<1>2. ASSUME NEW w \in Worker, FaultyMainStep(w)
      PROVE  ([AppNext]_allVars /\ UNCHANGED faults) \/ Failing(w)
  BY <1>2 DEF FaultyMainStep, Failing, AppNext
<1>3. ASSUME NEW w \in Worker,
             (ReapFallsDue(w) \/ Signal(w) \/ Crash(w)) /\ UNCHANGED faults
      PROVE  [AppNext]_allVars /\ UNCHANGED faults
  BY <1>3 DEF AppNext
<1>4. ASSUME NEW w \in Worker, NEW j \in Job, FaultyTaskStep(w, j)
      PROVE  ([AppNext]_allVars /\ UNCHANGED faults) \/ Failing(w)
  BY <1>4 DEF FaultyTaskStep, Failing, AppNext
<1>5. QED
  BY <1>1, <1>2, <1>3, <1>4 DEF FaultNext

------------------------------------------------------------------------------
(* The tables. *)

\* What a failing transaction leaves in the tables is nothing or all it did.
LEMMA FailingStoreSteps ==
  ASSUME ProcInv, NEW w \in Worker, Failing(w)
  PROVE  [Next]_vars
<1>1. now \in TxNow
  BY NowIsTxNow DEF ProcInv
<1>2. CASE RegisterBreaks(w) \/ HeartbeatBreaks(w) \/ OfflineBreaks(w)
  BY <1>2 DEF RegisterBreaks, HeartbeatBreaks, OfflineBreaks
<1>3. CASE ReapBreaks(w)
  <2>1. CASE UNCHANGED vars
    BY <2>1
  <2>2. CASE \E S \in ReapBatches : \E delay \in [S -> 0..RetryMax] :
               ReapExpiredJobs(S, delay, now)
    <3>1. ReapBatches \subseteq SUBSET Job
      BY DEF ReapBatches, Expired
    <3>2. WorkerNext
      BY <1>1, <2>2, <3>1 DEF WorkerNext
    <3>3. QED
      BY <3>2 DEF Next
  <2>3. QED
    BY <1>3, <2>1, <2>2 DEF ReapBreaks
<1>4. CASE ClaimBreaks(w)
  <2>1. CASE UNCHANGED vars
    BY <2>1
  <2>2. CASE LostClaim(w)
    <3>1. proc[w].poll_time \in TxNow
      BY <2>2 DEF LostClaim, ProcInv, PollTimes
    <3>2. Claimable(w, proc[w].poll_time) \subseteq Job
      BY DEF Claimable
    <3>3. WorkerNext
      BY <2>2, <3>1, <3>2 DEF LostClaim, WorkerNext
    <3>4. QED
      BY <3>3 DEF Next
  <2>3. QED
    BY <1>4, <2>1, <2>2 DEF ClaimBreaks, LostClaim
<1>5. CASE ReleaseBreaks(w)
  BY <1>5 DEF ReleaseBreaks, Next, WorkerNext
<1>6. CASE Unwind(w)
  BY <1>6 DEF Unwind, MyClaim, Next, WorkerNext
<1>7. ASSUME NEW j \in Job, BeatBreaks(w, j) PROVE [Next]_vars
  BY <1>7 DEF BeatBreaks, Next, WorkerNext
<1>8. QED
  BY <1>2, <1>3, <1>4, <1>5, <1>6, <1>7 DEF Failing

\* So every step is one of JobStore.
LEMMA FaultStoreSteps ==
  ASSUME ProcInv, [FaultNext]_faultVars
  PROVE  [Next]_vars
BY FaultSteps, StoreSteps, FailingStoreSteps

------------------------------------------------------------------------------
(* The processes. *)

\* A failing step moves its own process only, never to its claim, and takes no
\* time.
LEMMA FailingMoves ==
  ASSUME ProcInv, NEW w \in Worker, Failing(w)
  PROVE  /\ UNCHANGED now
         /\ UNCHANGED proc \/ \E q \in Process : Moves(w, q)
<1> DEFINE p == proc[w]
<1>1. p \in Process /\ p.tasks \in [Job -> TaskState] /\ NoTasks \in [Job -> TaskState]
  BY DEF ProcInv, Process, NoTasks, TaskState
<1>2. UNCHANGED now
  BY DEF Failing, RegisterBreaks, HeartbeatBreaks, ReapBreaks, ClaimBreaks, ReleaseBreaks,
         OfflineBreaks, Unwind, BeatBreaks, ReapExpiredJobs, ClaimJobs, ExtendLease,
         ReleaseInFlightJobs, LoseSnapshots, vars
<1>3. CASE \/ RegisterBreaks(w) \/ HeartbeatBreaks(w) \/ ReapBreaks(w) \/ ReleaseBreaks(w)
  <2>1. {"finally", "offline"} \subseteq Place \ {"claim"}
    BY DEF Place
  <2>2. PICK place \in {"finally", "offline"} : Goto(w, place)
    BY <1>3 DEF RegisterBreaks, HeartbeatBreaks, ReapBreaks, ReleaseBreaks
  <2>3. QED
    BY <1>2, <2>1, <2>2, GotoMoves DEF Moves
<1>4. CASE ClaimBreaks(w)
  <2> DEFINE q == Polled(p, "finally", 0, 0)
  <2>0. p \in Process /\ "finally" \in Place
    BY <1>1 DEF Place
  <2>1. q \in Process /\ q.pc = "finally"
    BY <2>0, PollUpdate
  <2>2. proc' = [proc EXCEPT ![w] = q]
    BY <1>4, <1>1 DEF ClaimBreaks, Polled, ProcInv
  <2>3. QED
    BY <1>2, <2>1, <2>2 DEF Moves
<1>5. CASE OfflineBreaks(w)
  <2> DEFINE q == Idle("down", FALSE)
  <2>1. q \in Process /\ q.pc = "down"
    BY <1>1 DEF Idle, Process, Place
  <2>2. proc' = [proc EXCEPT ![w] = q]
    BY <1>5 DEF OfflineBreaks
  <2>3. QED
    BY <1>2, <2>1, <2>2 DEF Moves
<1>6. CASE Unwind(w)
  BY <1>2, <1>6 DEF Unwind, appVars
<1>7. ASSUME NEW j \in Job, BeatBreaks(w, j)
      PROVE  \E q \in Process : Moves(w, q)
  <2> DEFINE tasks == [p.tasks EXCEPT ![j] = "ending"]
             q == [p EXCEPT !.tasks = tasks]
  <2>1. tasks \in [Job -> TaskState]
    BY <1>1 DEF TaskState
  <2>2. q \in Process /\ q.pc = p.pc /\ q.poll_time = p.poll_time
    BY <1>1, <2>1, TasksUpdate
  <2>3. proc' = [proc EXCEPT ![w] = q]
    BY <1>7 DEF BeatBreaks
  <2>4. QED
    BY <2>2, <2>3 DEF Moves, At
<1>8. QED
  BY <1>2, <1>3, <1>4, <1>5, <1>6, <1>7 DEF Failing

\* ProcInv survives failures.
LEMMA FaultProcStep ==
  ASSUME ProcInv, [FaultNext]_faultVars
  PROVE  ProcInv'
<1>1. CASE \E w \in Worker : Failing(w)
  BY <1>1, FailingMoves, MovesKeepInv
<1>2. QED
  BY <1>1, FaultSteps, ProcInvStep

\* So do the types of the workers' rows and of the count of stops.
LEMMA FaultBooksStep ==
  ASSUME BooksOK, [FaultNext]_faultVars
  PROVE  BooksOK'
<1>1. ASSUME NEW w \in Worker, Failing(w) PROVE BooksOK'
  <2>1. stops' = stops
    BY <1>1
    DEF Failing, RegisterBreaks, HeartbeatBreaks, ReapBreaks, ClaimBreaks, ReleaseBreaks,
        OfflineBreaks, Unwind, BeatBreaks, appVars
  <2>2. \/ workers' = workers
        \/ \E s \in {"running", "offline"} : workers' = [workers EXCEPT ![w] = s]
    BY <1>1
    DEF Failing, RegisterBreaks, HeartbeatBreaks, ReapBreaks, ClaimBreaks, ReleaseBreaks,
        OfflineBreaks, Unwind, BeatBreaks, appVars
  <2>3. QED
    BY <2>1, <2>2 DEF BooksOK
<1>2. QED
  BY <1>1, FaultSteps, BooksStep

\* What the processes are before the first step.
LEMMA FaultInitInv == FaultInit => Init /\ ProcInv /\ BooksOK
BY AppInitInv DEF FaultInit, AppInit

\* Types and poll times hold in every behaviour with failures.
LEMMA FaultProcesses == FaultSpec => [](ProcInv /\ BooksOK)
<1>1. ProcInv /\ BooksOK /\ [FaultNext]_faultVars => (ProcInv /\ BooksOK)'
  BY FaultProcStep, FaultBooksStep
<1>2. QED
  BY <1>1, FaultInitInv, PTL DEF FaultSpec

\* Every behaviour of processes whose transactions fail is one of the tables.
THEOREM FaultRefinement == FaultSpec => ImplementsStore
<1>1. FaultInit => Init
  BY FaultInitInv
<1>2. QED
  BY <1>1, FaultProcesses, FaultStoreSteps, PTL DEF FaultSpec, ImplementsStore, Spec

\* So the invariants of the tables hold whatever transaction fails.
THEOREM FaultInvariance == FaultSpec => []IInv
BY FaultRefinement, Invariance, PTL DEF ImplementsStore

\* And a job goes through its lifecycle, with final states that stay, leases that
\* stay dead once they ran out and are honoured until then.
THEOREM FaultLifecycle ==
  FaultSpec => /\ ImplementsLifecycle /\ FinalStatesStick
               /\ LapsedLeaseIsDead /\ LiveLeaseIsHonoured
BY FaultRefinement, Refinement, FinalIsFinal, LapsedIsDead, LeaseIsHonoured, PTL
DEF ImplementsStore

\* Tables and processes keep their types.
THEOREM FaultTypeCorrectness == FaultSpec => []AppTypeOK
<1>1. IInv /\ ProcInv /\ BooksOK => AppTypeOK
  BY DEF IInv, ProcInv, BooksOK, AppTypeOK
<1>2. QED
  BY <1>1, FaultProcesses, FaultInvariance, PTL

------------------------------------------------------------------------------
(* A worker that went offline. *)

\* Of the failing steps, too, only a claim gives a worker a lock.
LEMMA FailingLocks ==
  ASSUME IInv, ProcInv, NEW v \in Worker, Failing(v), NEW w \in Worker, NEW j \in Job,
         HoldsLock(w, j)'
  PROVE  \/ v = w /\ LostClaim(w)
         \/ HoldsLock(w, j) /\ (RowUnchanged(j) \/ Extended(j))
<1>1. [Next]_vars
  BY FailingStoreSteps
<1>2. CASE Started(j)
  <2>1. /\ Exists(j) /\ RowOK(jobs[j]) /\ jobs[j].status \in {"queued", "scheduled", "retrying"}
        /\ jobs'[j] # jobs[j] /\ ~HasStatus(j, {"running"})
    BY <1>2, StartedFacts
  <2>2. jobs = [i \in Job |-> jobs[i]]
    BY PerJob DEF Types
  <2>3. ~ReapBreaks(v) /\ ~ReleaseBreaks(v)
    BY <2>1 DEF ReapBreaks, ReapBatches, ReapExpiredJobs, Expired, ReleaseBreaks,
                ReleaseInFlightJobs, InFlight, HoldsLock, vars
  <2>4. \A i \in Job : ~BeatBreaks(v, i)
    BY <2>1, <2>2 DEF BeatBreaks, ExtendLease, HoldsLock, vars
  <2>5. ClaimBreaks(v) /\ ~UNCHANGED jobs
    BY <2>1, <2>3, <2>4
    DEF Failing, RegisterBreaks, HeartbeatBreaks, OfflineBreaks, Unwind, LoseSnapshots, vars
  <2>6. LostClaim(v)
    BY <2>5 DEF ClaimBreaks, LostClaim, vars
  <2>7. proc[v].poll_time \in TxNow /\ TxNow \subseteq Nat
    BY <2>6, TxNowIsTime DEF LostClaim, ProcInv, PollTimes
  <2>8. jobs'[j] = Claimed(jobs[j], v, proc[v].poll_time)
    BY <2>1, <2>6 DEF LostClaim, ClaimJobs
  <2>9. jobs'[j].locked_by = v
    <3>1. proc[v].poll_time \in Nat
      BY <2>7
    <3>2. Claimed(jobs[j], v, proc[v].poll_time).locked_by = v
      BY <2>1, <3>1, ClaimedRow
    <3>3. QED
      BY <2>8, <3>2
  <2>10. QED
    BY <2>6, <2>9 DEF HoldsLock
<1>3. QED
  BY <1>1, <1>2, LockSteps

\* Nobody learns that a release failed, and the next step says offline.
Empty(w) == Clean(w) \/ <<w, "release">> \in faults

\* As OfflineInv, with the releases that failed.
FaultOfflineInv ==
  \A w \in Worker :
    /\ workers[w] = "offline" => Away(w)
    /\ Leaving(w) => Empty(w)

\* A failing step leads out of the loop: to offline from a release only.
LEMMA FailingWaysOut ==
  ASSUME ProcInv, BooksOK, NEW v \in Worker, Failing(v), NEW w \in Worker
  PROVE  /\ At(w, "offline")' => At(w, "offline") \/ ReleaseBreaks(w)
         /\ workers'[w] = "offline" =>
              workers[w] = "offline" \/ (At(w, "offline") /\ At(w, "down")')
         /\ workers'[w] = "offline" /\ Away(w) => Away(w)'
<1>1. proc \in [Worker -> Process] /\ workers \in [Worker -> {"running", "offline", NULL}]
  BY DEF ProcInv, BooksOK
<1>2. CASE v # w
  <2>1. proc'[w] = proc[w] /\ workers'[w] = workers[w]
    BY <1>1, <1>2
    DEF Failing, RegisterBreaks, HeartbeatBreaks, ReapBreaks, ClaimBreaks, ReleaseBreaks,
        OfflineBreaks, Unwind, BeatBreaks, Goto, appVars
  <2>2. QED
    BY <2>1 DEF At, Away
<1>3. CASE RegisterBreaks(w)
  <2>1. proc'[w].pc = "finally"
    BY <1>1, <1>3 DEF RegisterBreaks, Goto, Process
  <2>2. workers'[w] \in {workers[w], "running"}
    BY <1>1, <1>3 DEF RegisterBreaks
  <2>3. QED
    BY <2>1, <2>2 DEF At, Away
<1>4. CASE HeartbeatBreaks(w) \/ ReapBreaks(w) \/ ClaimBreaks(w)
  <2>1. proc'[w].pc = "finally" /\ workers' = workers
    BY <1>1, <1>4 DEF HeartbeatBreaks, ReapBreaks, ClaimBreaks, Goto, Process
  <2>2. QED
    BY <2>1 DEF At, Away
<1>5. CASE ReleaseBreaks(w)
  <2>1. proc'[w].pc = "offline" /\ workers' = workers
    BY <1>1, <1>5 DEF ReleaseBreaks, Goto, Process
  <2>2. QED
    BY <1>5, <2>1 DEF At, Away
<1>6. CASE OfflineBreaks(w)
  <2>1. proc'[w].pc = "down" /\ At(w, "offline")
    BY <1>1, <1>6 DEF OfflineBreaks, Idle
  <2>2. QED
    BY <2>1 DEF At, Away
<1>7. CASE Unwind(w)
  BY <1>7 DEF Unwind, appVars, At, Away
<1>8. CASE \E j \in Job : BeatBreaks(w, j)
  <2>1. proc'[w].pc = proc[w].pc /\ workers' = workers
    BY <1>1, <1>8 DEF BeatBreaks, Process
  <2>2. QED
    BY <2>1 DEF At, Away
<1>9. QED
  BY <1>2, <1>3, <1>4, <1>5, <1>6, <1>7, <1>8 DEF Failing

\* What is on record of the failures stays.
LEMMA FaultsGrow ==
  ASSUME NEW w \in Worker, Failing(w)
  PROVE  faults \subseteq faults'
BY DEF Failing, RegisterBreaks, HeartbeatBreaks, ReapBreaks, ClaimBreaks, ReleaseBreaks,
       OfflineBreaks, Unwind, BeatBreaks, Breaks, appVars

\* FaultOfflineInv survives a failing step.
LEMMA FailingOfflineStep ==
  ASSUME IInv, ProcInv, BooksOK, FaultOfflineInv, NEW v \in Worker, Failing(v)
  PROVE  FaultOfflineInv'
<1> SUFFICES ASSUME NEW w \in Worker
             PROVE  /\ workers'[w] = "offline" => Away(w)'
                    /\ Leaving(w)' => Empty(w)'
  BY DEF FaultOfflineInv
<1>1. workers'[w] = "offline" => Away(w)'
  BY FailingWaysOut DEF FaultOfflineInv, At, Away
<1>2. ASSUME <<w, "release">> \in faults PROVE Empty(w)'
  BY <1>2, FaultsGrow DEF Empty
<1>3. ASSUME Leaving(w), Clean(w) PROVE Empty(w)'
  <2>1. ~LostClaim(w)
    BY <1>3 DEF FaultOfflineInv, Leaving, Away, At, LostClaim
  <2>2. QED
    BY <1>3, <2>1, FailingLocks, FailingStoreSteps, CleanStays DEF Empty
<1>4. ASSUME ReleaseBreaks(w) PROVE Empty(w)'
  BY <1>4 DEF ReleaseBreaks, Breaks, Empty
<1>5. Leaving(w)' => Leaving(w) \/ ReleaseBreaks(w)
  BY FailingWaysOut DEF Leaving
<1>6. QED
  BY <1>1, <1>2, <1>3, <1>4, <1>5 DEF FaultOfflineInv, Empty

\* FaultOfflineInv survives a step of WorkerApp.
LEMMA SoundOfflineStep ==
  ASSUME IInv, ProcInv, BooksOK, FaultOfflineInv, [AppNext]_allVars, UNCHANGED faults
  PROVE  FaultOfflineInv'
<1> SUFFICES ASSUME NEW w \in Worker
             PROVE  /\ workers'[w] = "offline" => Away(w)'
                    /\ Leaving(w)' => Empty(w)'
  BY DEF FaultOfflineInv
<1>1. (workers[w] = "offline" => Away(w)) /\ (Leaving(w) => Empty(w))
  BY DEF FaultOfflineInv
<1>2. /\ workers'[w] = "offline" => Away(w)'
      /\ Leaving(w)' => (Leaving(w) /\ (Clean(w) => Clean(w)')) \/ Clean(w)'
  BY <1>1, OfflineByWorker
<1>3. QED
  BY <1>1, <1>2 DEF Empty

\* Whichever transaction failed, a worker that went offline holds no job, unless
\* its release failed or a stuck job aborted it.
THEOREM FaultyOfflineIsEmpty == FaultSpec => []OfflineIsEmpty
<1>1. ASSUME FaultInit PROVE FaultOfflineInv
  <2>1. \A w \in Worker : InFlight(w) = {} /\ proc[w].pc = "down"
    BY <1>1 DEF FaultInit, AppInit, Idle, Init, InFlight, HoldsLock, HasStatus, Exists
  <2>2. QED
    BY <2>1 DEF FaultOfflineInv, Empty, Clean, Away
<1>2. IInv /\ ProcInv /\ BooksOK /\ FaultOfflineInv /\ [FaultNext]_faultVars
        => FaultOfflineInv'
  BY FaultSteps, SoundOfflineStep, FailingOfflineStep
<1>3. FaultOfflineInv => OfflineIsEmpty
  BY DEF FaultOfflineInv, OfflineIsEmpty, Leaving, Empty, Clean
<1>4. QED
  BY <1>1, <1>2, <1>3, FaultProcesses, FaultInvariance, PTL DEF FaultSpec

------------------------------------------------------------------------------
(* A worker's leases, with the history of LeaseHistory beside the step. *)

\* A claim that took effect without its worker keeps to the remaining capacity,
\* and no other failing step makes a lease fresh.
LEMMA FailingRoom ==
  ASSUME IInv, ProcInv, RoomInv, Watched, NEW v \in Worker, Failing(v)
  PROVE  RoomInv'
<1> SUFFICES ASSUME NEW w \in Worker
             PROVE  Cardinality(FreshLeases(w)') + Pending(w)' <= Concurrency
  BY DEF RoomInv
<1>1. /\ Cardinality(FreshLeases(w)) \in Nat /\ Cardinality(FreshLeases(w)') \in Nat
      /\ proc \in [Worker -> Process] /\ proc[w].remaining \in Nat
      /\ Pending(w) \in Nat /\ Concurrency \in Nat
      /\ Cardinality(FreshLeases(w)) + Pending(w) <= Concurrency
  BY FreshIsFinite, AppAssumption
  DEF AppAssumption, ProcInv, Process, Pending, RoomInv
<1>2. CASE v = w /\ LostClaim(w)
  <2>1. At(w, "claim") /\ ~At(w, "claim")'
    BY <1>1, <1>2 DEF LostClaim, ClaimBreaks, At, Process
  <2>2. Pending(w) = proc[w].remaining /\ Pending(w)' = 0
    BY <2>1 DEF Pending
  <2>3. Cardinality(FreshLeases(w)') <= Cardinality(FreshLeases(w)) + proc[w].remaining
    BY <1>1, <1>2, BatchFits DEF LostClaim
  <2>4. QED
    BY <1>1, <2>2, <2>3
<1>3. CASE ~(v = w /\ LostClaim(w))
  <2>1. FreshLeases(w)' \subseteq FreshLeases(w)
    <3> SUFFICES ASSUME NEW j \in FreshLeases(w)' PROVE j \in FreshLeases(w)
      OBVIOUS
    <3>1. j \in Job /\ HoldsLock(w, j)' /\ j \notin lapsed
      BY StaysFresh
    <3>2. HoldsLock(w, j)
      BY <1>3, <3>1, FailingLocks
    <3>3. QED
      BY <3>1, <3>2 DEF FreshLeases, InFlight
  <2>2. Cardinality(FreshLeases(w)') <= Cardinality(FreshLeases(w))
    BY <2>1, FreshIsFinite, FS_Subset
  <2>3. Pending(w)' = 0 \/ Pending(w)' = Pending(w)
    <3>1. CASE v # w
      <4>1. proc'[w] = proc[w]
        BY <1>1, <3>1
        DEF Failing, RegisterBreaks, HeartbeatBreaks, ReapBreaks, ClaimBreaks, ReleaseBreaks,
            OfflineBreaks, Unwind, BeatBreaks, Goto, appVars
      <4>2. QED
        BY <4>1 DEF At, Pending
    <3>2. CASE Unwind(w) \/ \E j \in Job : BeatBreaks(w, j)
      <4>1. proc'[w].pc = proc[w].pc /\ proc'[w].remaining = proc[w].remaining
        BY <1>1, <3>2 DEF Unwind, BeatBreaks, Process, appVars
      <4>2. QED
        BY <4>1 DEF At, Pending
    <3>3. CASE \/ RegisterBreaks(w) \/ HeartbeatBreaks(w) \/ ReapBreaks(w) \/ ClaimBreaks(w)
               \/ ReleaseBreaks(w) \/ OfflineBreaks(w)
      <4>1. proc'[w].pc \in {"finally", "offline", "down"}
        BY <1>1, <3>3
        DEF RegisterBreaks, HeartbeatBreaks, ReapBreaks, ClaimBreaks, ReleaseBreaks,
            OfflineBreaks, Goto, Idle, Process
      <4>2. QED
        BY <4>1 DEF At, Pending
    <3>4. QED
      BY <3>1, <3>2, <3>3 DEF Failing
  <2>4. QED
    BY <1>1, <2>2, <2>3
<1>4. QED
  BY <1>2, <1>3

\* However transactions lag and whichever fails, a worker takes jobs for its free
\* slots only: what it holds beyond them are leases revived after they ran out.
THEOREM OverrunsAreRevived == WatchedSpec => []OverrunIsRevived
<1>1. WatchedInit => RoomInv /\ LapsedInv
  BY RoomInitially DEF WatchedInit, FaultInit
<1>2. ASSUME IInv, ProcInv, RoomInv, LapsedInv, [WatchedNext]_watchedVars
      PROVE  RoomInv' /\ LapsedInv'
  <2>1. [FaultNext]_faultVars /\ Watched
    BY <1>2 DEF WatchedNext, watchedVars, Watched, faultVars, allVars, vars
  <2>2. QED
    BY <1>2, <2>1, FaultSteps, RoomStep, FailingRoom, LapsedStep
<1>3. WatchedSpec => FaultSpec
  <2>1. [WatchedNext]_watchedVars => [FaultNext]_faultVars
    BY DEF WatchedNext, watchedVars
  <2>2. QED
    BY <2>1, PTL DEF WatchedSpec, WatchedInit, FaultSpec
<1>4. ASSUME RoomInv, ProcInv PROVE OverrunIsRevived
  <2> SUFFICES ASSUME NEW w \in Worker PROVE Cardinality(FreshLeases(w)) <= Concurrency
    BY DEF OverrunIsRevived
  <2>1. /\ Cardinality(FreshLeases(w)) \in Nat /\ Concurrency \in Nat /\ Pending(w) \in Nat
        /\ Cardinality(FreshLeases(w)) + Pending(w) <= Concurrency
    BY <1>4, FreshIsFinite, AppAssumption
    DEF AppAssumption, ProcInv, Process, Pending, RoomInv
  <2>2. QED
    BY <2>1
<1>5. QED
  BY <1>1, <1>2, <1>3, <1>4, FaultProcesses, FaultInvariance, PTL DEF WatchedSpec

------------------------------------------------------------------------------
(* Heartbeats. *)

\* What HeartbeatsCoverClaims accepts as a reason.
Excused(w) ==
  \/ <<w, "beat">> \in faults
  \/ <<w, "release">> \in faults
  \/ \E i \in InFlight(w) : Stuck(i)

\* Nobody was killed, no lease can have lapsed, and w has no excuse.
Sound(w) == stops = 0 /\ now < LeaseTTL /\ ~Excused(w)

\* No lease ends before the first one that can be given does.
LeaseFloor ==
  \A j \in Job : HasStatus(j, {"running"}) => jobs[j].lease_expires_at >= LeaseTTL

\* Claimed Job objects are held between the claim and the tasks for them, or
\* until the frame that holds them is unwound.
ClaimsAreRead ==
  \A w \in Worker : proc[w].pc \notin {"spawn", "finally"} => MyClaim(w) = {}

\* Who runs a task holds its job; on the way out there are no tasks, and after
\* the release no jobs; in the loop each job has its task, except those whose
\* claim is about to get one.
Covered(w) ==
  LET pc    == proc[w].pc
      tasks == proc[w].tasks
  IN  /\ ~proc[w].shutdown
      /\ \A j \in Job : tasks[j] = "none" \/ (tasks[j] = "waiting" /\ HoldsLock(w, j))
      /\ pc \in {"release", "offline", "down", "register"} =>
           \A j \in Job : tasks[j] = "none"
      /\ pc \in {"offline", "down", "register"} => InFlight(w) = {}
      /\ pc \in {"loop", "reap", "count", "claim", "sleep"} =>
           \A j \in Job : HoldsLock(w, j) => tasks[j] = "waiting"
      /\ pc = "spawn" =>
           /\ \A s \in MyClaim(w) : HoldsLock(w, s.job)
           /\ \A j \in Job : HoldsLock(w, j) =>
                tasks[j] = "waiting" \/ \E s \in MyClaim(w) : s.job = j

CoverInv ==
  /\ LeaseFloor
  /\ ClaimsAreRead
  /\ \A w \in Worker : Sound(w) => Covered(w)

\* Who holds a running job is a worker.
LEMMA HeldBySomeone ==
  ASSUME IInv, NEW j \in Job, HasStatus(j, {"running"})
  PROVE  jobs[j].locked_by \in Worker /\ jobs[j].lease_expires_at \in Nat
BY DEF IInv, TypeOK, LockIffRunning, HasStatus, Exists, JobRow

\* Claims and extensions give whole leases.
LEMMA LeaseFloorStep ==
  ASSUME IInv, IInv', LeaseFloor, [Next]_vars
  PROVE  LeaseFloor'
<1> SUFFICES ASSUME NEW j \in Job, HasStatus(j, {"running"})'
             PROVE  jobs'[j].lease_expires_at >= LeaseTTL
  BY DEF LeaseFloor
<1>0. TxNow \subseteq Nat /\ LeaseTTL \in Nat
  BY TxNowIsTime, StoreAssumption DEF StoreAssumption
<1>1. PICK w \in Worker : HoldsLock(w, j)'
  <2>1. (HasStatus(j, {"running"}) => jobs[j].locked_by \in Worker)'
    BY DEF IInv, TypeOK, LockIffRunning, HasStatus, Exists, JobRow
  <2>2. QED
    BY <2>1 DEF HoldsLock
<1>2. CASE Started(j)
  <2>1. RowOK(jobs[j]) /\ jobs[j] \in JobRow
    BY <1>2, StartedFacts DEF RowOK
  <2>2. PICK v \in Worker, t \in TxNow : jobs'[j] = Claimed(jobs[j], v, t)
    BY <1>2 DEF Started
  <2>3. jobs'[j].lease_expires_at = t + LeaseTTL
    BY <2>1, <2>2 DEF Claimed, JobRow
  <2>4. QED
    BY <1>0, <2>3
<1>3. CASE HoldsLock(w, j) /\ RowUnchanged(j)
  BY <1>3 DEF RowUnchanged, HoldsLock, LeaseFloor
<1>4. CASE Extended(j)
  <2>1. jobs[j] \in JobRow
    BY <1>4, RowFacts DEF Extended, HasStatus, RowOK
  <2>2. PICK t \in TxNow : jobs'[j] = [jobs[j] EXCEPT !.lease_expires_at = t + LeaseTTL]
    BY <1>4 DEF Extended
  <2>3. jobs'[j].lease_expires_at = t + LeaseTTL
    BY <2>1, <2>2 DEF JobRow
  <2>4. QED
    BY <1>0, <2>3
<1>5. QED
  BY <1>1, <1>2, <1>3, <1>4, LockSteps

\* Before the first lease can have lapsed there is nothing to reap.
LEMMA NothingExpired ==
  ASSUME IInv, LeaseFloor, now < LeaseTTL
  PROVE  /\ Expired(now) = {}
         /\ \A j \in Job, t \in TxNow : HasStatus(j, {"running"}) =>
              jobs[j].lease_expires_at > t
<1>1. \A j \in Job : HasStatus(j, {"running"}) => jobs[j].lease_expires_at \in Nat
  BY HeldBySomeone
<1>2. now \in Nat /\ LeaseTTL \in Nat
  BY StoreAssumption DEF IInv, TypeOK, StoreAssumption
<1>3. \A j \in Job : HasStatus(j, {"running"}) => jobs[j].lease_expires_at > now
  BY <1>1, <1>2 DEF LeaseFloor
<1>4. Expired(now) = {}
  BY <1>1, <1>2, <1>3 DEF Expired
<1>5. QED
  BY <1>1, <1>2, <1>3, <1>4 DEF TxNow

\* Then a worker's job leaves its hands in its own release only.
LEMMA LocksStay ==
  ASSUME IInv, ProcInv, LeaseFloor, now < LeaseTTL, [FaultNext]_faultVars,
         NEW w \in Worker, NEW j \in Job, HoldsLock(w, j)
  PROVE  HoldsLock(w, j)' \/ Release(w) \/ ReleaseBreaks(w)
<1>0. jobs = [i \in Job |-> jobs[i]]
  BY PerJob DEF Types
<1>1. jobs' = jobs \/ jobs'[j] = jobs[j] => HoldsLock(w, j)'
  BY DEF HoldsLock, HasStatus, Exists
<1>2. ASSUME NEW v \in Worker, NEW i \in Job, NEW t \in TxNow, ExtendLease(v, i, t)
      PROVE  HoldsLock(w, j)'
  <2>1. jobs'[j] = jobs[j] \/ Extended(j)
    BY <1>0, <1>2 DEF ExtendLease, Extended, HoldsLock
  <2>2. QED
    BY <1>1, <2>1, ExtendedFacts DEF HoldsLock, HasStatus, Exists
<1>3. ASSUME ApiNext PROVE HoldsLock(w, j)'
  <2>1. jobs'[j] = jobs[j] \/ j \notin issued
    BY <1>0, <1>3 DEF ApiNext, CreateJob, CancelJob, RetryJob, RetryDeadLetterJob,
       DeleteDeadLetterJob, HasStatus, HoldsLock, Cancellable, Retryable
  <2>2. j \in issued
    BY RowFacts DEF HoldsLock, HasStatus
  <2>3. QED
    BY <1>1, <2>1, <2>2
<1>4. ASSUME NEW v \in Worker, Reap(v) \/ ReapBreaks(v) PROVE UNCHANGED jobs
  <2>1. \A S \in ReapBatches : S = {}
    BY NothingExpired DEF ReapBatches
  <2>2. QED
    BY <1>4, <2>1 DEF Reap, ReapBreaks, ReapExpiredJobs, vars
<1>5. ASSUME NEW v \in Worker, Claim(v) \/ ClaimBreaks(v) PROVE jobs'[j] = jobs[j]
  BY <1>5 DEF Claim, ClaimBreaks, ClaimJobs, Claimable, HoldsLock, HasStatus, vars
<1>6. ASSUME NEW v \in Worker, v # w, Release(v) \/ ReleaseBreaks(v)
      PROVE  jobs'[j] = jobs[j]
  BY <1>6 DEF Release, ReleaseBreaks, ReleaseInFlightJobs, InFlight, HoldsLock, vars
<1>7. ASSUME NEW v \in Worker,
             \/ RegisterBreaks(v) \/ HeartbeatBreaks(v) \/ OfflineBreaks(v) \/ Unwind(v)
             \/ Start(v) \/ Register(v) \/ LoopTest(v) \/ SkipReap(v) \/ ReapFails(v)
             \/ Count(v) \/ Spawn(v) \/ Wake(v) \/ CancelHeartbeats(v) \/ MarkOffline(v)
             \/ ReapFallsDue(v) \/ Signal(v) \/ Crash(v)
             \/ \E i \in Job : BeatFindsNothing(v, i) \/ TaskReturns(v, i)
      PROVE  UNCHANGED jobs
  BY <1>7
  DEF RegisterBreaks, HeartbeatBreaks, OfflineBreaks, Unwind, LoseSnapshots, Start,
      Register, LoopTest, SkipReap, ReapFails, Count, Spawn, Wake, CancelHeartbeats,
      MarkOffline, ReapFallsDue, Signal, Crash, BeatFindsNothing, TaskReturns, vars
<1>8. ASSUME NEW v \in Worker, NEW i \in Job, Beat(v, i) \/ BeatBreaks(v, i)
      PROVE  HoldsLock(w, j)'
  <2>1. UNCHANGED jobs \/ \E t \in TxNow : ExtendLease(v, i, t)
    BY <1>8 DEF Beat, BeatBreaks, vars
  <2>2. QED
    BY <1>1, <1>2, <2>1
<1>9. ASSUME ClockTicks \/ UNCHANGED allVars PROVE HoldsLock(w, j)'
  BY <1>1, <1>9 DEF ClockTicks, Tick, allVars, vars
<1>10. ASSUME NEW v \in Worker, MainStep(v) \/ (\E i \in Job : TaskStep(v, i))
       PROVE  HoldsLock(w, j)' \/ Release(w)
  BY <1>1, <1>4, <1>5, <1>6, <1>7, <1>8, <1>10 DEF MainStep, TaskStep
<1>11. ASSUME [AppNext]_allVars PROVE HoldsLock(w, j)' \/ Release(w)
  BY <1>1, <1>3, <1>7, <1>9, <1>10, <1>11 DEF AppNext
<1>12. ASSUME NEW v \in Worker, Failing(v) PROVE HoldsLock(w, j)' \/ ReleaseBreaks(w)
  BY <1>1, <1>4, <1>5, <1>6, <1>7, <1>8, <1>12 DEF Failing
<1>13. QED
  BY <1>11, <1>12, FaultSteps

\* A step of worker w, whether its transaction fails or not.
OwnStep(w) ==
  \/ Failing(w)
  \/ (At(w, "finally") => MyClaim(w) = {}) /\ MainStep(w)
  \/ ReapFallsDue(w) \/ Signal(w) \/ Crash(w)
  \/ \E j \in Job : TaskStep(w, j)

\* A step that no worker takes.
NobodysStep == (ApiNext /\ UNCHANGED appVars) \/ ClockTicks \/ UNCHANGED allVars

\* A step is some worker's or nobody's.
LEMMA WhoseStep ==
  ASSUME [FaultNext]_faultVars
  PROVE  (\E v \in Worker : OwnStep(v)) \/ NobodysStep
<1>1. ASSUME NEW v \in Worker, FaultyMainStep(v) PROVE OwnStep(v)
  BY <1>1 DEF FaultyMainStep, OwnStep, Failing
<1>2. ASSUME NEW v \in Worker, NEW j \in Job, FaultyTaskStep(v, j) PROVE OwnStep(v)
  BY <1>2 DEF FaultyTaskStep, OwnStep, Failing
<1>3. QED
  BY <1>1, <1>2 DEF FaultNext, OwnStep, NobodysStep, faultVars

\* What others do leaves a process and the Job objects it holds alone.
LEMMA OthersStep ==
  ASSUME ProcInv, NEW w \in Worker,
         NobodysStep \/ \E v \in Worker \ {w} : OwnStep(v)
  PROVE  proc'[w] = proc[w] /\ MyClaim(w)' = MyClaim(w)
<1>0. proc \in [Worker -> Process]
  BY DEF ProcInv
<1>1. CASE NobodysStep
  BY <1>1 DEF NobodysStep, ApiNext, CreateJob, CancelJob, RetryJob, RetryDeadLetterJob,
              DeleteDeadLetterJob, ClockTicks, Tick, MyClaim, appVars, allVars, vars
<1>2. ASSUME NEW v \in Worker \ {w}, OwnStep(v)
      PROVE  proc'[w] = proc[w] /\ MyClaim(w)' = MyClaim(w)
  <2>1. proc'[w] = proc[w]
    BY <1>0, <1>2
    DEF OwnStep, Failing, RegisterBreaks, HeartbeatBreaks, ReapBreaks, ClaimBreaks,
        ReleaseBreaks, OfflineBreaks, Unwind, BeatBreaks, MainStep, Start, Register,
        LoopTest, SkipReap, Reap, ReapFails, Count, Claim, Spawn, Wake, CancelHeartbeats,
        Release, MarkOffline, ReapFallsDue, Signal, Crash, TaskStep, Beat,
        BeatFindsNothing, TaskReturns, Goto, appVars
  <2>2. CASE Claim(v) \/ ClaimBreaks(v)
    <3>1. UNCHANGED snapshots \/ \E S \in SUBSET Job, t \in Nat : ClaimJobs(v, S, t)
      <4>1. proc[v].poll_time \in Nat
        BY <1>0 DEF Process
      <4>2. Claimable(v, proc[v].poll_time) \subseteq Job
        BY DEF Claimable
      <4>3. QED
        BY <2>2, <4>1, <4>2 DEF Claim, ClaimBreaks, vars
    <3>2. QED
      BY <2>1, <3>1 DEF ClaimJobs, MyClaim
  <2>3. CASE Spawn(v) \/ Crash(v) \/ Unwind(v)
    BY <2>1, <2>3 DEF Spawn, Crash, Unwind, LoseSnapshots, MyClaim
  <2>4. CASE ~(Claim(v) \/ ClaimBreaks(v) \/ Spawn(v) \/ Crash(v) \/ Unwind(v))
    <3>1. UNCHANGED snapshots
      BY <1>2, <2>4
      DEF OwnStep, Failing, RegisterBreaks, HeartbeatBreaks, ReapBreaks, ReleaseBreaks,
          OfflineBreaks, BeatBreaks, MainStep, Start, Register, LoopTest, SkipReap, Reap,
          ReapFails, Count, Wake, CancelHeartbeats, Release, MarkOffline, ReapFallsDue,
          Signal, TaskStep, Beat, BeatFindsNothing, TaskReturns, ReapExpiredJobs,
          ReleaseInFlightJobs, ExtendLease, vars
    <3>2. QED
      BY <2>1, <3>1 DEF MyClaim
  <2>5. QED
    BY <2>2, <2>3, <2>4
<1>3. QED
  BY <1>1, <1>2

\* A worker moves on from spawn and finally without Job objects.
LEMMA ClaimsAreReadStep ==
  ASSUME ProcInv, ClaimsAreRead, [FaultNext]_faultVars
  PROVE  ClaimsAreRead'
<1> SUFFICES ASSUME NEW w \in Worker, proc'[w].pc \notin {"spawn", "finally"}
             PROVE  MyClaim(w)' = {}
  BY DEF ClaimsAreRead
<1>0. proc \in [Worker -> Process] /\ (proc[w].pc \notin {"spawn", "finally"} => MyClaim(w) = {})
  BY DEF ProcInv, ClaimsAreRead
<1>1. CASE NobodysStep \/ \E v \in Worker \ {w} : OwnStep(v)
  BY <1>0, <1>1, OthersStep
<1>2. CASE OwnStep(w)
  <2>1. CASE Spawn(w) \/ Crash(w) \/ Unwind(w)
    BY <2>1 DEF Spawn, Crash, Unwind, LoseSnapshots, MyClaim
  <2>2. CASE \/ RegisterBreaks(w) \/ HeartbeatBreaks(w) \/ ReapBreaks(w) \/ ClaimBreaks(w)
             \/ Claim(w) \/ ReapFails(w)
    <3>1. proc'[w].pc \in {"spawn", "finally"}
      BY <1>0, <2>2 DEF RegisterBreaks, HeartbeatBreaks, ReapBreaks, ClaimBreaks, Claim,
                        ReapFails, Goto, Process
    <3>2. QED
      BY <3>1
  <2>3. CASE \/ ReleaseBreaks(w) \/ OfflineBreaks(w) \/ Start(w) \/ Register(w)
             \/ LoopTest(w) \/ SkipReap(w) \/ Reap(w) \/ Count(w) \/ Wake(w)
             \/ (MyClaim(w) = {} /\ CancelHeartbeats(w)) \/ Release(w) \/ MarkOffline(w)
    <3>1. UNCHANGED snapshots
      BY <2>3
      DEF ReleaseBreaks, OfflineBreaks, Start, Register, LoopTest, SkipReap, Reap, Count,
          Wake, CancelHeartbeats, Release, MarkOffline, ReapExpiredJobs,
          ReleaseInFlightJobs, vars
    <3>2. MyClaim(w) = {}
      BY <1>0, <2>3
      DEF ReleaseBreaks, OfflineBreaks, Start, Register, LoopTest, SkipReap, Reap, Count,
          Wake, Release, MarkOffline, At
    <3>3. QED
      BY <3>1, <3>2 DEF MyClaim
  <2>4. CASE \/ ReapFallsDue(w) \/ Signal(w)
             \/ \E j \in Job : TaskStep(w, j) \/ BeatBreaks(w, j)
    <3>1. UNCHANGED snapshots /\ proc'[w].pc = proc[w].pc
      BY <1>0, <2>4
      DEF ReapFallsDue, Signal, TaskStep, Beat, BeatFindsNothing, TaskReturns, BeatBreaks,
          ExtendLease, Process, appVars, vars
    <3>2. QED
      BY <1>0, <3>1 DEF MyClaim
  <2>5. QED
    BY <1>2, <2>1, <2>2, <2>3, <2>4 DEF OwnStep, Failing, MainStep, CancelHeartbeats
<1>3. QED
  BY <1>1, <1>2, WhoseStep

\* Excuses, the stops of processes and time that passed do not go away.
LEMMA SoundBefore ==
  ASSUME IInv, ProcInv, BooksOK, [FaultNext]_faultVars, NEW w \in Worker, Sound(w)'
  PROVE  Sound(w) /\ stops' = stops
<1>1. [Next]_vars
  BY FaultStoreSteps
<1>2. faults \subseteq faults'
  BY FaultSteps, FaultsGrow
<1>3. now \in Nat /\ (now' = now \/ now' = now + 1) /\ LeaseTTL \in Nat
  <2>1. now' = now \/ now' = now + 1
    <3>1. CASE \E v \in Worker : Failing(v)
      BY <3>1, FailingMoves
    <3>2. CASE [AppNext]_allVars
      BY <3>2, NowSteps DEF ClockTicks, Tick
    <3>3. QED
      BY <3>1, <3>2, FaultSteps
  <2>2. QED
    BY <2>1, StoreAssumption DEF StoreAssumption, ProcInv
<1>4. stops \in Nat /\ (stops' = stops \/ stops' = stops + 1)
  <2>1. stops' = stops \/ \E v \in Worker : Signal(v) \/ Crash(v)
    <3>1. ASSUME NEW v \in Worker, OwnStep(v), ~Signal(v), ~Crash(v) PROVE stops' = stops
      BY <3>1
      DEF OwnStep, Failing, RegisterBreaks, HeartbeatBreaks, ReapBreaks, ClaimBreaks,
          ReleaseBreaks, OfflineBreaks, Unwind, BeatBreaks, MainStep, Start, Register,
          LoopTest, SkipReap, Reap, ReapFails, Count, Claim, Spawn, Wake, CancelHeartbeats,
          Release, MarkOffline, ReapFallsDue, TaskStep, Beat, BeatFindsNothing,
          TaskReturns, appVars
    <3>2. CASE NobodysStep
      BY <3>2 DEF NobodysStep, ClockTicks, appVars, allVars
    <3>3. QED
      BY <3>1, <3>2, WhoseStep
  <2>2. \A v \in Worker : Signal(v) \/ Crash(v) => stops' = stops + 1
    BY DEF Signal, Crash
  <2>3. stops \in Nat
    BY AppAssumption DEF AppAssumption, BooksOK
  <2>4. QED
    BY <2>1, <2>2, <2>3
<1>5. Excused(w) => Excused(w)'
  <2>1. ASSUME NEW i \in InFlight(w), Stuck(i) PROVE Excused(w)'
    <3>1. i \in Job /\ Stuck(i)' /\ jobs'[i].locked_by = w
      BY <1>1, <2>1, StuckStep DEF InFlight, HoldsLock
    <3>2. i \in InFlight(w)'
      BY <3>1 DEF InFlight, HoldsLock, Stuck
    <3>3. QED
      BY <3>1, <3>2 DEF Excused
  <2>2. QED
    BY <1>2, <2>1 DEF Excused
<1>6. QED
  BY <1>3, <1>4, <1>5 DEF Sound

\* A worker gets a job by a claim, of which it may not hear.
LEMMA NewLocks ==
  ASSUME IInv, ProcInv, [FaultNext]_faultVars, NEW w \in Worker, NEW j \in Job,
         HoldsLock(w, j)'
  PROVE  HoldsLock(w, j) \/ Claim(w) \/ LostClaim(w)
BY FaultSteps, OnlyClaimsLock, FailingLocks

\* The jobs of a claim that the worker hears of are those it gets Job objects of.
LEMMA ClaimIsHeard ==
  ASSUME IInv, ProcInv, NEW w \in Worker, Claim(w), MyClaim(w) = {}
  PROVE  /\ \A s \in MyClaim(w)' : HoldsLock(w, s.job)'
         /\ \A j \in Job : HoldsLock(w, j)' =>
              HoldsLock(w, j) \/ \E s \in MyClaim(w)' : s.job = j
<1> DEFINE t == proc[w].poll_time
<1>1. CASE UNCHANGED vars
  BY <1>1 DEF vars, MyClaim, HoldsLock, HasStatus, Exists
<1>2. ASSUME NEW S \in SUBSET Job, S \subseteq Claimable(w, t), ClaimJobs(w, S, t)
      PROVE  /\ \A s \in MyClaim(w)' : HoldsLock(w, s.job)'
             /\ \A j \in Job : HoldsLock(w, j)' =>
                  HoldsLock(w, j) \/ \E s \in MyClaim(w)' : s.job = j
  <2>1. t \in Nat
    BY DEF ProcInv, Process
  <2>2. MyClaim(w)' = {[worker |-> w, job |-> j, attempts |-> jobs[j].attempts + 1] : j \in S}
    BY <1>2 DEF ClaimJobs, MyClaim
  <2>3. ASSUME NEW j \in S PROVE HoldsLock(w, j)'
    <3>1. /\ RowOK(jobs[j]) /\ jobs[j].status \in {"queued", "scheduled", "retrying"}
          /\ jobs'[j] = Claimed(jobs[j], w, t)
      BY <1>2, RowFacts DEF ClaimJobs, Claimable, HasStatus
    <3>2. RowOK(jobs'[j]) /\ jobs'[j].status = "running" /\ jobs'[j].locked_by = w
      BY <2>1, <3>1, ClaimedRow
    <3>3. jobs'[j] # NULL
      BY <3>2, NullAssumption DEF RowOK
    <3>4. QED
      BY <3>2, <3>3 DEF HoldsLock, HasStatus, Exists
  <2>4. ASSUME NEW j \in Job \ S, HoldsLock(w, j)' PROVE HoldsLock(w, j)
    BY <1>2, <2>4 DEF ClaimJobs, HoldsLock, HasStatus, Exists
  <2>5. ASSUME NEW s \in MyClaim(w)' PROVE HoldsLock(w, s.job)'
    <3>1. s.job \in S
      BY <2>2
    <3>2. HoldsLock(w, s.job)'
      BY <2>3, <3>1
    <3>3. QED
      BY <3>2
  <2>6. ASSUME NEW j \in S PROVE \E s \in MyClaim(w)' : s.job = j
    <3> DEFINE s == [worker |-> w, job |-> j, attempts |-> jobs[j].attempts + 1]
    <3>1. s \in MyClaim(w)' /\ s.job = j
      BY <2>2
    <3>2. QED
      BY <3>1
  <2>7. ASSUME NEW j \in Job, HoldsLock(w, j)'
        PROVE  HoldsLock(w, j) \/ \E s \in MyClaim(w)' : s.job = j
    BY <2>4, <2>6, <2>7
  <2>8. QED
    BY <2>5, <2>7
<1>3. QED
  <2>1. Claimable(w, t) \subseteq Job
    BY DEF Claimable
  <2>2. QED
    BY <1>1, <1>2, <2>1 DEF Claim

\* A release that goes through leaves its worker no job.
LEMMA ReleaseEmpties ==
  ASSUME IInv, NEW w \in Worker, Release(w), ~Excused(w)
  PROVE  InFlight(w)' = {}
<1>1. CASE UNCHANGED vars
  <2>1. InFlight(w) = {}
    <3>1. ~ReleaseInFlightJobs(w)
      <4>1. ASSUME ReleaseInFlightJobs(w) PROVE FALSE
        <5>1. PICK j \in InFlight(w) : jobs'[j] = Released(jobs[j])
          BY <4>1 DEF ReleaseInFlightJobs, InFlight
        <5>2. Released(jobs[j]).status = "queued" /\ jobs[j].status = "running"
          BY RowFacts, ReleasedRow DEF InFlight, HoldsLock, HasStatus
        <5>3. QED
          BY <1>1, <5>1, <5>2 DEF vars
      <4>2. QED
        BY <4>1
    <3>2. QED
      BY <3>1 DEF Release, Excused
  <2>2. QED
    BY <1>1, <2>1 DEF InFlight, HoldsLock, HasStatus, Exists, vars
<1>2. CASE ReleaseInFlightJobs(w)
  <2>1. ASSUME NEW j \in Job, HoldsLock(w, j)' PROVE FALSE
    <3>1. CASE HoldsLock(w, j)
      <4>1. jobs'[j] = Released(jobs[j])
        BY <1>2, <3>1 DEF ReleaseInFlightJobs, InFlight
      <4>2. Released(jobs[j]).status = "queued"
        BY <3>1, RowFacts, ReleasedRow DEF HoldsLock, HasStatus
      <4>3. QED
        BY <2>1, <4>1, <4>2 DEF HoldsLock, HasStatus
    <3>2. CASE ~HoldsLock(w, j)
      BY <1>2, <2>1, <3>2 DEF ReleaseInFlightJobs, InFlight, HoldsLock, HasStatus, Exists
    <3>3. QED
      BY <3>1, <3>2
  <2>2. QED
    BY <2>1 DEF InFlight
<1>3. QED
  BY <1>1, <1>2 DEF Release

\* A worker whose locks stay as they are stays covered where it is, and where the
\* loop takes it.
LEMMA CoveredStays ==
  ASSUME IInv, NEW w \in Worker, Covered(w), ~proc'[w].shutdown,
         proc'[w].tasks = proc[w].tasks,
         \A j \in Job : HoldsLock(w, j)' <=> HoldsLock(w, j),
         \/ proc'[w].pc = proc[w].pc /\ MyClaim(w)' = MyClaim(w)
         \/ /\ proc[w].pc \in {"loop", "reap", "count", "claim", "sleep"}
            /\ proc'[w].pc \in {"loop", "reap", "count", "claim", "sleep"}
         \/ proc[w].pc = "register" /\ proc'[w].pc = "loop"
         \/ proc'[w].pc = "finally"
  PROVE  Covered(w)'
<1>1. InFlight(w) = {} <=> \A j \in Job : ~HoldsLock(w, j)
  BY DEF InFlight
<1>2. InFlight(w)' = {} <=> \A j \in Job : ~HoldsLock(w, j)'
  BY DEF InFlight
<1>3. \A j \in Job : proc'[w].tasks[j] = "none"
                     \/ (proc'[w].tasks[j] = "waiting" /\ HoldsLock(w, j)')
  BY DEF Covered
<1>4. CASE proc'[w].pc = proc[w].pc /\ MyClaim(w)' = MyClaim(w)
  <2>1. ASSUME proc'[w].pc = "spawn", NEW s \in MyClaim(w)' PROVE HoldsLock(w, s.job)'
    <3>1. s.job \in Job /\ HoldsLock(w, s.job)
      BY <1>4, <2>1 DEF Covered, MyClaim, IInv, TypeOK, Snapshot
    <3>2. QED
      BY <3>1
  <2>2. ASSUME proc'[w].pc = "spawn", NEW j \in Job, HoldsLock(w, j)'
        PROVE  proc'[w].tasks[j] = "waiting" \/ \E s \in MyClaim(w)' : s.job = j
    BY <1>4, <2>2 DEF Covered
  <2>3. QED
    BY <1>1, <1>2, <1>3, <1>4, <2>1, <2>2 DEF Covered
<1>5. QED
  BY <1>1, <1>2, <1>3, <1>4 DEF Covered

\* A worker without tasks, and after its release without jobs, is covered.
LEMMA RestIsCovered ==
  ASSUME NEW w \in Worker, ~proc'[w].shutdown,
         \A j \in Job : proc'[w].tasks[j] = "none",
         \/ proc'[w].pc \in {"offline", "down", "register"} /\ InFlight(w)' = {}
         \/ proc'[w].pc = "release"
  PROVE  Covered(w)'
BY DEF Covered

\* What w does itself keeps it covered: it loses a job only by its release, and
\* what it claims it gets a task for before it sleeps.
LEMMA OwnStepCovered ==
  ASSUME IInv, ProcInv, LeaseFloor, ClaimsAreRead, [FaultNext]_faultVars,
         NEW w \in Worker, Covered(w), Sound(w), Sound(w)', stops' = stops, stops \in Nat,
         OwnStep(w)
  PROVE  Covered(w)'
<1> DEFINE p == proc[w]
<1>0. /\ proc \in [Worker -> Process] /\ p \in Process /\ p.tasks \in [Job -> TaskState]
      /\ ~p.shutdown /\ now < LeaseTTL
  BY DEF ProcInv, Process, Covered, Sound
<1>1. ASSUME ~Release(w), ~ReleaseBreaks(w), NEW j \in Job, HoldsLock(w, j)
      PROVE  HoldsLock(w, j)'
  BY <1>0, <1>1, LocksStay
<1>2. ASSUME ~Claim(w), ~LostClaim(w), NEW j \in Job, HoldsLock(w, j)'
      PROVE  HoldsLock(w, j)
  BY <1>2, NewLocks
<1>3. CASE Start(w) \/ MarkOffline(w) \/ OfflineBreaks(w)
  <2>1. p.pc \in {"down", "offline"} /\ InFlight(w) = {}
    BY <1>3 DEF Start, MarkOffline, OfflineBreaks, At, Covered
  <2>2. ~Claim(w) /\ ~LostClaim(w)
    BY <2>1 DEF Claim, LostClaim, At
  <2>3. InFlight(w)' = {}
    BY <1>2, <2>1, <2>2 DEF InFlight
  <2>4. \E pc \in {"register", "down"}, b \in BOOLEAN : proc'[w] = Idle(pc, b)
    BY <1>0, <1>3 DEF Start, MarkOffline, OfflineBreaks
  <2>5. /\ ~proc'[w].shutdown /\ \A j \in Job : proc'[w].tasks[j] = "none"
        /\ proc'[w].pc \in {"register", "down"}
    BY <2>4 DEF Idle, NoTasks
  <2>6. QED
    BY <2>3, <2>5, RestIsCovered
<1>4. CASE Register(w) \/ LoopTest(w) \/ SkipReap(w) \/ Reap(w) \/ Count(w) \/ Wake(w)
  <2>1. \/ p.pc = "register" /\ proc'[w].pc = "loop"
        \/ /\ p.pc \in {"loop", "reap", "count", "sleep"}
           /\ proc'[w].pc \in {"loop", "reap", "count", "claim"}
    BY <1>0, <1>4 DEF Register, LoopTest, SkipReap, Reap, Count, Wake, At, Goto, Process
  <2>2. proc'[w].tasks = p.tasks /\ ~proc'[w].shutdown
    BY <1>0, <1>4 DEF Register, LoopTest, SkipReap, Reap, Count, Wake, At, Goto, Process
  <2>3. ~Claim(w) /\ ~LostClaim(w) /\ ~Release(w) /\ ~ReleaseBreaks(w)
    BY <2>1 DEF Claim, LostClaim, Release, ReleaseBreaks, At
  <2>4. \A j \in Job : HoldsLock(w, j)' <=> HoldsLock(w, j)
    BY <1>1, <1>2, <2>3
  <2>5. QED
    BY <2>1, <2>2, <2>4, CoveredStays
<1>5. CASE \/ RegisterBreaks(w) \/ HeartbeatBreaks(w) \/ ReapBreaks(w) \/ ClaimBreaks(w)
           \/ ReapFails(w)
  <2>1. proc'[w].pc = "finally" /\ proc'[w].tasks = p.tasks /\ ~proc'[w].shutdown
    BY <1>0, <1>5
    DEF RegisterBreaks, HeartbeatBreaks, ReapBreaks, ClaimBreaks, ReapFails, Goto, Process
  <2>2. ~Release(w) /\ ~ReleaseBreaks(w)
    BY <1>0, <2>1 DEF Release, ReleaseBreaks, Goto, Process
  <2>3. \A j \in Job : HoldsLock(w, j) => HoldsLock(w, j)'
    BY <1>1, <2>2
  <2>4. QED
    BY <2>1, <2>3 DEF Covered
<1>6. CASE Claim(w)
  <2>1. p.pc = "claim" /\ MyClaim(w) = {}
    BY <1>6 DEF Claim, At, ClaimsAreRead
  <2>2. proc'[w].pc = "spawn" /\ proc'[w].tasks = p.tasks /\ ~proc'[w].shutdown
    BY <1>0, <1>6 DEF Claim, Process
  <2>3. ~Release(w) /\ ~ReleaseBreaks(w)
    BY <2>1 DEF Release, ReleaseBreaks, At
  <2>4. \A j \in Job : HoldsLock(w, j) => HoldsLock(w, j)' /\ p.tasks[j] = "waiting"
    BY <1>1, <2>1, <2>3 DEF Covered
  <2>5. /\ \A s \in MyClaim(w)' : HoldsLock(w, s.job)'
        /\ \A j \in Job : HoldsLock(w, j)' =>
             HoldsLock(w, j) \/ \E s \in MyClaim(w)' : s.job = j
    BY <1>6, <2>1, ClaimIsHeard
  <2>6. \A j \in Job : p.tasks[j] = "none" \/ (p.tasks[j] = "waiting" /\ HoldsLock(w, j))
    BY DEF Covered
  <2>7. QED
    BY <2>2, <2>4, <2>5, <2>6 DEF Covered
<1>7. CASE Spawn(w)
  <2> DEFINE claimed == {s.job : s \in MyClaim(w)}
  <2>1. p.pc = "spawn"
    BY <1>7 DEF Spawn, At
  <2>2. /\ proc'[w].pc = "sleep" /\ ~proc'[w].shutdown
        /\ proc'[w].tasks = TasksAfter(p.tasks, claimed)
    BY <1>0, <1>7 DEF Spawn, Process
  <2>3. \A j \in Job : HoldsLock(w, j)' <=> HoldsLock(w, j)
    BY <1>7 DEF Spawn, HoldsLock, HasStatus, Exists
  <2>4. ASSUME NEW j \in Job PROVE TasksAfter(p.tasks, claimed)[j] =
                                     IF j \in claimed THEN "waiting" ELSE p.tasks[j]
    <3>1. p.tasks[j] \in {"none", "waiting"}
      BY DEF Covered
    <3>2. QED
      BY <3>1 DEF TasksAfter
  <2>5. /\ \A j \in claimed : HoldsLock(w, j)
        /\ \A j \in Job : HoldsLock(w, j) => p.tasks[j] = "waiting" \/ j \in claimed
        /\ \A j \in Job : p.tasks[j] = "none"
                          \/ (p.tasks[j] = "waiting" /\ HoldsLock(w, j))
    BY <2>1 DEF Covered
  <2>6. \A j \in Job : /\ \/ proc'[w].tasks[j] = "none"
                          \/ proc'[w].tasks[j] = "waiting" /\ HoldsLock(w, j)'
                       /\ HoldsLock(w, j)' => proc'[w].tasks[j] = "waiting"
    BY <2>2, <2>3, <2>4, <2>5
  <2>7. QED
    BY <2>2, <2>6 DEF Covered
<1>8. CASE CancelHeartbeats(w)
  <2>1. /\ proc'[w].pc = "release" /\ ~proc'[w].shutdown
        /\ \A j \in Job : proc'[w].tasks[j] = "none"
    BY <1>0, <1>8 DEF CancelHeartbeats, NoTasks, Process
  <2>2. QED
    BY <2>1, RestIsCovered
<1>9. CASE Release(w)
  <2>1. InFlight(w)' = {}
    BY <1>9, ReleaseEmpties DEF Sound
  <2>2. p.pc = "release" /\ proc'[w].pc = "offline" /\ ~proc'[w].shutdown
        /\ proc'[w].tasks = p.tasks
    BY <1>0, <1>9 DEF Release, At, Goto, Process
  <2>3. \A j \in Job : proc'[w].tasks[j] = "none"
    BY <2>2 DEF Covered
  <2>4. QED
    BY <2>1, <2>2, <2>3, RestIsCovered
<1>10. CASE ReapFallsDue(w) \/ Unwind(w) \/ \E j \in Job : Beat(w, j)
  <2>1. /\ proc'[w].pc = p.pc /\ proc'[w].tasks = p.tasks /\ ~proc'[w].shutdown
        /\ UNCHANGED snapshots \/ p.pc = "finally"
    BY <1>0, <1>10
    DEF ReapFallsDue, Unwind, Beat, ExtendLease, At, Process, appVars, vars
  <2>2. ~Claim(w) /\ ~LostClaim(w) /\ ~Release(w) /\ ~ReleaseBreaks(w)
    BY <1>0, <2>1 DEF Claim, LostClaim, ClaimBreaks, Release, ReleaseBreaks, At, Goto, Process
  <2>3. \A j \in Job : HoldsLock(w, j)' <=> HoldsLock(w, j)
    BY <1>1, <1>2, <2>2
  <2>4. MyClaim(w)' = MyClaim(w) \/ proc'[w].pc = "finally"
    BY <2>1 DEF MyClaim
  <2>5. QED
    BY <2>1, <2>3, <2>4, CoveredStays
<1>11. ASSUME NEW j \in Job, BeatFindsNothing(w, j) \/ TaskReturns(w, j) PROVE FALSE
  <2>1. p.tasks[j] = "waiting" /\ HoldsLock(w, j)
    BY <1>0, <1>11 DEF BeatFindsNothing, TaskReturns, Covered
  <2>2. \A t \in TxNow : jobs[j].lease_expires_at > t
    BY <1>0, <2>1, NothingExpired DEF HoldsLock
  <2>3. QED
    BY <1>0, <1>11, <2>1, <2>2 DEF BeatFindsNothing, TaskReturns
<1>12. ~Signal(w) /\ ~Crash(w)
  <2>1. Signal(w) \/ Crash(w) => stops' = stops + 1
    BY DEF Signal, Crash
  <2>2. QED
    BY <2>1
<1>13. ~ReleaseBreaks(w) /\ \A j \in Job : ~BeatBreaks(w, j)
  BY DEF Sound, Excused, ReleaseBreaks, BeatBreaks, Breaks
<1>14. QED
  BY <1>3, <1>4, <1>5, <1>6, <1>7, <1>8, <1>9, <1>10, <1>11, <1>12, <1>13
  DEF OwnStep, Failing, MainStep, TaskStep

\* No step uncovers a worker that stays sound.
LEMMA CoverStep ==
  ASSUME IInv, IInv', ProcInv, BooksOK, CoverInv, [FaultNext]_faultVars
  PROVE  CoverInv'
<1>1. LeaseFloor' /\ ClaimsAreRead'
  BY FaultStoreSteps, LeaseFloorStep, ClaimsAreReadStep DEF CoverInv
<1>2. ASSUME NEW w \in Worker, Sound(w)' PROVE Covered(w)'
  <2>1. Sound(w) /\ stops' = stops /\ stops \in Nat
    BY <1>2, SoundBefore, AppAssumption DEF AppAssumption, BooksOK
  <2>2. Covered(w) /\ LeaseFloor /\ ClaimsAreRead
    BY <2>1 DEF CoverInv
  <2>3. CASE OwnStep(w)
    BY <1>2, <2>1, <2>2, <2>3, OwnStepCovered
  <2>4. CASE NobodysStep \/ \E v \in Worker \ {w} : OwnStep(v)
    <3>1. proc'[w] = proc[w] /\ MyClaim(w)' = MyClaim(w)
      BY <2>4, OthersStep
    <3>2. ~Claim(w) /\ ~LostClaim(w) /\ ~Release(w) /\ ~ReleaseBreaks(w)
      BY <3>1 DEF Claim, LostClaim, ClaimBreaks, Release, ReleaseBreaks, At, Goto,
                  ProcInv, Process
    <3>3. \A j \in Job : HoldsLock(w, j)' <=> HoldsLock(w, j)
      BY <2>1, <2>2, <3>2, LocksStay, NewLocks DEF Sound
    <3>4. ~proc'[w].shutdown
      BY <2>2, <3>1 DEF Covered
    <3>5. QED
      BY <2>2, <3>1, <3>3, <3>4, CoveredStays
  <2>5. QED
    BY <2>3, <2>4, WhoseStep
<1>3. QED
  BY <1>1, <1>2 DEF CoverInv

\* As long as nobody was killed and no lease can have lapsed, a worker at work
\* has a heartbeat for each of its jobs, whichever transaction failed, unless a
\* heartbeat or a release was what failed or a stuck job aborted a release.
THEOREM HeartbeatsAreKept == FaultSpec => []HeartbeatsCoverClaims
<1>1. ASSUME FaultInit PROVE CoverInv
  <2>1. /\ jobs = [j \in Job |-> NULL] /\ snapshots = {}
        /\ \A w \in Worker : proc[w] = Idle("down", FALSE)
    BY <1>1 DEF FaultInit, AppInit, Init
  <2>2. \A j \in Job : ~Exists(j)
    BY <2>1 DEF Exists
  <2>3. \A w \in Worker : Covered(w)
    BY <2>1, <2>2 DEF Covered, Idle, NoTasks, InFlight, HoldsLock, HasStatus
  <2>4. QED
    BY <2>1, <2>2, <2>3 DEF CoverInv, LeaseFloor, ClaimsAreRead, MyClaim, HasStatus
<1>2. IInv /\ IInv' /\ ProcInv /\ BooksOK /\ CoverInv /\ [FaultNext]_faultVars => CoverInv'
  BY CoverStep
<1>3. CoverInv => HeartbeatsCoverClaims
  BY DEF CoverInv, HeartbeatsCoverClaims, Sound, Excused, Covered, At
<1>4. QED
  BY <1>1, <1>2, <1>3, FaultProcesses, FaultInvariance, PTL DEF FaultSpec
==============================================================================
