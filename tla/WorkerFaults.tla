----------------------------- MODULE WorkerFaults -----------------------------
(***************************************************************************)
(* WorkerApp over a database whose connection fails: any transaction of a  *)
(* worker may raise, before its COMMIT or after it, when only the reply is *)
(* lost.  What the process does next is where the exception is caught      *)
(* (worker/app.py): run_loop and register_worker leave it to main's        *)
(* finally, each part of the finally and each heartbeat task to an except  *)
(* clause of its own.                                                      *)
(***************************************************************************)
EXTENDS WorkerApp

CONSTANT MaxTroubles   \* bound: how many signals, crashes and failures happen in all

VARIABLE faults   \* history: <<w, block>> for every failure so far

faultVars == <<allVars, faults>>

ASSUME TroublesAssumption == MaxTroubles \in Nat

TroubleMayCome == stops + Cardinality(faults) < MaxTroubles

\* Bound: once per worker and try block, which is "run" (main's, around
\* register_worker and run_loop), "release" or "offline" (in its finally), or
\* "beat" (of a heartbeat task).
Breaks(w, block) ==
  /\ TroubleMayCome /\ <<w, block>> \notin faults
  /\ faults' = faults \cup {<<w, block>>}

------------------------------------------------------------------------------
(* The transactions, broken off. *)

RegisterBreaks(w) ==
  /\ At(w, "register") /\ Breaks(w, "run")
  /\ Goto(w, "finally")
  /\ workers' \in {workers, [workers EXCEPT ![w] = "running"]}
  /\ UNCHANGED <<vars, stops>>

\* Mutant: the exception leads past the release.
HeartbeatBreaks_SkipsRelease(w) ==
  /\ At(w, "loop") /\ ~proc[w].shutdown /\ Breaks(w, "run")
  /\ Goto(w, "offline")
  /\ UNCHANGED <<vars, workers, stops>>

\* The worker's own heartbeat, of which the tables of jobs show nothing.
HeartbeatBreaks(w) ==
  /\ At(w, "loop") /\ ~proc[w].shutdown /\ Breaks(w, "run")
  /\ Goto(w, "finally")
  /\ UNCHANGED <<vars, workers, stops>>

ReapBreaks(w) ==
  /\ At(w, "reap") /\ proc[w].reap_due /\ Breaks(w, "run")
  /\ Goto(w, "finally")
  /\ \/ UNCHANGED vars
     \/ \E S \in ReapBatches : \E delay \in [S -> 0..RetryMax] : ReapExpiredJobs(S, delay, now)
  /\ UNCHANGED <<workers, stops>>

\* Mutant: the loop catches the exception and goes on.
ClaimBreaks_Continues(w) ==
  LET t == proc[w].poll_time
  IN  /\ At(w, "count") \/ At(w, "claim")
      /\ Breaks(w, "run")
      /\ proc' = [proc EXCEPT ![w].pc = "sleep", ![w].poll_time = 0, ![w].remaining = 0]
      /\ \/ UNCHANGED vars
         \/ At(w, "claim") /\ \E S \in SUBSET Claimable(w, t) :
              Cardinality(S) <= proc[w].remaining /\ ClaimJobs(w, S, t)
      /\ UNCHANGED <<workers, stops>>

\* Counting and claiming are one transaction; nobody receives what it took.
ClaimBreaks(w) ==
  LET t == proc[w].poll_time
  IN  /\ At(w, "count") \/ At(w, "claim")
      /\ Breaks(w, "run")
      /\ proc' = [proc EXCEPT ![w].pc = "finally", ![w].poll_time = 0, ![w].remaining = 0]
      /\ \/ UNCHANGED vars
         \/ At(w, "claim") /\ \E S \in SUBSET Claimable(w, t) :
              Cardinality(S) <= proc[w].remaining /\ ClaimJobs(w, S, t)
      /\ UNCHANGED <<workers, stops>>

\* The Job objects go with the frame that the exception leaves.
Unwind(w) ==
  /\ At(w, "finally") /\ LoseSnapshots(MyClaim(w))
  /\ UNCHANGED <<appVars, faults>>

\* The jobs stay locked, or nobody learns that they were released.
ReleaseBreaks(w) ==
  /\ At(w, "release") /\ Breaks(w, "release")
  /\ Goto(w, "offline")
  /\ UNCHANGED vars \/ ReleaseInFlightJobs(w)
  /\ UNCHANGED <<workers, stops>>

OfflineBreaks(w) ==
  /\ At(w, "offline") /\ Breaks(w, "offline")
  /\ proc' = [proc EXCEPT ![w] = Idle("down", FALSE)]
  /\ workers' \in {workers, [workers EXCEPT ![w] = "offline"]}
  /\ UNCHANGED <<vars, stops>>

\* The task logs the exception and returns.
BeatBreaks(w, j) ==
  /\ proc[w].tasks[j] = "waiting" /\ Breaks(w, "beat")
  /\ proc' = [proc EXCEPT ![w].tasks[j] = "ending"]
  /\ UNCHANGED vars \/ \E t \in TxNow : ExtendLease(w, j, t)
  /\ UNCHANGED <<workers, stops>>

------------------------------------------------------------------------------
FaultInit == AppInit /\ faults = {}

\* The next step of main, which may fail; first the frames are unwound.
FaultyMainStep(w) ==
  \/ RegisterBreaks(w) \/ HeartbeatBreaks(w) \/ ReapBreaks(w) \/ ClaimBreaks(w)
  \/ ReleaseBreaks(w) \/ OfflineBreaks(w)
  \/ Unwind(w)
  \/ (At(w, "finally") => MyClaim(w) = {}) /\ MainStep(w) /\ UNCHANGED faults

FaultyTaskStep(w, j) == BeatBreaks(w, j) \/ (TaskStep(w, j) /\ UNCHANGED faults)

FaultNext ==
  \/ now <= LastRequest /\ ApiNext /\ UNCHANGED <<appVars, faults>>
  \/ \E w \in Worker :
       \/ FaultyMainStep(w)
       \/ ReapFallsDue(w) /\ UNCHANGED faults
       \/ TroubleMayCome /\ (Signal(w) \/ Crash(w)) /\ UNCHANGED faults
       \/ \E j \in Job : FaultyTaskStep(w, j)
  \/ ClockTicks /\ UNCHANGED faults

FaultSpec == FaultInit /\ [][FaultNext]_faultVars

\* As AppFairness, without the heartbeat tasks, which no property here waits for.
\* A step that fails is a step too.
FaultFairness ==
  \A w \in Worker :
    /\ WF_faultVars(FaultyMainStep(w))
    /\ WF_faultVars(ReapFallsDue(w) /\ UNCHANGED faults)

------------------------------------------------------------------------------
(* Properties.  ImplementsStore, LapsedJobsAreReaped and ShutdownCompletes   *)
(* of WorkerApp are checked of FaultSpec too.                                *)

\* Whichever transaction failed, and whether or not it took effect: a worker
\* that says it is offline holds no job, not even one whose claim it never
\* heard of, unless the release itself failed or a stuck job aborted it.
OfflineIsEmpty ==
  \A w \in Worker : workers[w] = "offline" =>
    \/ InFlight(w) = {}
    \/ \E j \in InFlight(w) : Stuck(j)
    \/ <<w, "release">> \in faults

\* As long as nobody was killed and no lease can have lapsed, a job in the hands
\* of a worker at work is without heartbeat only because its heartbeat task met
\* a failure itself, or a release that failed or aborted left the job to the
\* next process.
HeartbeatsCoverClaims ==
  \A w \in Worker, j \in Job :
    /\ At(w, "sleep") /\ HoldsLock(w, j) /\ proc[w].tasks[j] # "waiting"
    /\ stops = 0 /\ now < LeaseTTL
    => \/ <<w, "beat">> \in faults \/ <<w, "release">> \in faults
       \/ \E i \in InFlight(w) : Stuck(i)
==============================================================================
