------------------------------ MODULE SharedName ------------------------------
(***************************************************************************)
(* Two worker processes that were started with the same --name, Here and   *)
(* There: each is WorkerApp with memory of its own, over the same tables.  *)
(* worker_name is all the tables know of a process, so each counts,        *)
(* extends and releases the jobs of the other (worker/claim.py), and both  *)
(* write one row of workers.  Transactions do not overlap here, but other  *)
(* things do: a count and its claim are two steps.                         *)
(***************************************************************************)
EXTENDS Integers, FiniteSets

CONSTANTS
  Job, Worker, Queue, Key, Serves, MaxRetries, RunAt, LeaseTTL, ReapLimit, MaxTime, MaxTxLag,
  RetryBase, RetryMultiplier, RetryMax, JitterPercent, NULL, Concurrency, MaxStops,
  LastRequest

VARIABLES
  jobs, issued, job_attempts, now, workers, stops,   \* as in WorkerApp
  hereProc, hereClaims, thereProc, thereClaims,      \* proc and snapshots of either host
  lapsed                                             \* history: as in LeaseHistory

Here  == INSTANCE WorkerApp WITH proc <- hereProc, snapshots <- hereClaims
There == INSTANCE WorkerApp WITH proc <- thereProc, snapshots <- thereClaims

Leases == INSTANCE LeaseHistory WITH snapshots <- hereClaims

ASSUME SharedAssumption ==
  /\ Here!BackoffAssumption /\ Here!StoreAssumption
  /\ Here!NullAssumption /\ Here!AppAssumption

here   == <<hereProc, hereClaims>>
there  == <<thereProc, thereClaims>>
tables == <<jobs, issued, job_attempts, now, workers, stops>>

HereMain(w)  == Here!MainStep(w) /\ UNCHANGED there
ThereMain(w) == There!MainStep(w) /\ UNCHANGED here

HereTask(w, j)  == Here!TaskStep(w, j) /\ UNCHANGED there
ThereTask(w, j) == There!TaskStep(w, j) /\ UNCHANGED here

HereReapDue(w)  == Here!ReapFallsDue(w) /\ UNCHANGED there
ThereReapDue(w) == There!ReapFallsDue(w) /\ UNCHANGED here

SharedInit == Here!AppInit /\ There!AppInit

SharedNext ==
  \/ now <= LastRequest /\ Here!ApiNext /\ UNCHANGED <<hereProc, there, workers, stops>>
  \/ \E w \in Worker :
       \/ HereMain(w) \/ ThereMain(w) \/ HereReapDue(w) \/ ThereReapDue(w)
       \/ (Here!Signal(w) \/ Here!Crash(w)) /\ UNCHANGED there
       \/ (There!Signal(w) \/ There!Crash(w)) /\ UNCHANGED here
       \/ \E j \in Job : HereTask(w, j) \/ ThereTask(w, j)
  \/ Here!ClockTicks /\ There!ClockTicks

SharedSpec == SharedInit /\ [][SharedNext]_<<tables, here, there>>

\* The same, with the history of the leases beside it.
WatchedInit == SharedInit /\ Leases!LapsedInit

WatchedSpec == WatchedInit /\ [][SharedNext /\ Leases!Watch]_<<tables, here, there, lapsed>>

------------------------------------------------------------------------------
(* Properties. *)

\* Counting and claiming race, so both processes may fill up on one count; but
\* neither goes on from there: but for the leases that ran out and were revived,
\* what they hold and what both are about to claim fits the slots of both.
SlotsAddUp ==
  \A w \in Worker :
    Cardinality(Leases!FreshLeases(w)) + Here!Pending(w) + There!Pending(w) <= 2 * Concurrency

\* One may stop, give back what the other has just claimed, start again and
\* claim the same run: then its number is on record, and no outcome of either
\* can be recorded.  The same holds of a claim that lost its job.
DoubleClaimsAreFenced ==
  /\ \A s \in hereClaims \cap thereClaims : Here!AttemptRecorded(s.job, s.attempts)
  /\ \A s \in hereClaims \cup thereClaims : Here!Exists(s.job) =>
       \/ Here!AttemptRecorded(s.job, s.attempts)
       \/ Here!HoldsLock(s.worker, s.job) /\ jobs[s.job].attempts = s.attempts
==============================================================================
