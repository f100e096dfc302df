---------------------------- MODULE WatchedWorkers ----------------------------
(* WorkerFaults with the history of the leases beside it. *)
EXTENDS WorkerFaults, LeaseHistory

watchedVars == <<faultVars, lapsed>>

WatchedInit == FaultInit /\ LapsedInit

WatchedNext == FaultNext /\ Watch

WatchedSpec == WatchedInit /\ [][WatchedNext]_watchedVars

FairWatchedSpec == WatchedSpec /\ FaultFairness

------------------------------------------------------------------------------
(* Properties. *)

\* A worker takes jobs for its free slots only, although it counts and claims
\* in two statements while heartbeats extend leases and transactions lag, and
\* although a restarted process inherits the leases of its name.  What it holds
\* beyond its slots are leases that ran out, left the count, and were revived
\* by a heartbeat whose now() is older.
OverrunIsRevived == \A w \in Worker : Cardinality(FreshLeases(w)) <= Concurrency
==============================================================================
