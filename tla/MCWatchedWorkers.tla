-------------------------- MODULE MCWatchedWorkers --------------------------
(* Model-checking instances of WatchedWorkers. *)
EXTENDS WatchedWorkers

CONSTANT q1

ServesAll == [w \in Worker |-> Queue]
==============================================================================
