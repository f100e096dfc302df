----------------------------- MODULE MCWorkerApp -----------------------------
(* Model-checking instances of WorkerApp. *)
EXTENDS WorkerApp, TLC

CONSTANT q1

ServesAll == [w \in Worker |-> Queue]

Symmetry == Permutations(Job) \cup Permutations(Worker)
==============================================================================
