----------------------------- MODULE MCJobStore -----------------------------
(* Model-checking instances of JobStore. *)
EXTENDS JobStore, TLC

CONSTANT q1

ServesAll == [w \in Worker |-> Queue]

Symmetry == Permutations(Job) \cup Permutations(Worker)
==============================================================================
