------------------------------ MODULE MCJobsApi ------------------------------
(* Model-checking instances of JobsApi. *)
EXTENDS JobsApi, TLC

CONSTANTS q1, q2

ServesFirst == [w \in Worker |-> {q1}]

Symmetry == Permutations(Job) \cup Permutations(Client)
==============================================================================
