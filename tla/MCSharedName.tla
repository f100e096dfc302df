---------------------------- MODULE MCSharedName ----------------------------
(* Model-checking instances of SharedName. *)
EXTENDS SharedName, TLC

CONSTANT q1

ServesAll == [w \in Worker |-> Queue]

Symmetry == Permutations(Job)
==============================================================================
