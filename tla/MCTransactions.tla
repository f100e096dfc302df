--------------------------- MODULE MCTransactions ---------------------------
(* Model-checking instances of Transactions. *)
EXTENDS Transactions, TLC

CONSTANT q1

ServesAll == [w \in Worker |-> Queue]

Symmetry == Permutations(Job) \cup Permutations(Worker) \cup Permutations(Conn)
=============================================================================
