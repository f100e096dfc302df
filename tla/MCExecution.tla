----------------------------- MODULE MCExecution -----------------------------
(* Model-checking instances of Execution. *)
EXTENDS Execution, TLC

CONSTANTS c1, c2

\* One job with time to run and one without.
Timeouts == c1 :> 1 @@ c2 :> 0
==============================================================================
