------------------------------ MODULE MCJobViews ------------------------------
(* Model-checking instances of JobViews. *)
EXTENDS JobViews, TLC

ServesAll == [w \in Worker |-> Queue]
===============================================================================
