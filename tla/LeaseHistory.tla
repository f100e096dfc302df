----------------------------- MODULE LeaseHistory -----------------------------
(***************************************************************************)
(* A history of the leases, kept beside the tables for the properties that *)
(* need to know which leases have run out before.  now() is the start of a *)
(* transaction, so extend_lease may find a lease alive that later          *)
(* transactions have already seen run out, and revive it.                  *)
(***************************************************************************)
EXTENDS JobStore

VARIABLE lapsed   \* history: the running jobs whose lease ran out since their claim

LapsedInit == lapsed = {}

\* Beside every step: a job that stops running leaves the history.
Watch ==
  lapsed' = {j \in Job : /\ HasStatus(j, {"running"})'
                         /\ j \in lapsed \/ jobs'[j].lease_expires_at <= now'}

\* The leases of w that have never run out.
FreshLeases(w) == InFlight(w) \ lapsed
==============================================================================
