---------------------------- MODULE JobLifecycle ----------------------------
(***************************************************************************)
(* What the queue promises about one job, with no table, lock, lease or    *)
(* clock: a job is run at most `budget' times before it is buried, an      *)
(* interrupted run is given back, a buried job can be re-armed, cancelled  *)
(* or purged, and a succeeded, cancelled or purged job never moves again.  *)
(* JobStore implements it (JobStore!ImplementsLifecycle).                  *)
(***************************************************************************)
EXTENDS Naturals

CONSTANTS
  Job,      \* identities
  Budgets   \* the run budgets a job may be submitted with, all positive

VARIABLE life   \* life[j]: where job j is, the runs it has used, its budget

Phase == {"unborn", "waiting", "backing_off", "running",
          "succeeded", "dead", "cancelled", "purged"}

State(phase, tries, budget) == [phase |-> phase, tries |-> tries, budget |-> budget]

Unborn == State("unborn", 0, 0)
Purged == State("purged", 0, 0)

------------------------------------------------------------------------------
(* The steps of one job, from its state a to its state b. *)

Submit(a, b)    == a = Unborn /\ \E n \in Budgets : b = State("waiting", 0, n)

Start(a, b)     == /\ a.phase \in {"waiting", "backing_off"}
                   /\ a.tries < a.budget
                   /\ b = State("running", a.tries + 1, a.budget)

Succeed(a, b)   == /\ a.phase = "running"
                   /\ b = State("succeeded", a.tries, a.budget)

BackOff(a, b)   == /\ a.phase = "running" /\ a.tries < a.budget
                   /\ b = State("backing_off", a.tries, a.budget)

Bury(a, b)      == /\ a.phase = "running" /\ a.tries = a.budget
                   /\ b = State("dead", a.tries, a.budget)

Interrupt(a, b) == /\ a.phase = "running"
                   /\ b = State("waiting", a.tries - 1, a.budget)

Rearm(a, b)     == a.phase = "dead" /\ b = State("waiting", 0, a.budget)

Cancel(a, b)    == /\ a.phase \in {"waiting", "dead"}
                   /\ b = State("cancelled", a.tries, a.budget)

Purge(a, b)     == a.phase = "dead" /\ b = Purged

Step(a, b) ==
  \/ Submit(a, b) \/ Start(a, b) \/ Succeed(a, b) \/ BackOff(a, b) \/ Bury(a, b)
  \/ Interrupt(a, b) \/ Rearm(a, b) \/ Cancel(a, b) \/ Purge(a, b)

------------------------------------------------------------------------------
Init == life = [j \in Job |-> Unborn]

\* One transaction may move several jobs (a claim, a release, a reap).
Next == \A j \in Job : life'[j] = life[j] \/ Step(life[j], life'[j])

Spec == Init /\ [][Next]_life
==============================================================================
