------------------------------- MODULE Execution -------------------------------
(***************************************************************************)
(* The task registry (core/registry.py) and execute_job                    *)
(* (worker/execute.py), for the jobs of one process.  Nothing under        *)
(* worker/ calls execute_job yet: a call is what its tests make of it.     *)
(*                                                                         *)
(* A handler is external code: it may return, raise, hang, and let the     *)
(* CancelledError of wait_for pass or catch it and go on.  asyncio.timeout *)
(* (behind wait_for) cancels once and turns only that cancellation into a  *)
(* TimeoutError, however late the handler lets it pass: a handler that     *)
(* returns or raises anything else has its way.                            *)
(* Payloads and results are left out; time is in seconds.                  *)
(***************************************************************************)
EXTENDS Integers

CONSTANTS
  Call,        \* bound: the calls of execute_job
  JobType, Handler,
  Timeout,     \* Timeout[c]: timeout_seconds of the job of call c
  MaxNow,     \* bound: the clock stops here
  MayCatch,    \* whether handlers may catch the cancellation
  NULL

ASSUME ExecutionAssumption ==
  Timeout \in [Call -> Nat] /\ MayCatch \in BOOLEAN /\ MaxNow \in Nat

VARIABLES
  registry,  \* registry[t]: the handler of job type t, or NULL
  call,      \* call[c]: the progress of call c
  now        \* the clock

callVars == <<registry, call, now>>

\* "cancelling": the deadline was met and CancelledError thrown into the handler.
\* "overrun": the handler caught it.  ended: how the handler ended, a history.
Idle == [pc |-> "idle", job_type |-> NULL, handler |-> NULL, start |-> 0,
         ended |-> NULL, outcome |-> NULL]

CallAt(c, places) == call[c].pc \in places

\* The errors a handler can raise: the two that execute_job has an except clause
\* for, and any other.
HandlerError == {"UnknownJobTypeError", "TimeoutError", "Exception"}

Ending == HandlerError \cup {"returned", "CancelledError", "cancelled"}

Outcome == {"succeeded", "failed", "timed_out", "unknown_type"}

ASSUME NullAssumption == NULL \notin Handler \cup Ending \cup Outcome

------------------------------------------------------------------------------
(* The registry. *)

\* Mutant: the last registration counts.
Register_Replaces(t, h) ==
  /\ registry' = [registry EXCEPT ![t] = h]
  /\ UNCHANGED <<call, now>>

\* A second registration raises ValueError.
Register(t, h) ==
  /\ registry[t] = NULL
  /\ registry' = [registry EXCEPT ![t] = h]
  /\ UNCHANGED <<call, now>>

------------------------------------------------------------------------------
(* execute_job *)

Result(c, ended, outcome) ==
  call' = [call EXCEPT ![c] = [@ EXCEPT !.pc = "done", !.ended = ended, !.outcome = outcome]]

\* With no time to run, wait_for cancels the handler before its first step.
Execute(c, t) ==
  /\ CallAt(c, {"idle"})
  /\ now + Timeout[c] <= MaxNow
  /\ LET begun(pc, outcome) ==
           call' = [call EXCEPT ![c] = [pc |-> pc, job_type |-> t, handler |-> registry[t],
                                        start |-> now, ended |-> NULL, outcome |-> outcome]]
     IN  CASE registry[t] = NULL -> begun("done", "unknown_type")
           [] registry[t] # NULL /\ Timeout[c] = 0 -> begun("done", "timed_out")
           [] OTHER -> begun("running", NULL)
  /\ UNCHANGED <<registry, now>>

AtWork == {"running", "cancelling", "overrun"}

HandlerReturns(c) ==
  /\ CallAt(c, AtWork) /\ (CallAt(c, {"cancelling"}) => MayCatch)
  /\ Result(c, "returned", "succeeded")
  /\ UNCHANGED <<registry, now>>

\* The except clauses, in order.
OutcomeOf(e) ==
  CASE e = "UnknownJobTypeError" -> "unknown_type"
    [] e = "TimeoutError"        -> "timed_out"
    [] e = "Exception"           -> "failed"

\* A CancelledError of the handler's own looks like one from outside; one that
\* it raises after it was cut off is that of the deadline.
HandlerRaises(c) ==
  /\ CallAt(c, AtWork) /\ (CallAt(c, {"cancelling"}) => MayCatch)
  /\ \/ \E e \in HandlerError : Result(c, e, OutcomeOf(e))
     \/ CallAt(c, {"running"}) /\ Result(c, "cancelled", NULL)
     \/ CallAt(c, {"overrun"}) /\ Result(c, "CancelledError", "timed_out")
  /\ UNCHANGED <<registry, now>>

\* Mutant: the clock is never looked at.
DeadlineFires_Never(c) == FALSE

DeadlineFires(c) ==
  /\ CallAt(c, {"running"}) /\ now >= call[c].start + Timeout[c]
  /\ call' = [call EXCEPT ![c].pc = "cancelling"]
  /\ UNCHANGED <<registry, now>>

HandlerIsCancelled(c) ==
  /\ CallAt(c, {"cancelling"})
  /\ Result(c, "CancelledError", "timed_out")
  /\ UNCHANGED <<registry, now>>

HandlerCatches(c) ==
  /\ CallAt(c, {"cancelling"}) /\ MayCatch
  /\ call' = [call EXCEPT ![c].pc = "overrun"]
  /\ UNCHANGED <<registry, now>>

\* Mutant: an except clause for BaseException makes it a failure.
CallIsCancelled_Caught(c) ==
  /\ CallAt(c, AtWork)
  /\ Result(c, "cancelled", "failed")
  /\ UNCHANGED <<registry, now>>

\* Somebody cancels the task of execute_job: no except clause catches that.
CallIsCancelled(c) ==
  /\ CallAt(c, AtWork)
  /\ Result(c, "cancelled", NULL)
  /\ UNCHANGED <<registry, now>>

TimePasses ==
  /\ now < MaxNow
  /\ now' = now + 1
  /\ UNCHANGED <<registry, call>>

ExecutionInit ==
  /\ registry = [t \in JobType |-> NULL]
  /\ call = [c \in Call |-> Idle]
  /\ now = 0

ExecutionNext ==
  \/ \E t \in JobType, h \in Handler : Register(t, h)
  \/ \E c \in Call :
       \/ \E t \in JobType : Execute(c, t)
       \/ HandlerReturns(c) \/ HandlerRaises(c) \/ DeadlineFires(c)
       \/ HandlerIsCancelled(c) \/ HandlerCatches(c) \/ CallIsCancelled(c)
  \/ TimePasses

ExecutionSpec == ExecutionInit /\ [][ExecutionNext]_callVars

\* Time passes, the event loop fires its timers and throws the cancellation into
\* the handler.  Nothing is asked of a handler that was not cancelled.
Fairness ==
  /\ WF_callVars(TimePasses)
  /\ \A c \in Call : WF_callVars(DeadlineFires(c)) /\ WF_callVars(HandlerIsCancelled(c))

FairSpec == ExecutionSpec /\ Fairness

------------------------------------------------------------------------------
(* Properties. *)

\* A call at work runs the handler its job type has: modules that register late
\* neither take a job type over nor change what a job in progress runs.
ExecutionTypeOK ==
  /\ registry \in [JobType -> Handler \cup {NULL}] /\ now \in 0..MaxNow
  /\ call \in [Call -> [pc : {"idle", "done"} \cup AtWork, job_type : JobType \cup {NULL},
                        handler : Handler \cup {NULL}, start : Nat,
                        ended : Ending \cup {NULL}, outcome : Outcome \cup {NULL}]]
  /\ \A c \in Call : CallAt(c, AtWork) =>
       call[c].job_type \in JobType /\ call[c].handler = registry[call[c].job_type]

\* What callers persist is what happened: success is reported exactly when the
\* handler returned, be it after its deadline; no outcome at all exactly when a
\* cancellation that was not the deadline's ended the call; and a handler that
\* was cut off had used up its time.
OutcomeIsWhatHappened ==
  \A c \in Call : CallAt(c, {"done"}) =>
    /\ call[c].outcome = "succeeded" <=> call[c].ended = "returned"
    /\ call[c].outcome = NULL <=> call[c].ended = "cancelled"
    /\ call[c].ended = "CancelledError" => now >= call[c].start + Timeout[c]
    /\ call[c].ended = NULL => call[c].handler = NULL \/ Timeout[c] = 0

\* A handler that hangs is cut off at its deadline: no call of execute_job runs
\* for ever unless its handler caught the cancellation.
CallsEnd == \A c \in Call : CallAt(c, {"running"}) ~> CallAt(c, {"done", "overrun"})
==============================================================================
