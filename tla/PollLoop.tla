------------------------------- MODULE PollLoop -------------------------------
(***************************************************************************)
(* The timing of run_loop (worker/app.py), for every setting of its four   *)
(* intervals that core/config.py accepts: when the reaper runs, how long   *)
(* the loop waits between polls, how soon it ends after a signal.  What    *)
(* the steps do to the tables is WorkerApp.                                *)
(*                                                                         *)
(* Time is discrete.  A transaction takes up to MaxTx ticks, the rest of   *)
(* the loop none, and a timer fires in time.  The clock is that of the     *)
(* event loop, which started before the worker (with the host, as a rule). *)
(***************************************************************************)
EXTENDS Integers

CONSTANTS
  Interval,   \* bound: the values somebody may write for an interval
  Factor,     \* bound: the values of poll_backoff_multiplier, in percent
  MaxTx,      \* the longest transaction
  Started,    \* bound: the readings of the clock when the worker may start
  MaxTime     \* bound: the clock stops here

ASSUME PollAssumption ==
  /\ Interval \subseteq Int /\ Factor \subseteq Int
  /\ MaxTx \in Nat /\ Started \subseteq Nat /\ MaxTime \in Nat

VARIABLES
  settings,   \* the intervals the worker was started with
  loop,       \* the locals of run_loop and where it is, since when
  signalled,  \* when the shutdown event was set, or -1
  clock

vars == <<settings, loop, signalled, clock>>

Smaller(a, b) == IF a <= b THEN a ELSE b
Larger(a, b)  == IF a >= b THEN a ELSE b

\* Mutant: the multiplier is not validated.
Accepted_AnyMultiplier(s) ==
  /\ s.poll_interval > 0 /\ s.poll_backoff_max > 0 /\ s.reaper_interval > 0

\* The validators.
Accepted(s) ==
  /\ s.poll_interval > 0 /\ s.poll_backoff_max > 0 /\ s.reaper_interval > 0
  /\ s.poll_backoff_multiplier >= 100

Settings ==
  {s \in [poll_interval : Interval, poll_backoff_max : Interval,
          reaper_interval : Interval, poll_backoff_multiplier : Factor] : Accepted(s)}

Place == {"test", "heartbeat", "reap", "claim", "sleep", "stopped"}

Shutdown == signalled # -1

At(place) == loop.pc = place

Goto(place) == [loop EXCEPT !.pc = place, !.entered = clock]

------------------------------------------------------------------------------
(* One round of the loop. *)

\* while not shutdown_event.is_set()
LoopTest ==
  /\ At("test")
  /\ loop' = Goto(IF Shutdown THEN "stopped" ELSE "heartbeat")
  /\ UNCHANGED <<settings, signalled, clock>>

\* Mutant: one tick late.
Due_Strict == clock - loop.last_reap_at > settings.reaper_interval

Due == clock - loop.last_reap_at >= settings.reaper_interval

Heartbeat ==
  /\ At("heartbeat")
  /\ loop' = Goto(IF Due THEN "reap" ELSE "claim")
  /\ UNCHANGED <<settings, signalled, clock>>

Reap ==
  /\ At("reap")
  /\ loop' = [Goto("claim") EXCEPT !.last_reap_at = clock]
  /\ UNCHANGED <<settings, signalled, clock>>

\* Mutant: the cap is forgotten.
LongerInterval_Uncapped ==
  (loop.current_interval * settings.poll_backoff_multiplier) \div 100

LongerInterval ==
  Smaller((loop.current_interval * settings.poll_backoff_multiplier) \div 100,
          settings.poll_backoff_max)

\* Counting and claiming; an empty poll lengthens the wait.
Claim ==
  /\ At("claim")
  /\ \E interval \in {settings.poll_interval, LongerInterval} :
       loop' = [Goto("sleep") EXCEPT !.current_interval = interval]
  /\ UNCHANGED <<settings, signalled, clock>>

\* Mutant: the loop sleeps instead of waiting for the event.
WaitIsOver_AfterInterval == clock - loop.entered >= loop.current_interval

\* wait_for(shutdown_event.wait(), timeout=current_interval)
WaitIsOver == Shutdown \/ clock - loop.entered >= loop.current_interval

Wake ==
  /\ At("sleep") /\ WaitIsOver
  /\ loop' = Goto("test")
  /\ UNCHANGED <<settings, signalled, clock>>

Signal ==
  /\ ~Shutdown /\ ~At("stopped")
  /\ signalled' = clock
  /\ UNCHANGED <<settings, loop, clock>>

MayTakeTime ==
  \/ loop.pc \in {"heartbeat", "reap", "claim"} /\ clock - loop.entered < MaxTx
  \/ At("sleep") /\ ~WaitIsOver

Tick ==
  /\ clock < MaxTime /\ MayTakeTime
  /\ clock' = clock + 1
  /\ UNCHANGED <<settings, loop, signalled>>

Init ==
  /\ settings \in Settings
  /\ clock \in Started
  /\ loop = [pc |-> "test", entered |-> clock, started |-> clock, last_reap_at |-> 0,
             current_interval |-> settings.poll_interval]
  /\ signalled = -1

Next == LoopTest \/ Heartbeat \/ Reap \/ Claim \/ Wake \/ Signal \/ Tick

Spec == Init /\ [][Next]_vars

------------------------------------------------------------------------------
(* Properties. *)

PollTypeOK ==
  /\ settings \in Settings
  /\ loop \in [pc : Place, entered : Nat, started : Nat, last_reap_at : Nat,
               current_interval : Nat \ {0}]
  /\ signalled \in Nat \cup {-1} /\ clock \in Nat

LongestWait == Larger(settings.poll_interval, settings.poll_backoff_max)

\* However long the queues stay empty, the loop neither spins nor waits longer
\* than its settings say: only a cap below poll_interval shortens the wait, as
\* .env.example documents.
WaitsStayInBounds ==
  /\ loop.current_interval <= LongestWait
  /\ loop.current_interval >= Smaller(settings.poll_interval, settings.poll_backoff_max)

\* An expired lease waits for a worker at work no longer than the reaper's
\* interval, one wait of the loop and three transactions, the backoff of an idle
\* worker included: the fairness of ReapFallsDue in WorkerApp.
ReapsComeInTime ==
  ~At("stopped") =>
    clock - Larger(loop.last_reap_at, loop.started)
      < settings.reaper_interval + LongestWait + 3 * MaxTx

\* A signal ends the loop within the transactions of the round it arrives in,
\* however long the worker would have waited.
StopsPromptly ==
  Shutdown /\ ~At("stopped") => clock - signalled <= 3 * MaxTx
==============================================================================
