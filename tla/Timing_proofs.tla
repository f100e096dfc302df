----------------------------- MODULE Timing_proofs -----------------------------
(***************************************************************************)
(* What bounds the time a worker takes: the loop's intervals (PollLoop)    *)
(* and the deadline of a job (Execution).                                  *)
(***************************************************************************)
EXTENDS PollLoop, Execution, TLAPS

------------------------------------------------------------------------------
(***************************************************************************)
(* PollLoop: the bounds on the loop's waits, its reaps and its end hold    *)
(* for all settings that the validators accept, however long transactions  *)
(* take.  PlaceBounds is the strengthening: it says, for each place of the *)
(* loop, how far behind the last reap and the signal may be on arrival.    *)
(***************************************************************************)

SinceReap(t) == t - Larger(loop.last_reap_at, loop.started)

SinceSignal(t) == t - signalled

\* How long ago the last reap was when the loop came to where it is.
ReapBounds ==
  LET known == settings.reaper_interval - 1
  IN  /\ loop.pc \in {"test", "heartbeat"} =>
           SinceReap(loop.entered) <= known + LongestWait + MaxTx
      /\ At("reap")  => SinceReap(loop.entered) <= known + LongestWait + 2 * MaxTx
      /\ At("claim") => SinceReap(loop.entered) <= known
      /\ At("sleep") => SinceReap(loop.entered) <= known + MaxTx

\* A signal comes after the loop passed its test, or the loop ends.
SignalBounds ==
  Shutdown =>
    /\ At("heartbeat") => SinceSignal(loop.entered) <= 0
    /\ At("reap")      => SinceSignal(loop.entered) <= MaxTx
    /\ At("claim")     => SinceSignal(loop.entered) <= 2 * MaxTx
    /\ loop.pc \in {"sleep", "test"} => SinceSignal(clock) <= 3 * MaxTx

\* The time spent where the loop is.
StayBounds ==
  /\ loop.last_reap_at <= loop.entered /\ loop.started <= loop.entered
  /\ loop.entered <= clock
  /\ loop.pc \in {"heartbeat", "reap", "claim"} => clock - loop.entered <= MaxTx
  /\ At("sleep") => clock - loop.entered <= loop.current_interval
  /\ At("test")  => clock = loop.entered

PlaceBounds ==
  PollTypeOK /\ WaitsStayInBounds /\ StayBounds /\ ReapBounds /\ SignalBounds

------------------------------------------------------------------------------
\* What the validators accept.
LEMMA SettingsAreNumbers ==
  ASSUME NEW s \in Settings
  PROVE  /\ s.poll_interval \in Nat \ {0} /\ s.poll_backoff_max \in Nat \ {0}
         /\ s.reaper_interval \in Nat \ {0}
         /\ s.poll_backoff_multiplier \in Int /\ s.poll_backoff_multiplier >= 100
<1>1. s \in [poll_interval : Interval, poll_backoff_max : Interval,
             reaper_interval : Interval, poll_backoff_multiplier : Factor]
  BY DEF Settings
<1>2. Accepted(s)
  BY DEF Settings
<1>3. /\ s.poll_interval \in Interval /\ s.poll_backoff_max \in Interval
      /\ s.reaper_interval \in Interval /\ s.poll_backoff_multiplier \in Factor
  BY <1>1
<1>4. /\ s.poll_interval \in Int /\ s.poll_backoff_max \in Int
      /\ s.reaper_interval \in Int /\ s.poll_backoff_multiplier \in Int
  BY <1>3, PollAssumption
<1> QED
  BY <1>2, <1>4 DEF Accepted

\* A multiplier of at least one never shortens the wait.
LEMMA MultiplierGrows ==
  ASSUME NEW c \in Nat, NEW f \in Int, f >= 100
  PROVE  (c * f) \div 100 \in Int /\ (c * f) \div 100 >= c
<1>1. c * f >= c * 100
  OBVIOUS
<1>2. c * f \in Int
  OBVIOUS
<1> QED
  BY <1>1, <1>2

\* An empty poll keeps the wait within the bounds.
LEMMA LongerIntervalIsBounded ==
  ASSUME PollTypeOK, WaitsStayInBounds
  PROVE  /\ LongerInterval \in Nat \ {0}
         /\ LongerInterval <= LongestWait
         /\ LongerInterval >= Smaller(settings.poll_interval, settings.poll_backoff_max)
<1> DEFINE c == loop.current_interval
           f == settings.poll_backoff_multiplier
           p == settings.poll_interval
           m == settings.poll_backoff_max
           g == (c * f) \div 100
<1>1. c \in Nat /\ c > 0
  BY DEF PollTypeOK
<1>2. f \in Int /\ p \in Int /\ m \in Int /\ f >= 100 /\ p > 0 /\ m > 0
  BY SettingsAreNumbers DEF PollTypeOK
<1>3. g \in Int /\ g >= c
  BY <1>1, <1>2, MultiplierGrows
<1>4. c >= Smaller(p, m)
  BY DEF WaitsStayInBounds
<1>5. LongerInterval = Smaller(g, m)
  BY DEF LongerInterval
<1>6. LongestWait = Larger(p, m)
  BY DEF LongestWait
<1> HIDE DEF c, f, p, m, g
<1>7. /\ Smaller(g, m) \in Nat \ {0}
      /\ Smaller(g, m) <= Larger(p, m)
      /\ Smaller(g, m) >= Smaller(p, m)
  BY <1>1, <1>2, <1>3, <1>4 DEF Smaller, Larger
<1> QED
  BY <1>5, <1>6, <1>7 DEF p, m

------------------------------------------------------------------------------
\* A worker starts within the bounds.
LEMMA StartsInBounds == Init => PlaceBounds
<1> SUFFICES ASSUME Init PROVE PlaceBounds
  OBVIOUS
<1>1. settings \in Settings /\ clock \in Nat /\ signalled = -1
  BY PollAssumption DEF Init
<1>2. /\ settings.poll_interval \in Nat \ {0}
      /\ settings.poll_backoff_max \in Nat \ {0}
      /\ settings.reaper_interval \in Nat \ {0}
  BY <1>1, SettingsAreNumbers
<1>3. PollTypeOK
  BY <1>1, <1>2 DEF Init, PollTypeOK, Place
<1>4. WaitsStayInBounds
  BY <1>2 DEF Init, WaitsStayInBounds, LongestWait, Smaller, Larger
<1>5. StayBounds
  BY <1>1 DEF Init, StayBounds, At
<1>6. ReapBounds
  <2>1. SinceReap(loop.entered) = 0
    BY <1>1 DEF Init, SinceReap, Larger
  <2>2. LongestWait \in Nat
    BY <1>2 DEF LongestWait, Larger
  <2>3. QED
    BY <1>2, <2>1, <2>2, PollAssumption DEF Init, ReapBounds, At
<1>7. SignalBounds
  BY <1>1 DEF SignalBounds, Shutdown
<1> QED
  BY <1>3, <1>4, <1>5, <1>6, <1>7 DEF PlaceBounds

\* The numbers that the bounds are made of.
LEMMA BoundsAreNumbers ==
  ASSUME PollTypeOK
  PROVE  /\ LongestWait \in Nat
         /\ settings.reaper_interval \in Nat \ {0}
         /\ settings.poll_interval \in Nat \ {0}
         /\ MaxTx \in Nat /\ clock \in Nat /\ signalled \in Int
         /\ loop.entered \in Nat /\ loop.started \in Nat
         /\ loop.last_reap_at \in Nat /\ loop.current_interval \in Nat \ {0}
BY PollAssumption, SettingsAreNumbers DEF PollTypeOK, LongestWait, Larger

\* Every step of the loop keeps to the bounds.
LEMMA StaysInBounds ==
  ASSUME PlaceBounds, [Next]_vars
  PROVE  PlaceBounds'
<1> USE PollAssumption, BoundsAreNumbers
<1>1. PollTypeOK /\ WaitsStayInBounds /\ StayBounds /\ ReapBounds /\ SignalBounds
  BY DEF PlaceBounds
<1>2. CASE LoopTest
  <2>1. /\ UNCHANGED <<settings, signalled, clock>>
        /\ loop' = [loop EXCEPT !.pc = IF Shutdown THEN "stopped" ELSE "heartbeat",
                                !.entered = clock]
        /\ At("test")
    BY <1>2 DEF LoopTest, Goto
  <2>2. PollTypeOK' /\ WaitsStayInBounds'
    BY <1>1, <2>1 DEF PollTypeOK, Place, WaitsStayInBounds, LongestWait
  <2>3. StayBounds'
    BY <1>1, <2>1 DEF StayBounds, PollTypeOK, At
  <2>4. ReapBounds'
    BY <1>1, <2>1 DEF ReapBounds, StayBounds, PollTypeOK, At, SinceReap, Larger, LongestWait
  <2>5. SignalBounds'
    BY <1>1, <2>1 DEF SignalBounds, Shutdown, PollTypeOK, At, SinceSignal
  <2> QED
    BY <2>2, <2>3, <2>4, <2>5 DEF PlaceBounds
<1>3. CASE Heartbeat
  <2>1. /\ UNCHANGED <<settings, signalled, clock>>
        /\ loop' = [loop EXCEPT !.pc = IF Due THEN "reap" ELSE "claim", !.entered = clock]
        /\ At("heartbeat")
    BY <1>3 DEF Heartbeat, Goto
  <2>2. PollTypeOK' /\ WaitsStayInBounds'
    BY <1>1, <2>1 DEF PollTypeOK, Place, WaitsStayInBounds, LongestWait
  <2>3. StayBounds'
    BY <1>1, <2>1 DEF StayBounds, PollTypeOK, At
  <2>4. ReapBounds'
    BY <1>1, <2>1
    DEF ReapBounds, StayBounds, PollTypeOK, At, SinceReap, Larger, LongestWait, Due
  <2>5. SignalBounds'
    BY <1>1, <2>1 DEF SignalBounds, StayBounds, Shutdown, PollTypeOK, At, SinceSignal
  <2> QED
    BY <2>2, <2>3, <2>4, <2>5 DEF PlaceBounds
<1>4. CASE Reap
  <2>1. /\ UNCHANGED <<settings, signalled, clock>>
        /\ loop' = [loop EXCEPT !.pc = "claim", !.entered = clock, !.last_reap_at = clock]
        /\ At("reap")
    BY <1>4 DEF Reap, Goto
  <2>2. PollTypeOK' /\ WaitsStayInBounds'
    BY <1>1, <2>1 DEF PollTypeOK, Place, WaitsStayInBounds, LongestWait
  <2>3. StayBounds'
    BY <1>1, <2>1 DEF StayBounds, PollTypeOK, At
  <2>4. ReapBounds'
    BY <1>1, <2>1 DEF ReapBounds, StayBounds, PollTypeOK, At, SinceReap, Larger, LongestWait
  <2>5. SignalBounds'
    BY <1>1, <2>1 DEF SignalBounds, StayBounds, Shutdown, PollTypeOK, At, SinceSignal
  <2> QED
    BY <2>2, <2>3, <2>4, <2>5 DEF PlaceBounds
<1>5. CASE Claim
  <2>1. PICK interval \in {settings.poll_interval, LongerInterval} :
          loop' = [loop EXCEPT !.pc = "sleep", !.entered = clock,
                               !.current_interval = interval]
    BY <1>5 DEF Claim, Goto
  <2>2. UNCHANGED <<settings, signalled, clock>> /\ At("claim")
    BY <1>5 DEF Claim
  <2>3. /\ interval \in Nat \ {0} /\ interval <= LongestWait
        /\ interval >= Smaller(settings.poll_interval, settings.poll_backoff_max)
    <3>1. CASE interval = settings.poll_interval
      BY <1>1, <3>1 DEF PollTypeOK, Settings, Accepted, LongestWait, Smaller, Larger
    <3>2. CASE interval = LongerInterval
      BY <1>1, <3>2, LongerIntervalIsBounded
    <3> QED
      BY <3>1, <3>2
  <2>4. PollTypeOK'
    BY <1>1, <2>1, <2>2, <2>3 DEF PollTypeOK, Place
  <2>5. WaitsStayInBounds'
    BY <1>1, <2>1, <2>2, <2>3 DEF PollTypeOK, WaitsStayInBounds, LongestWait
  <2>6. StayBounds'
    BY <1>1, <2>1, <2>2, <2>3 DEF StayBounds, PollTypeOK, At
  <2>7. ReapBounds'
    BY <1>1, <2>1, <2>2
    DEF ReapBounds, StayBounds, PollTypeOK, At, SinceReap, Larger, LongestWait
  <2>8. SignalBounds'
    BY <1>1, <2>1, <2>2 DEF SignalBounds, StayBounds, Shutdown, PollTypeOK, At, SinceSignal
  <2> QED
    BY <2>4, <2>5, <2>6, <2>7, <2>8 DEF PlaceBounds
<1>6. CASE Wake
  <2>1. /\ UNCHANGED <<settings, signalled, clock>>
        /\ loop' = [loop EXCEPT !.pc = "test", !.entered = clock]
        /\ At("sleep")
    BY <1>6 DEF Wake, Goto
  <2>2. PollTypeOK' /\ WaitsStayInBounds'
    BY <1>1, <2>1 DEF PollTypeOK, Place, WaitsStayInBounds, LongestWait
  <2>3. StayBounds'
    BY <1>1, <2>1 DEF StayBounds, PollTypeOK, At
  <2>4. loop.current_interval <= LongestWait
    BY <1>1 DEF WaitsStayInBounds
  <2>5. ReapBounds'
    BY <1>1, <2>1, <2>4
    DEF ReapBounds, StayBounds, PollTypeOK, At, SinceReap, Larger, LongestWait
  <2>6. SignalBounds'
    BY <1>1, <2>1 DEF SignalBounds, Shutdown, PollTypeOK, At, SinceSignal
  <2> QED
    BY <2>2, <2>3, <2>5, <2>6 DEF PlaceBounds
<1>7. CASE Signal
  <2>1. UNCHANGED <<settings, loop, clock>> /\ signalled' = clock /\ ~At("stopped")
    BY <1>7 DEF Signal
  <2>2. PollTypeOK' /\ WaitsStayInBounds'
    BY <1>1, <2>1 DEF PollTypeOK, WaitsStayInBounds, LongestWait
  <2>3. StayBounds' /\ ReapBounds'
    BY <1>1, <2>1 DEF StayBounds, ReapBounds, At, SinceReap, LongestWait
  <2>4. SignalBounds'
    BY <1>1, <2>1 DEF SignalBounds, StayBounds, At, SinceSignal
  <2> QED
    BY <2>2, <2>3, <2>4 DEF PlaceBounds
<1>8. CASE Tick
  <2>1. UNCHANGED <<settings, loop, signalled>> /\ clock' = clock + 1 /\ MayTakeTime
    BY <1>8 DEF Tick
  <2>2. PollTypeOK' /\ WaitsStayInBounds'
    BY <1>1, <2>1 DEF PollTypeOK, WaitsStayInBounds, LongestWait
  <2>3. StayBounds'
    BY <1>1, <2>1 DEF StayBounds, At, MayTakeTime, WaitIsOver
  <2>4. ReapBounds'
    BY <1>1, <2>1 DEF ReapBounds, At, SinceReap, LongestWait
  <2>5. SignalBounds'
    BY <1>1, <2>1 DEF SignalBounds, At, SinceSignal, Shutdown, MayTakeTime, WaitIsOver
  <2> QED
    BY <2>2, <2>3, <2>4, <2>5 DEF PlaceBounds
<1>9. CASE UNCHANGED vars
  BY <1>1, <1>9
  DEF vars, PlaceBounds, PollTypeOK, WaitsStayInBounds, LongestWait, StayBounds, ReapBounds,
      SignalBounds, At, SinceReap, SinceSignal, Shutdown
<1> QED
  BY <1>2, <1>3, <1>4, <1>5, <1>6, <1>7, <1>8, <1>9 DEF Next

\* The bounds hold in every behaviour.
THEOREM BoundsHold == Spec => []PlaceBounds
<1>1. Init => PlaceBounds
  BY StartsInBounds
<1>2. PlaceBounds /\ [Next]_vars => PlaceBounds'
  BY StaysInBounds
<1> QED
  BY <1>1, <1>2, PTL DEF Spec

\* Every wait of run_loop is between poll_interval and poll_backoff_max.
THEOREM WaitsAreBounded == Spec => []WaitsStayInBounds
<1>1. PlaceBounds => WaitsStayInBounds
  BY DEF PlaceBounds
<1> QED
  BY <1>1, BoundsHold, PTL

\* The settings stay accepted and the locals of run_loop keep their types.
THEOREM PollTypeCorrectness == Spec => []PollTypeOK
<1>1. PlaceBounds => PollTypeOK
  BY DEF PlaceBounds
<1> QED
  BY <1>1, BoundsHold, PTL

\* The reaper of a worker at work is never late by more than one round.
THEOREM ReaperIsInTime == Spec => []ReapsComeInTime
<1>1. PlaceBounds => ReapsComeInTime
  <2> SUFFICES ASSUME PlaceBounds, ~At("stopped")
               PROVE  SinceReap(clock) < settings.reaper_interval + LongestWait + 3 * MaxTx
    BY DEF ReapsComeInTime, SinceReap
  <2>1. PollTypeOK /\ WaitsStayInBounds /\ StayBounds /\ ReapBounds
    BY DEF PlaceBounds
  <2>2. loop.pc \in {"test", "heartbeat", "reap", "claim", "sleep"}
    BY <2>1 DEF PollTypeOK, Place, At
  <2>3. SinceReap(clock) = SinceReap(loop.entered) + (clock - loop.entered)
    BY <2>1, BoundsAreNumbers DEF SinceReap, Larger
  <2>4. SinceReap(loop.entered) \in Int
    BY <2>1, BoundsAreNumbers DEF SinceReap, Larger
  <2> QED
    BY <2>1, <2>2, <2>3, <2>4, BoundsAreNumbers DEF StayBounds, ReapBounds, WaitsStayInBounds, At
<1> QED
  BY <1>1, BoundsHold, PTL

\* A signalled loop ends within the transactions of its round.
THEOREM LoopStopsPromptly == Spec => []StopsPromptly
<1>1. PlaceBounds => StopsPromptly
  <2> SUFFICES ASSUME PlaceBounds, Shutdown, ~At("stopped")
               PROVE  SinceSignal(clock) <= 3 * MaxTx
    BY DEF StopsPromptly, SinceSignal
  <2>1. PollTypeOK /\ StayBounds /\ SignalBounds
    BY DEF PlaceBounds
  <2>2. loop.pc \in {"test", "heartbeat", "reap", "claim", "sleep"}
    BY <2>1 DEF PollTypeOK, Place, At
  <2>3. /\ SinceSignal(clock) = SinceSignal(loop.entered) + (clock - loop.entered)
        /\ SinceSignal(loop.entered) \in Int
    BY <2>1, BoundsAreNumbers DEF SinceSignal
  <2> QED
    BY <2>1, <2>2, <2>3, BoundsAreNumbers DEF StayBounds, SignalBounds, At
<1> QED
  BY <1>1, BoundsHold, PTL

------------------------------------------------------------------------------
(***************************************************************************)
(* Execution: what execute_job reports is what happened, for any number of *)
(* calls and any handlers, those that catch their cancellation included.   *)
(***************************************************************************)

\* The deadline was met when the cancellation was thrown in, and only an ended
\* call has an end and an outcome.
ExecutionInv ==
  /\ ExecutionTypeOK
  /\ OutcomeIsWhatHappened
  /\ \A c \in Call :
       /\ CallAt(c, {"cancelling", "overrun"}) => now >= call[c].start + Timeout[c]
       /\ CallAt(c, AtWork) => call[c].handler # NULL

\* How a call stands in the invariant, whatever its place.
Standing(c) ==
  /\ CallAt(c, AtWork) => /\ call[c].job_type \in JobType
                      /\ call[c].handler = registry[call[c].job_type]
                      /\ call[c].handler # NULL
  /\ CallAt(c, {"cancelling", "overrun"}) => now >= call[c].start + Timeout[c]
  /\ CallAt(c, {"done"}) =>
       /\ call[c].outcome = "succeeded" <=> call[c].ended = "returned"
       /\ call[c].outcome = NULL <=> call[c].ended = "cancelled"
       /\ call[c].ended = "CancelledError" => now >= call[c].start + Timeout[c]
       /\ call[c].ended = NULL => call[c].handler = NULL \/ Timeout[c] = 0

Record == [pc : {"idle", "done"} \cup AtWork, job_type : JobType \cup {NULL},
           handler : Handler \cup {NULL}, start : Nat,
           ended : Ending \cup {NULL}, outcome : Outcome \cup {NULL}]

Typed ==
  /\ registry \in [JobType -> Handler \cup {NULL}] /\ now \in 0..MaxNow
  /\ call \in [Call -> Record]

\* The invariant, call by call.
LEMMA InvByCall == ExecutionInv <=> Typed /\ \A c \in Call : Standing(c)
BY DEF ExecutionInv, ExecutionTypeOK, OutcomeIsWhatHappened, Typed, Record, Standing

\* A step of one call leaves the other calls standing.
LEMMA OneCallMoves ==
  ASSUME Typed, \A c \in Call : Standing(c), NEW c \in Call, NEW r \in Record,
         call' = [call EXCEPT ![c] = r], UNCHANGED <<registry, now>>, Standing(c)'
  PROVE  Typed' /\ \A d \in Call : Standing(d)'
<1>1. Typed'
  BY DEF Typed
<1>2. ASSUME NEW d \in Call, d # c PROVE Standing(d)'
  <2>1. call'[d] = call[d]
    BY <1>2 DEF Typed
  <2> QED
    BY <2>1 DEF Standing, CallAt
<1> QED
  BY <1>1, <1>2

\* The end of a call, as Result writes it.
LEMMA CallEnds ==
  ASSUME Typed, \A c \in Call : Standing(c), UNCHANGED <<registry, now>>,
         NEW c \in Call, NEW e \in Ending, NEW o \in Outcome \cup {NULL}, Result(c, e, o),
         o = "succeeded" <=> e = "returned", o = NULL <=> e = "cancelled",
         e = "CancelledError" => CallAt(c, {"cancelling", "overrun"})
  PROVE  Typed' /\ \A d \in Call : Standing(d)'
<1> DEFINE r == [call[c] EXCEPT !.pc = "done", !.ended = e, !.outcome = o]
<1>1. call[c] \in Record
  BY DEF Typed
<1>2. r \in Record
  BY <1>1 DEF Record
<1>3. call' = [call EXCEPT ![c] = r]
  BY DEF Result
<1>4. call'[c] = r
  BY <1>3 DEF Typed
<1>5. r.pc = "done" /\ r.ended = e /\ r.outcome = o /\ r.start = call[c].start
  BY <1>1 DEF Record
<1>6. e # NULL
  BY NullAssumption
<1> HIDE DEF r
<1>7. Standing(c)'
  BY <1>4, <1>5, <1>6 DEF Standing, CallAt, AtWork
<1> QED
  BY <1>2, <1>3, <1>7, OneCallMoves

\* A cancellation that is not the deadline's leaves no outcome.
LEMMA CallIsLeft ==
  ASSUME Typed, \A c \in Call : Standing(c), UNCHANGED <<registry, now>>,
         NEW c \in Call, Result(c, "cancelled", NULL)
  PROVE  Typed' /\ \A d \in Call : Standing(d)'
<1>1. "succeeded" # NULL
  BY NullAssumption DEF Outcome
<1> QED
  BY <1>1, CallEnds DEF Ending

\* The deadline's own cancellation times the call out, passed on at once or later.
LEMMA CutOffEnds ==
  ASSUME Typed, \A c \in Call : Standing(c), UNCHANGED <<registry, now>>,
         NEW c \in Call, CallAt(c, {"cancelling", "overrun"}),
         Result(c, "CancelledError", "timed_out")
  PROVE  Typed' /\ \A d \in Call : Standing(d)'
<1>1. "timed_out" # NULL
  BY NullAssumption DEF Outcome
<1> QED
  BY <1>1, CallEnds DEF Ending, Outcome

\* A call cut off at its deadline keeps its handler.
LEMMA CallGoesOn ==
  ASSUME Typed, \A c \in Call : Standing(c), UNCHANGED <<registry, now>>,
         NEW c \in Call, NEW place \in {"cancelling", "overrun"}, CallAt(c, AtWork),
         call' = [call EXCEPT ![c].pc = place], now >= call[c].start + Timeout[c]
  PROVE  Typed' /\ \A d \in Call : Standing(d)'
<1> DEFINE r == [call[c] EXCEPT !.pc = place]
<1>1. call[c] \in Record
  BY DEF Typed
<1>2. r \in Record
  BY <1>1 DEF Record, AtWork
<1>3. call' = [call EXCEPT ![c] = r]
  OBVIOUS
<1>4. call'[c] = r
  BY <1>3 DEF Typed
<1>5. /\ r.pc = place /\ r.start = call[c].start
      /\ r.job_type = call[c].job_type /\ r.handler = call[c].handler
  BY <1>1 DEF Record
<1> HIDE DEF r
<1>6. Standing(c)'
  BY <1>4, <1>5 DEF Standing, CallAt, AtWork
<1> QED
  BY <1>2, <1>3, <1>6, OneCallMoves

\* execute_job begins: with an unknown type or no time it ends at once.
LEMMA CallBegins ==
  ASSUME Typed, \A c \in Call : Standing(c), NEW c \in Call, NEW t \in JobType, Execute(c, t)
  PROVE  Typed' /\ \A d \in Call : Standing(d)'
<1> DEFINE begun(pc, o) == [pc |-> pc, job_type |-> t, handler |-> registry[t],
                            start |-> now, ended |-> NULL, outcome |-> o]
<1>1. UNCHANGED <<registry, now>>
  BY DEF Execute
<1>2. /\ registry[t] \in Handler \cup {NULL} /\ now \in Nat
      /\ \A r : call' = [call EXCEPT ![c] = r] => call'[c] = r
  BY DEF Typed
<1>3. NULL # "unknown_type" /\ NULL # "timed_out"
  BY NullAssumption DEF Outcome
<1>4. NULL # "returned" /\ NULL # "cancelled" /\ NULL # "CancelledError"
  BY NullAssumption DEF Ending
<1>5. CASE registry[t] = NULL
  <2>1. call' = [call EXCEPT ![c] = begun("done", "unknown_type")]
    BY <1>5 DEF Execute
  <2>2. begun("done", "unknown_type") \in Record
    BY <1>2 DEF Record, Outcome
  <2>3. Standing(c)'
    BY <1>2, <1>3, <1>4, <1>5, <2>1 DEF Standing, CallAt, AtWork
  <2> QED
    BY <1>1, <2>1, <2>2, <2>3, OneCallMoves
<1>6. CASE registry[t] # NULL /\ Timeout[c] = 0
  <2>1. call' = [call EXCEPT ![c] = begun("done", "timed_out")]
    BY <1>6 DEF Execute
  <2>2. begun("done", "timed_out") \in Record
    BY <1>2 DEF Record, Outcome
  <2>3. Standing(c)'
    BY <1>2, <1>3, <1>4, <1>6, <2>1 DEF Standing, CallAt, AtWork
  <2> QED
    BY <1>1, <2>1, <2>2, <2>3, OneCallMoves
<1>7. CASE registry[t] # NULL /\ Timeout[c] # 0
  <2>1. call' = [call EXCEPT ![c] = begun("running", NULL)]
    BY <1>7 DEF Execute
  <2>2. begun("running", NULL) \in Record
    BY <1>2 DEF Record, AtWork
  <2>3. Standing(c)'
    BY <1>1, <1>2, <1>7, <2>1 DEF Standing, CallAt, AtWork
  <2> QED
    BY <1>1, <2>1, <2>2, <2>3, OneCallMoves
<1> QED
  BY <1>5, <1>6, <1>7

\* Every step keeps the invariant.
LEMMA ExecutionStep ==
  ASSUME Typed, \A c \in Call : Standing(c), [ExecutionNext]_callVars
  PROVE  Typed' /\ \A c \in Call : Standing(c)'
<1>1. ASSUME NEW t \in JobType, NEW h \in Handler, Register(t, h)
      PROVE  Typed' /\ \A c \in Call : Standing(c)'
  <2>1. /\ registry[t] = NULL /\ registry' = [registry EXCEPT ![t] = h]
        /\ UNCHANGED <<call, now>>
    BY <1>1 DEF Register
  <2>2. Typed'
    BY <2>1 DEF Typed
  <2>3. ASSUME NEW c \in Call PROVE Standing(c)'
    <3>1. CallAt(c, AtWork) => registry'[call[c].job_type] = registry[call[c].job_type]
      BY <2>1 DEF Standing, Typed
    <3> QED
      BY <2>1, <3>1 DEF Standing, CallAt
  <2> QED
    BY <2>2, <2>3
<1>2. ASSUME NEW c \in Call, NEW t \in JobType, Execute(c, t)
      PROVE  Typed' /\ \A d \in Call : Standing(d)'
  BY <1>2, CallBegins
<1>3. ASSUME NEW c \in Call, HandlerReturns(c)
      PROVE  Typed' /\ \A d \in Call : Standing(d)'
  <2>1. Result(c, "returned", "succeeded") /\ UNCHANGED <<registry, now>>
    BY <1>3 DEF HandlerReturns
  <2>2. "succeeded" # NULL
    BY NullAssumption DEF Outcome
  <2> QED
    BY <2>1, <2>2, CallEnds DEF Ending, Outcome
<1>4. ASSUME NEW c \in Call, HandlerRaises(c)
      PROVE  Typed' /\ \A d \in Call : Standing(d)'
  <2>1. UNCHANGED <<registry, now>>
    BY <1>4 DEF HandlerRaises
  <2>2. ASSUME NEW e \in HandlerError, Result(c, e, OutcomeOf(e))
        PROVE  Typed' /\ \A d \in Call : Standing(d)'
    <3>1. /\ OutcomeOf(e) \in Outcome /\ OutcomeOf(e) # "succeeded"
          /\ e \in Ending /\ e \notin {"returned", "cancelled", "CancelledError"}
      BY DEF OutcomeOf, HandlerError, Outcome, Ending
    <3>2. OutcomeOf(e) # NULL
      BY <3>1, NullAssumption
    <3> QED
      BY <2>1, <2>2, <3>1, <3>2, CallEnds
  <2>3. CASE Result(c, "cancelled", NULL)
    BY <2>1, <2>3, CallIsLeft
  <2>4. CASE CallAt(c, {"overrun"}) /\ Result(c, "CancelledError", "timed_out")
    BY <2>1, <2>4, CutOffEnds DEF CallAt
  <2> QED
    BY <1>4, <2>2, <2>3, <2>4 DEF HandlerRaises
<1>5. ASSUME NEW c \in Call, DeadlineFires(c)
      PROVE  Typed' /\ \A d \in Call : Standing(d)'
  BY <1>5, CallGoesOn DEF DeadlineFires, CallAt, AtWork
<1>6. ASSUME NEW c \in Call, HandlerIsCancelled(c)
      PROVE  Typed' /\ \A d \in Call : Standing(d)'
  BY <1>6, CutOffEnds DEF HandlerIsCancelled, CallAt
<1>7. ASSUME NEW c \in Call, HandlerCatches(c)
      PROVE  Typed' /\ \A d \in Call : Standing(d)'
  <2>1. now >= call[c].start + Timeout[c]
    BY <1>7 DEF HandlerCatches, Standing, CallAt
  <2> QED
    BY <1>7, <2>1, CallGoesOn DEF HandlerCatches, CallAt, AtWork
<1>8. ASSUME NEW c \in Call, CallIsCancelled(c)
      PROVE  Typed' /\ \A d \in Call : Standing(d)'
  BY <1>8, CallIsLeft DEF CallIsCancelled
<1>9. CASE TimePasses
  <2>1. now \in Nat /\ now' = now + 1 /\ UNCHANGED <<registry, call>>
    BY <1>9, ExecutionAssumption DEF TimePasses, Typed
  <2>2. Typed'
    BY <1>9, <2>1, ExecutionAssumption DEF TimePasses, Typed
  <2>3. ASSUME NEW c \in Call PROVE Standing(c)'
    <3>1. call[c].start \in Nat /\ Timeout[c] \in Nat
      BY ExecutionAssumption DEF Typed, Record
    <3> QED
      BY <2>1, <3>1 DEF Standing, CallAt
  <2> QED
    BY <2>2, <2>3
<1>10. CASE UNCHANGED callVars
  BY <1>10 DEF callVars, Typed, Standing, CallAt
<1> QED
  BY <1>1, <1>2, <1>3, <1>4, <1>5, <1>6, <1>7, <1>8, <1>9, <1>10 DEF ExecutionNext

\* The invariant holds in every behaviour.
THEOREM ExecutionInvariance == ExecutionSpec => []ExecutionInv
<1>1. ExecutionInit => ExecutionInv
  <2> SUFFICES ASSUME ExecutionInit PROVE Typed /\ \A c \in Call : Standing(c)
    BY InvByCall
  <2>1. Typed
    BY ExecutionAssumption DEF ExecutionInit, Typed, Record, Idle
  <2>2. \A c \in Call : Standing(c)
    BY DEF ExecutionInit, Standing, CallAt, AtWork, Idle
  <2> QED
    BY <2>1, <2>2
<1>2. ExecutionInv /\ [ExecutionNext]_callVars => ExecutionInv'
  <2> SUFFICES ASSUME ExecutionInv, [ExecutionNext]_callVars PROVE ExecutionInv'
    OBVIOUS
  <2>1. Typed /\ \A c \in Call : Standing(c)
    BY InvByCall
  <2>2. Typed' /\ \A c \in Call : Standing(c)'
    BY <2>1, ExecutionStep
  <2>3. (Typed /\ \A c \in Call : Standing(c))' <=> ExecutionInv'
    BY InvByCall, PTL
  <2> QED
    BY <2>2, <2>3
<1> QED
  BY <1>1, <1>2, PTL DEF ExecutionSpec

\* Calls and registry keep their types, and a call keeps the handler it found.
THEOREM ExecutionTypes == ExecutionSpec => []ExecutionTypeOK
<1>1. ExecutionInv => ExecutionTypeOK
  BY DEF ExecutionInv
<1> QED
  BY <1>1, ExecutionInvariance, PTL

\* execute_job reports what happened to the handler.
THEOREM ReportsAreTrue == ExecutionSpec => []OutcomeIsWhatHappened
<1>1. ExecutionInv => OutcomeIsWhatHappened
  BY DEF ExecutionInv
<1> QED
  BY <1>1, ExecutionInvariance, PTL
==============================================================================
