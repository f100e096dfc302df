------------------------------- MODULE JobViews -------------------------------
(***************************************************************************)
(* What operators read while jobs move: the statistics of a queue and the  *)
(* lists of queues, jobs and dead letters, page by page (api/queues.py,    *)
(* and the lists of api/jobs.py and api/dead_letter.py).  Every request is *)
(* two statements with a snapshot each; a walk is many requests.           *)
(*                                                                         *)
(* Ids and queue names are numbers, for the ORDER BY.  One reader; writes  *)
(* are Next of JobStore.  How a client walks a list is not in the code: it *)
(* asks for the next offset until a page comes back short.                 *)
(***************************************************************************)
EXTENDS JobStore

CONSTANTS
  Limit,   \* the limit the walking client asks for
  Views    \* bound: the lists and statistics a run reads

\* Job and Queue are finite: the rows before an offset are counted.
ASSUME ViewsAssumption ==
  /\ Job \subseteq Nat /\ IsFiniteSet(Job)
  /\ Queue \subseteq Nat /\ IsFiniteSet(Queue)
  /\ Limit \in Nat \ {0}
  /\ NULL \notin [job : Job, status : JobStatus]

VARIABLES
  created,   \* created[j]: created_at of row j
  buried,    \* buried[j]: dead_lettered_at of row j when it is a dead letter
  reader,    \* the request in progress and what its client saw so far
  watch      \* history: what happened to the list since the walk began

viewVars == <<vars, created, buried, reader, watch>>

\* rows: how many rows a walking client was shown, and shown which.
Idle == [view |-> NULL, pc |-> "idle", offset |-> 0, rows |-> 0, shown |-> {},
         total |-> 0, counts |-> <<>>, oldest |-> NULL]

Unwatched == [steady |-> {}, departures |-> 0, arrivals |-> 0]

------------------------------------------------------------------------------
(* The responses. *)

DepthStatuses == {"queued", "scheduled", "retrying"}

InQueue(q, S) == {j \in Job : HasStatus(j, S) /\ jobs[j].queue = q}

StatusCounts(q) == [s \in JobStatus |-> Cardinality(InQueue(q, {s}))]

Depth(counts) == counts["queued"] + counts["scheduled"] + counts["retrying"]

JobCount(q) == Cardinality(InQueue(q, JobStatus))

\* What a list ranges over: GET /queues the queues with a job, GET /dead-letter
\* the dead letters, GET /jobs the jobs with the status asked for, or any.
Listed(view) ==
  CASE view = "queues"       -> {q \in Queue : JobCount(q) > 0}
    [] view = "dead_letters" -> {j \in Job : HasStatus(j, {"dead_letter"})}
    [] view \in JobStatus    -> {j \in Job : HasStatus(j, {view})}
    [] OTHER                 -> {j \in Job : Exists(j)}

\* ORDER BY: queues by name, dead letters by dead_lettered_at and jobs, those
\* with status dead_letter too, by created_at, newest first, then by id.
Precedes(view, x, y) ==
  LET Newer(at) == at[x] > at[y] \/ (at[x] = at[y] /\ x > y)
  IN  CASE view = "queues"       -> x < y
        [] view = "dead_letters" -> Newer(buried)
        [] OTHER                 -> Newer(created)

\* Mutant: OFFSET counts pages from one.
Page_SkipsFirst(view, offset) ==
  {x \in Listed(view) :
     LET before == Cardinality({y \in Listed(view) : Precedes(view, y, x)})
     IN  offset < before /\ before <= offset + Limit}

\* Mutant: one row more is fetched and not cut off.
Page_OneMore(view, offset) ==
  {x \in Listed(view) :
     LET before == Cardinality({y \in Listed(view) : Precedes(view, y, x)})
     IN  offset <= before /\ before <= offset + Limit}

\* LIMIT and OFFSET.
Page(view, offset) ==
  {x \in Listed(view) :
     LET before == Cardinality({y \in Listed(view) : Precedes(view, y, x)})
     IN  offset <= before /\ before < offset + Limit}

------------------------------------------------------------------------------
(* GET /queues/{name}/stats *)

ReadCounts ==
  /\ "stats" \in Views /\ reader.pc = "idle"
  /\ \E q \in Queue :
       /\ reader' = [Idle EXCEPT !.view = q, !.counts = StatusCounts(q),
            !.pc = CASE JobCount(q) = 0                -> "not_found"
                     [] Depth(StatusCounts(q)) = 0     -> "stats"
                     [] OTHER                          -> "oldest"]
       /\ watch' = [Unwatched EXCEPT !.steady = InQueue(q, DepthStatuses)]
  /\ UNCHANGED <<vars, created, buried>>

\* Mutant: the newest one.
Oldest_Newest(S) == {x \in S : \A y \in S \ {x} : Precedes("jobs", x, y)}

\* ORDER BY created_at, id LIMIT 1
Oldest(S) == {x \in S : \A y \in S \ {x} : Precedes("jobs", y, x)}

ReadOldest ==
  LET S == Oldest(InQueue(reader.view, DepthStatuses))
  IN  /\ reader.pc = "oldest"
      /\ \/ \E j \in S :
              reader' = [reader EXCEPT !.pc = "stats",
                           !.oldest = [job |-> j, status |-> jobs[j].status]]
         \/ S = {} /\ reader' = [reader EXCEPT !.pc = "stats"]
      /\ UNCHANGED <<vars, created, buried, watch>>

------------------------------------------------------------------------------
(* GET /queues, GET /jobs and GET /dead-letter, from the first page to the last. *)

ReadTotal ==
  /\ \/ /\ reader.pc = "idle"
        /\ \E view \in Views \ {"stats"} :
             /\ reader' = [Idle EXCEPT !.view = view, !.pc = "rows",
                             !.total = Cardinality(Listed(view))]
             /\ watch' = [Unwatched EXCEPT !.steady = Listed(view)]
     \/ /\ reader.pc = "total"
        /\ reader' = [reader EXCEPT !.pc = "rows", !.total = Cardinality(Listed(reader.view))]
        /\ UNCHANGED watch
  /\ UNCHANGED <<vars, created, buried>>

ReadRows ==
  LET P == Page(reader.view, reader.offset)
  IN  /\ reader.pc = "rows"
      /\ reader' = [reader EXCEPT
           !.rows   = @ + Cardinality(P),
           !.shown  = @ \cup P,
           !.offset = @ + Limit,
           !.pc     = IF Cardinality(P) < Limit THEN "walked" ELSE "total"]
      /\ UNCHANGED <<vars, created, buried, watch>>

\* The reply is used and the reader starts over.
Finish ==
  /\ reader.pc \in {"stats", "not_found", "walked"}
  /\ reader' = Idle /\ watch' = Unwatched
  /\ UNCHANGED <<vars, created, buried>>

------------------------------------------------------------------------------
Watching == reader.pc \in {"oldest", "stats", "total", "rows", "walked"}

InView == IF reader.pc \in {"oldest", "stats"} THEN InQueue(reader.view, DepthStatuses)
                                              ELSE Listed(reader.view)

\* A write stamps the rows it creates and buries.
Write ==
  /\ Next /\ UNCHANGED reader
  /\ \E t \in TxNow :
       /\ created' = [j \in Job |-> IF j \in issued' \ issued THEN t ELSE created[j]]
       /\ buried' = [j \in Job |-> IF HasStatus(j, {"dead_letter"})' /\ ~HasStatus(j, {"dead_letter"})
                                   THEN t ELSE buried[j]]
  /\ watch' = IF Watching
              THEN [steady     |-> watch.steady \cap InView',
                    departures |-> watch.departures + Cardinality(InView \ InView'),
                    arrivals   |-> watch.arrivals + Cardinality(InView' \ InView)]
              ELSE watch

ViewsInit ==
  /\ Init
  /\ created = [j \in Job |-> 0] /\ buried = [j \in Job |-> 0]
  /\ reader = Idle /\ watch = Unwatched

ViewsNext == ReadCounts \/ ReadOldest \/ ReadTotal \/ ReadRows \/ Finish \/ Write

ViewsSpec == ViewsInit /\ [][ViewsNext]_viewVars

------------------------------------------------------------------------------
(* Properties. *)

\* Counts and oldest job come from two snapshots.  When the reply has no
\* oldest job next to a positive depth, every job it counted has been taken
\* meanwhile; otherwise no job that kept waiting is older than the one shown,
\* which is counted under the status it has, if it too kept waiting.
StatsAreExplained ==
  reader.pc = "stats" =>
    IF reader.oldest = NULL THEN watch.steady = {}
    ELSE /\ \A j \in watch.steady \ {reader.oldest.job} : Precedes("jobs", j, reader.oldest.job)
         /\ reader.oldest.job \in watch.steady => reader.counts[reader.oldest.status] > 0

\* A walk over the pages of a list loses a row that was there all along only
\* to a row that left the list meanwhile, at most one for one ...
WalkLosesAtMostDepartures ==
  reader.pc = "walked" =>
    Cardinality(watch.steady \ reader.shown) <= watch.departures

\* ... and shows a row again only because of one that came.
WalkRepeatsAtMostArrivals ==
  reader.pc = "walked" => reader.rows - Cardinality(reader.shown) <= watch.arrivals
==============================================================================
