---------------------------- MODULE Transactions ----------------------------
(***************************************************************************)
(* The transactions of JobStore, statement by statement, as PostgreSQL     *)
(* runs them at READ COMMITTED: what JobStore takes as one step is here a  *)
(* BEGIN, a scan of a snapshot, a visit of every row found and a COMMIT,   *)
(* and the statements of all open transactions interleave.                 *)
(*                                                                         *)
(*  - A statement finds its rows in a snapshot.  It then takes them one at *)
(*    a time: it waits for a row that another transaction has locked (or   *)
(*    passes over it, with SKIP LOCKED), and tests its WHERE clause again  *)
(*    on the row as last committed before it locks and writes it.          *)
(*  - Nobody sees what a transaction wrote until it commits, and it keeps  *)
(*    every lock it took until then.                                       *)
(*  - An INSERT waits for an open transaction that inserted or deleted the *)
(*    same idempotency key.                                                *)
(*  - A transaction may end without effect at any point: a unique          *)
(*    violation, a lost connection, a session closed without a commit.     *)
(*                                                                         *)
(* Abstractions, beyond JobStore's: rows are visited in any order, the     *)
(* LIMIT of a claim is any number, and an id burned by an aborted INSERT   *)
(* is as good as new, since nothing refers to it.                          *)
(***************************************************************************)
EXTENDS JobStore

CONSTANTS
  Conn,    \* database sessions
  Kinds    \* bound: the kinds of transactions a run explores

VARIABLE tx   \* tx[c]: the open transaction of session c, or NULL

txVars == <<vars, tx>>

\* seen[j]: the attempts the SELECT returned for row j.  new[j]: the version of
\* row j the transaction wrote, NULL when it deleted the row.
Begun(kind, w, j, n) ==
  [kind |-> kind, worker |-> w, job |-> j, attempts |-> n, now |-> now,
   stmt |-> "begin", todo |-> {}, seen |-> <<>>, locked |-> {}, new |-> <<>>]

Open == {c \in Conn : tx[c] # NULL}

Holders(j) == {c \in Open : j \in tx[c].locked}

\* Mutant: row locks exclude nobody.
TakenByOther_Never(c, j) == FALSE

TakenByOther(c, j) == Holders(j) \ {c} # {}

With(f, j, v) == [i \in DOMAIN f \cup {j} |-> IF i = j THEN v ELSE f[i]]

\* Rows whose presence in the unique index hangs on the outcome of o.
Doubtful(o) ==
  CASE o.kind = "create" -> {o.new[j] : j \in DOMAIN o.new}
    [] o.kind = "delete" -> {jobs[j] : j \in DOMAIN o.new}
    [] OTHER             -> {}

KeyInDoubt(q, k) ==
  k # NULL /\ \E d \in Open : \E r \in Doubtful(tx[d]) :
                r.queue = q /\ r.idempotency_key = k

------------------------------------------------------------------------------
(* What the statements ask for and what they write. *)

\* The WHERE clause of the first statement, on row j as committed.
Hits(o, j) ==
  CASE o.kind = "claim"   -> j \in Claimable(o.worker, o.now)
    [] o.kind = "reap"    -> j \in Expired(o.now)
    [] o.kind = "release" -> HoldsLock(o.worker, j)
    [] o.kind = "extend"  -> /\ j = o.job /\ HoldsLock(o.worker, j)
                             /\ jobs[j].lease_expires_at > o.now
    [] o.kind \in {"succeed", "fail"} ->
         j = o.job /\ Exists(j) /\ jobs[j].locked_by = o.worker
    [] o.kind = "cancel"  -> j = o.job /\ HasStatus(j, Cancellable)
    [] o.kind = "retry"   -> j = o.job /\ HasStatus(j, Retryable)
    [] o.kind \in {"retry_dead", "delete"} -> j = o.job /\ HasStatus(j, {"dead_letter"})
    [] OTHER -> FALSE

\* The UPDATE of a claim names the ids alone; that of a reap asks again.
StillHits(o, j) == IF o.kind = "claim" THEN Exists(j) ELSE Hits(o, j)

\* What the write may make of row j.
Versions(o, j) ==
  CASE o.kind = "claim"   -> {Claimed(jobs[j], o.worker, o.now)}
    [] o.kind = "reap"    -> {FailedOnce(jobs[j], o.seen[j], o.now, d) :
                                d \in RetryDelays(o.seen[j])}
    [] o.kind = "release" -> {Released(jobs[j])}
    [] o.kind = "extend"  -> {[jobs[j] EXCEPT !.lease_expires_at = o.now + LeaseTTL]}
    [] o.kind = "succeed" -> {Succeeded(jobs[j])}
    [] o.kind = "fail"    -> {FailedOnce(jobs[j], o.attempts, o.now, d) :
                                d \in RetryDelays(o.attempts)}
    [] o.kind = "cancel"  -> {Cancelled(jobs[j])}
    [] o.kind \in {"retry", "retry_dead"} -> {Requeued(jobs[j], o.now)}
    [] o.kind = "delete"  -> {NULL}

\* The rows a transaction adds to job_attempts.
NewAttempts(o) ==
  CASE o.kind = "reap"    -> {Attempt(j, o.seen[j], "failed") : j \in DOMAIN o.new}
    [] o.kind = "release" -> {Attempt(j, o.new[j].attempts + 1, "cancelled") :
                                j \in DOMAIN o.new}
    [] o.kind = "succeed" -> {Attempt(j, o.attempts, "succeeded") : j \in DOMAIN o.new}
    [] o.kind = "fail"    -> {Attempt(j, o.attempts, "failed") : j \in DOMAIN o.new}
    [] OTHER -> {}

------------------------------------------------------------------------------
(* BEGIN.  The first statement opens the transaction and fixes now(). *)

Opens(c, o) ==
  /\ tx[c] = NULL /\ o.kind \in Kinds
  /\ tx' = [tx EXCEPT ![c] = o]
  /\ UNCHANGED vars

\* run_loop and main run one after the other in the process of a worker.
BeginLoop(c) ==
  \E w \in Worker, kind \in {"claim", "release"} :
    /\ \A d \in Open : ~(tx[d].kind \in {"claim", "release"} /\ tx[d].worker = w)
    /\ Opens(c, Begun(kind, w, NULL, NULL))

BeginReap(c) == Opens(c, Begun("reap", NULL, NULL, NULL))

BeginExtend(c) == \E w \in Worker, j \in Job : Opens(c, Begun("extend", w, j, NULL))

Reports(o, s) == /\ o.kind \in {"succeed", "fail"}
                 /\ o.worker = s.worker /\ o.job = s.job /\ o.attempts = s.attempts

\* One outcome is reported for an execution.
BeginOutcome(c) ==
  \E s \in snapshots, kind \in {"succeed", "fail"} :
    /\ \A d \in Open : ~Reports(tx[d], s)
    /\ Opens(c, Begun(kind, s.worker, s.job, s.attempts))

BeginRequest(c) ==
  \E j \in Job, kind \in {"cancel", "retry", "retry_dead", "delete"} :
    Opens(c, Begun(kind, NULL, j, NULL))

BeginCreate(c) == Opens(c, Begun("create", NULL, NULL, NULL))

------------------------------------------------------------------------------
(* The statements. *)

Selects(o) == o.kind \in {"claim", "reap"}

\* The first statement takes its snapshot.
Scan(c) ==
  /\ c \in Open /\ tx[c].stmt = "begin" /\ tx[c].kind # "create"
  /\ tx' = [tx EXCEPT ![c].stmt = IF Selects(tx[c]) THEN "select" ELSE "update",
                      ![c].todo = {j \in Job : Hits(tx[c], j)}]
  /\ UNCHANGED vars

Visits(c, stmt, j) == c \in Open /\ tx[c].stmt = stmt /\ j \in tx[c].todo

\* The LIMIT of a claim is any number.
MayStop(o) == o.kind = "claim" /\ DOMAIN o.seen # {}

MustStop(o) == o.kind = "reap" /\ Cardinality(DOMAIN o.seen) = ReapLimit

\* Mutant: FOR UPDATE without SKIP LOCKED.
SkipsLocked_Never(o) == FALSE

SkipsLocked(o) == o.stmt = "select"

\* Mutant: SELECT without FOR UPDATE.
SelectRow_NoLock(c, j) ==
  /\ Visits(c, "select", j) /\ ~MustStop(tx[c])
  /\ ~TakenByOther(c, j) /\ Hits(tx[c], j)
  /\ tx' = [tx EXCEPT ![c].todo = @ \ {j}, ![c].seen = With(@, j, jobs[j].attempts)]
  /\ UNCHANGED vars

\* SELECT ... FOR UPDATE
SelectRow(c, j) ==
  /\ Visits(c, "select", j) /\ ~MustStop(tx[c])
  /\ ~TakenByOther(c, j) /\ Hits(tx[c], j)
  /\ tx' = [tx EXCEPT ![c].todo = @ \ {j}, ![c].locked = @ \cup {j},
                      ![c].seen = With(@, j, jobs[j].attempts)]
  /\ UNCHANGED vars

\* A row another transaction holds, or that changed since the snapshot.
SkipRow(c, j) ==
  /\ Visits(c, "select", j)
  /\ IF TakenByOther(c, j) THEN SkipsLocked(tx[c]) ELSE ~Hits(tx[c], j)
  /\ tx' = [tx EXCEPT ![c].todo = @ \ {j}]
  /\ UNCHANGED vars

SelectDone(c) ==
  /\ c \in Open /\ tx[c].stmt = "select"
  /\ tx[c].todo = {} \/ MayStop(tx[c]) \/ MustStop(tx[c])
  /\ tx' = [tx EXCEPT ![c].stmt = "update", ![c].todo = DOMAIN tx[c].seen]
  /\ UNCHANGED vars

\* Mutant: the row is written as the snapshot had it, without a second look.
WriteRow_NoRecheck(c, j) ==
  /\ Visits(c, "update", j) /\ ~TakenByOther(c, j) /\ Exists(j)
  /\ \E v \in Versions(tx[c], j) :
       tx' = [tx EXCEPT ![c].todo = @ \ {j}, ![c].locked = @ \cup {j},
                        ![c].new = With(@, j, v)]
  /\ UNCHANGED vars

\* UPDATE or DELETE
WriteRow(c, j) ==
  /\ Visits(c, "update", j) /\ ~TakenByOther(c, j) /\ StillHits(tx[c], j)
  /\ \E v \in Versions(tx[c], j) :
       tx' = [tx EXCEPT ![c].todo = @ \ {j}, ![c].locked = @ \cup {j},
                        ![c].new = With(@, j, v)]
  /\ UNCHANGED vars

\* The row changed while the statement waited for it.
PassRow(c, j) ==
  /\ Visits(c, "update", j) /\ ~TakenByOther(c, j) /\ ~StillHits(tx[c], j)
  /\ tx' = [tx EXCEPT ![c].todo = @ \ {j}]
  /\ UNCHANGED vars

Insert(c, j) ==
  /\ c \in Open /\ tx[c].stmt = "begin" /\ tx[c].kind = "create"
  /\ j \notin issued /\ ~TakenByOther(c, j)
  /\ \E q \in Queue, k \in Key \cup {NULL}, retries \in MaxRetries, run_at \in RunAt \cup {NULL} :
       /\ ~KeyTaken(q, k) /\ ~KeyInDoubt(q, k)
       /\ tx' = [tx EXCEPT ![c].stmt = "update", ![c].locked = {j},
                   ![c].new = With(@, j, NewJob(q, k, retries, run_at, tx[c].now))]
  /\ UNCHANGED vars

------------------------------------------------------------------------------
(* The end of a transaction. *)

\* The Job objects a claim returns are its caller's; a recorded outcome is
\* done with, whether or not it found its row.
SnapshotsAfter(o) ==
  CASE o.kind = "claim" ->
         snapshots \cup {[worker |-> o.worker, job |-> j, attempts |-> o.new[j].attempts] :
                           j \in DOMAIN o.new}
    [] o.kind \in {"succeed", "fail"} ->
         snapshots \ {[worker |-> o.worker, job |-> o.job, attempts |-> o.attempts]}
    [] OTHER -> snapshots

\* The INSERTs into job_attempts are flushed at the end; the DELETE cascades.
Commit(c) ==
  LET o == tx[c]
  IN  /\ c \in Open /\ o.stmt = "update" /\ o.todo = {}
      /\ \A a \in NewAttempts(o) : ~AttemptRecorded(a.job, a.attempt_number)
      /\ tx' = [tx EXCEPT ![c] = NULL]
      /\ jobs' = [j \in Job |-> IF j \in DOMAIN o.new THEN o.new[j] ELSE jobs[j]]
      /\ issued' = issued \cup DOMAIN o.new
      /\ job_attempts' = {a \in job_attempts \cup NewAttempts(o) : jobs'[a.job] # NULL}
      /\ snapshots' = SnapshotsAfter(o)
      /\ UNCHANGED now

Abort(c) ==
  /\ c \in Open
  /\ tx' = [tx EXCEPT ![c] = NULL]
  /\ UNCHANGED vars

\* A process that dies takes its transactions with it first.
Forget ==
  /\ \E s \in snapshots : (\A c \in Open : ~Reports(tx[c], s)) /\ LoseSnapshots({s})
  /\ UNCHANGED tx

\* Bound: a transaction is open for at most MaxTxLag ticks.
TxClockTicks ==
  /\ \A c \in Open : now < tx[c].now + MaxTxLag
  /\ Tick
  /\ UNCHANGED tx

------------------------------------------------------------------------------
TxInit == Init /\ tx = [c \in Conn |-> NULL]

Begin(c) ==
  \/ BeginLoop(c) \/ BeginReap(c) \/ BeginExtend(c) \/ BeginOutcome(c)
  \/ BeginRequest(c) \/ BeginCreate(c)

VisitRow(c, j) ==
  SelectRow(c, j) \/ SkipRow(c, j) \/ WriteRow(c, j) \/ PassRow(c, j) \/ Insert(c, j)

TxNext ==
  \/ \E c \in Conn :
       \/ Begin(c) \/ Scan(c) \/ SelectDone(c) \/ Commit(c) \/ Abort(c)
       \/ \E j \in Job : VisitRow(c, j)
  \/ Forget \/ TxClockTicks

TxSpec == TxInit /\ [][TxNext]_txVars

------------------------------------------------------------------------------
(* Properties. *)

\* The row locks exclude one another, and a transaction has written only rows
\* it holds.
TxTypeOK ==
  /\ TypeOK
  /\ \A c \in Open :
       /\ tx[c].now \in TxNow
       /\ tx[c].todo \subseteq Job /\ DOMAIN tx[c].seen \subseteq Job
       /\ DOMAIN tx[c].new \subseteq tx[c].locked
       /\ \A j \in DOMAIN tx[c].new : tx[c].new[j] \in JobRow \cup {NULL}
       /\ \A d \in Open \ {c} : tx[c].locked \cap tx[d].locked = {}

\* Whatever statements interleave, each COMMIT is one step of JobStore: the
\* second look at a row after a wait, the locks of FOR UPDATE and the unique
\* indexes are enough at READ COMMITTED, although claim and reap decide in one
\* statement and write in another.
ImplementsStore == Spec

\* claim_jobs drops ids that its UPDATE did not return, and reap_expired_jobs
\* counts the rows its second WHERE clause still found.  Neither happens: the
\* rows between SELECT and UPDATE are as they were.
SelectedRowsStayPut ==
  \A c \in Open : Selects(tx[c]) /\ tx[c].stmt = "update" =>
    \A j \in tx[c].todo : Hits(tx[c], j) /\ jobs[j].attempts = tx[c].seen[j]

\* The transactions that hold a row session c has to wait for.
WaitsFor(c) ==
  UNION {Holders(j) \ {c} : j \in IF SkipsLocked(tx[c]) THEN {} ELSE tx[c].todo}

\* No circle of transactions waits for one another's rows, although a release
\* takes the locks of several rows in whatever order it finds them.
NoDeadlock ==
  \A S \in (SUBSET Open) \ {{}} : \E c \in S : WaitsFor(c) \cap S = {}
==============================================================================
