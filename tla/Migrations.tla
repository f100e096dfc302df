------------------------------ MODULE Migrations ------------------------------
(***************************************************************************)
(* The chain of migrations (migrations/versions) and the commands that run *)
(* along it (migrations/env.py), while rows are written in between and two *)
(* deployments may run a command at once.                                  *)
(*                                                                         *)
(*  - A schema is a set of objects.  Column types and defaults are left    *)
(*    out: an object is a table, a column, an index or a constraint, with  *)
(*    what it is defined on.                                               *)
(*  - env.py runs all revisions of a command in one transaction, whose DDL *)
(*    keeps everybody else from the tables: a command is one step and has  *)
(*    all of its effect or none.  Alembic reads the current revision       *)
(*    before, and refuses to replace any other (external).                 *)
(*  - Of the rows only what a unique constraint can refuse is kept.  The   *)
(*    code that writes them at an older revision is not in the repository; *)
(*    any row that the constraints allow may be there.                     *)
(***************************************************************************)
EXTENDS Integers, Sequences, SequencesExt

CONSTANTS
  Migrator,   \* deployments that run alembic
  RowId,      \* bound: how many rows there may be
  Queue, Key, NULL

VARIABLES
  revision,   \* alembic_version, as a position in the chain; 0 is base
  schema,     \* the objects there are
  rows,       \* rows[i]: queue and idempotency_key of a row of jobs, or NULL
  command     \* command[m]: the command of deployment m, or NULL

vars == <<revision, schema, rows, command>>

Object(kind, table, name, on) == [kind |-> kind, table |-> table, name |-> name, on |-> on]

Columns(table, names) == {Object("column", table, c, <<>>) : c \in names}

Index(table, name, on)  == Object("index", table, name, on)
Unique(table, name, on) == Object("unique", table, name, on)
Check(table, name)      == Object("check", table, name, <<>>)
Refers(table, column, to, ondelete) == Object("foreign_key", table, column, <<to, ondelete>>)

\* The name PostgreSQL gives a unique constraint that has none.
AutoName(table, column) ==
  CASE table = "jobs"    -> "jobs_idempotency_key_key"
    [] table = "workers" -> "workers_worker_name_key"

------------------------------------------------------------------------------
(* The tables as their revisions create them. *)

JobColumns ==
  {"id", "queue", "job_type", "payload_json", "status", "priority", "attempts",
   "max_retries", "next_run_at", "timeout_seconds", "idempotency_key", "locked_by",
   "locked_at", "lease_expires_at", "last_error", "created_at", "updated_at",
   "completed_at", "failed_at"}

JobsTable ==
  Columns("jobs", JobColumns) \cup
  {Check("jobs", "ck_jobs_status"),
   Unique("jobs", AutoName("jobs", "idempotency_key"), <<"idempotency_key">>)}

JobAttemptsTable ==
  Columns("job_attempts", {"id", "job_id", "worker_id", "attempt_number", "started_at",
                           "finished_at", "status", "error_message", "runtime_ms"}) \cup
  {Check("job_attempts", "ck_job_attempts_status"),
   Refers("job_attempts", "job_id", "jobs", "CASCADE"),
   Unique("job_attempts", "uq_job_attempts_job_id_attempt_number",
          <<"job_id", "attempt_number">>)}

WorkersTable ==
  Columns("workers", {"id", "worker_name", "hostname", "queues", "status",
                      "last_heartbeat_at", "started_at", "current_job_id"}) \cup
  {Check("workers", "ck_workers_status"),
   Refers("workers", "current_job_id", "jobs", "SET NULL"),
   Unique("workers", AutoName("workers", "worker_name"), <<"worker_name">>)}

KeyPerTable == Unique("jobs", AutoName("jobs", "idempotency_key"), <<"idempotency_key">>)
KeyPerQueue == Unique("jobs", "uq_jobs_queue_idempotency_key", <<"queue", "idempotency_key">>)

ClaimIndex == "ix_jobs_queue_status_priority_next_run_at"

ByStatus   == Index("jobs", "ix_jobs_queue_status_next_run_at",
                    <<"queue", "status", "next_run_at">>)
ByPriority == Index("jobs", ClaimIndex, <<"queue", "status", "priority DESC", "next_run_at">>)
ForClaims  == Index("jobs", ClaimIndex,
                    <<"queue", "priority DESC", "next_run_at", "created_at", "WHERE claimable">>)
ByLease    == Index("jobs", "ix_jobs_status_lease_expires_at", <<"status", "lease_expires_at">>)

ByWorker    == Index("job_attempts", "ix_job_attempts_worker_id", <<"worker_id">>)
ByStart     == Index("job_attempts", "ix_job_attempts_status_started_at",
                     <<"status", "started_at">>)
ByHeartbeat == Index("workers", "ix_workers_status_last_heartbeat_at",
                     <<"status", "last_heartbeat_at">>)
ByJob       == Index("workers", "ix_workers_current_job_id", <<"current_job_id">>)

\* core/models.py: what the code at the end of the chain expects.
ModelColumns ==
  Columns("jobs", {"id", "queue", "job_type", "payload_json", "status", "priority",
    "attempts", "max_retries", "next_run_at", "timeout_seconds", "idempotency_key",
    "locked_by", "locked_at", "lease_expires_at", "last_error", "created_at",
    "updated_at", "completed_at", "failed_at", "dead_lettered_at"}) \cup
  Columns("job_attempts", {"id", "job_id", "worker_id", "attempt_number", "started_at",
    "finished_at", "status", "error_message", "runtime_ms"}) \cup
  Columns("workers", {"id", "worker_name", "hostname", "queues", "status",
    "last_heartbeat_at", "started_at", "current_job_id"})

ModelTableArgs ==
  {Check("jobs", "ck_jobs_status"),
   Unique("jobs", "uq_jobs_queue_idempotency_key", <<"queue", "idempotency_key">>),
   Index("jobs", "ix_jobs_queue_status_priority_next_run_at",
         <<"queue", "priority DESC", "next_run_at", "created_at", "WHERE claimable">>),
   Index("jobs", "ix_jobs_status_lease_expires_at", <<"status", "lease_expires_at">>),
   Check("job_attempts", "ck_job_attempts_status"),
   Unique("job_attempts", "uq_job_attempts_job_id_attempt_number",
          <<"job_id", "attempt_number">>),
   Index("job_attempts", "ix_job_attempts_worker_id", <<"worker_id">>),
   Index("job_attempts", "ix_job_attempts_status_started_at", <<"status", "started_at">>),
   Check("workers", "ck_workers_status"),
   Index("workers", "ix_workers_status_last_heartbeat_at", <<"status", "last_heartbeat_at">>),
   Index("workers", "ix_workers_current_job_id", <<"current_job_id">>)}

ModelSchema ==
  ModelColumns \cup ModelTableArgs \cup
  {Refers("job_attempts", "job_id", "jobs", "CASCADE"),
   Refers("workers", "current_job_id", "jobs", "SET NULL"),
   Unique("workers", AutoName("workers", "worker_name"), <<"worker_name">>)}

------------------------------------------------------------------------------
(* The statements of the revisions, in order. *)

Create(objects) == [op |-> "create", objects |-> objects, table |-> NULL, name |-> NULL]
Drop(table, name) == [op |-> "drop", objects |-> {}, table |-> table, name |-> name]
DropTable(table) == [op |-> "drop_table", objects |-> {}, table |-> table, name |-> NULL]

Revision(up, down) == [upgrade |-> up, downgrade |-> down]

CreateJobs ==
  Revision(<<Create(JobsTable), Create({ByStatus}), Create({ByLease})>>,
           <<Drop("jobs", ByLease.name), Drop("jobs", ByStatus.name), DropTable("jobs")>>)

CreateJobAttempts ==
  Revision(<<Create(JobAttemptsTable), Create({ByWorker}), Create({ByStart})>>,
           <<Drop("job_attempts", ByStart.name), Drop("job_attempts", ByWorker.name),
             DropTable("job_attempts")>>)

CreateWorkers ==
  Revision(<<Create(WorkersTable), Create({ByHeartbeat}), Create({ByJob})>>,
           <<Drop("workers", ByJob.name), Drop("workers", ByHeartbeat.name),
             DropTable("workers")>>)

AddPriority ==
  Revision(<<Drop("jobs", ByStatus.name), Create({ByPriority})>>,
           <<Drop("jobs", ClaimIndex), Create({ByStatus})>>)

\* Mutant: the downgrade drops the constraint it is about to create.
UniquePerQueue_DropsOld ==
  Revision(<<Drop("jobs", KeyPerTable.name), Create({KeyPerQueue})>>,
           <<Drop("jobs", KeyPerTable.name), Create({KeyPerTable})>>)

UniquePerQueue ==
  Revision(<<Drop("jobs", KeyPerTable.name), Create({KeyPerQueue})>>,
           <<Drop("jobs", KeyPerQueue.name), Create({KeyPerTable})>>)

IndexForClaims ==
  Revision(<<Drop("jobs", ClaimIndex), Create({ForClaims})>>,
           <<Drop("jobs", ClaimIndex), Create({ByPriority})>>)

\* Mutant: the column is created in the wrong table.
AddDeadLetteredAt_Elsewhere ==
  Revision(<<Create(Columns("job_attempts", {"dead_lettered_at"}))>>,
           <<Drop("job_attempts", "dead_lettered_at")>>)

AddDeadLetteredAt ==
  Revision(<<Create(Columns("jobs", {"dead_lettered_at"}))>>,
           <<Drop("jobs", "dead_lettered_at")>>)

\* Each revision names the one before it as its down_revision.
Chain ==
  <<CreateJobs, CreateJobAttempts, CreateWorkers, AddPriority, UniquePerQueue,
    IndexForClaims, AddDeadLetteredAt>>

HeadRevision == Len(Chain)

\* Where UniquePerQueue stands in the chain.
KeysPerQueue == 5

\* How many revisions a command runs, and the statements of the i-th of them.
Distance(from, to) == IF from <= to THEN to - from ELSE from - to

Script(from, to, i) ==
  IF from <= to THEN Chain[from + i].upgrade ELSE Chain[from + 1 - i].downgrade

------------------------------------------------------------------------------
(* What PostgreSQL makes of a statement. *)

\* Some statement failed.
Broken == {Object("error", NULL, NULL, <<>>)}

\* Columns have names of their own in every table; so have other objects.
Clash(a, b) == a.table = b.table /\ a.name = b.name /\ (a.kind = "column" <=> b.kind = "column")

Shared(table_rows, on) ==
  \E i, k \in DOMAIN table_rows : i # k /\ table_rows[i] # NULL /\ table_rows[k] # NULL
    /\ table_rows[i].key # NULL /\ table_rows[i].key = table_rows[k].key
    /\ ("queue" \in ToSet(on) => table_rows[i].queue = table_rows[k].queue)

\* The rows keep a constraint; only jobs holds rows here.
Satisfy(table_rows, object) ==
  object.kind = "unique" /\ object.table = "jobs" => ~Shared(table_rows, object.on)

Executed(objects, s, table_rows) ==
  IF objects = Broken THEN Broken
  ELSE CASE s.op = "create" ->
              IF /\ \A a \in s.objects, b \in objects : ~Clash(a, b)
                 /\ \A a \in s.objects : Satisfy(table_rows, a)
              THEN objects \cup s.objects ELSE Broken
         [] s.op = "drop" ->
              LET gone == {o \in objects : o.table = s.table /\ o.name = s.name
                                                             /\ o.kind # "foreign_key"}
              IN  IF gone = {} THEN Broken ELSE objects \ gone
         [] s.op = "drop_table" ->
              IF \E o \in objects : o.kind = "foreign_key" /\ o.on[1] = s.table
              THEN Broken ELSE {o \in objects : o.table # s.table}

\* The statements of a revision, one after the other.
Result(objects, script, table_rows) ==
  LET after[i \in 0..Len(script)] ==
        IF i = 0 THEN objects ELSE Executed(after[i - 1], script[i], table_rows)
  IN  after[Len(script)]

\* The revisions of a command, one after the other.
Migrated(objects, from, to, table_rows) ==
  LET after[i \in 0..Distance(from, to)] ==
        IF i = 0 THEN objects ELSE Result(after[i - 1], Script(from, to, i), table_rows)
  IN  after[Distance(from, to)]

Applies(from, to) == Migrated(schema, from, to, rows) # Broken

------------------------------------------------------------------------------
(* Commands and rows. *)

NoRows == [i \in RowId |-> NULL]

\* alembic upgrade or downgrade: the current revision is read.
Plan(m, to) ==
  /\ command[m] = NULL /\ to # revision
  /\ command' = [command EXCEPT ![m] = [from |-> revision, to |-> to]]
  /\ UNCHANGED <<revision, schema, rows>>

\* Mutant: the version row is set whatever it was.
Run_AnyVersion(m) ==
  LET c == command[m]
      r == Migrated(schema, c.from, c.to, rows)
  IN  /\ c # NULL
      /\ command' = [command EXCEPT ![m] = NULL]
      /\ IF r # Broken
         THEN /\ revision' = c.to /\ schema' = r
              /\ rows' = IF c.to = 0 THEN NoRows ELSE rows
         ELSE UNCHANGED <<revision, schema, rows>>

Run(m) ==
  LET c == command[m]
      r == Migrated(schema, c.from, c.to, rows)
  IN  /\ c # NULL
      /\ command' = [command EXCEPT ![m] = NULL]
      /\ IF c.from = revision /\ r # Broken
         THEN /\ revision' = c.to /\ schema' = r
              /\ rows' = IF c.to = 0 THEN NoRows ELSE rows
         ELSE UNCHANGED <<revision, schema, rows>>

InsertRow(i, q, k) ==
  LET after == [rows EXCEPT ![i] = [queue |-> q, key |-> k]]
  IN  /\ revision > 0 /\ rows[i] = NULL
      /\ \A o \in schema : Satisfy(after, o)
      /\ rows' = after
      /\ UNCHANGED <<revision, schema, command>>

DeleteRow(i) ==
  /\ rows[i] # NULL
  /\ rows' = [rows EXCEPT ![i] = NULL]
  /\ UNCHANGED <<revision, schema, command>>

Init ==
  /\ revision = 0 /\ schema = {} /\ rows = NoRows
  /\ command = [m \in Migrator |-> NULL]

Next ==
  \/ \E m \in Migrator : Run(m) \/ \E to \in 0..HeadRevision : Plan(m, to)
  \/ \E i \in RowId : DeleteRow(i) \/ \E q \in Queue, k \in Key \cup {NULL} : InsertRow(i, q, k)

Spec == Init /\ [][Next]_vars

------------------------------------------------------------------------------
(* Properties. *)

SharedKey == Shared(rows, <<"idempotency_key">>)

\* The schema depends on the revision alone: whatever way up and down the chain
\* led here, and whoever else migrated at the same time, it is what upgrading
\* an empty database to that revision gives.
SchemaIsTheRevisions == schema = Migrated({}, 0, revision, NoRows)

\* At the end of the chain the database is what core/models.py declares.
HeadIsTheModels == revision = HeadRevision => schema = ModelSchema

\* Every command applies to the rows that are there: no upgrade ever fails, and a
\* downgrade only when it would make a key unique that two queues share.
CommandsApply ==
  \A to \in 0..HeadRevision :
    Applies(revision, to) \/ (SharedKey /\ to < KeysPerQueue /\ KeysPerQueue <= revision)
==============================================================================
