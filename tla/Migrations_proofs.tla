--------------------------- MODULE Migrations_proofs ---------------------------
(***************************************************************************)
(* What every command of alembic does on every database that commands and  *)
(* writes can lead to, for any rows, queues, keys and deployments.         *)
(*                                                                         *)
(* SchemaAt gives the schema of each revision in closed form.  First comes *)
(* what one statement does, then each revision both ways, then the chain,  *)
(* then the invariant: the schema is that of the revision, and the rows    *)
(* keep its constraints.                                                   *)
(***************************************************************************)
EXTENDS Migrations, WellFoundedInduction, TLAPS

(***************************************************************************)
(* Functions that recurse over positions.  Result and Migrated are defined *)
(* by one; a trace that satisfies the same equation ends where they do.    *)
(***************************************************************************)

\* Induction over the positions 0..n, for a set of positions.
LEMMA PositionInduction ==
  ASSUME NEW n \in Nat, NEW T, 0 \in T, \A i \in 1..n : i - 1 \in T => i \in T
  PROVE  0..n \subseteq T
<1> DEFINE R == OpToRel(<, Nat)
           U == (0..n) \ T
<1> SUFFICES ASSUME U # {} PROVE FALSE
  OBVIOUS
<1>1. IsWellFoundedOn(R, Nat)
  BY NatLessThanWellFounded, Zenon
<1>2. U \subseteq Nat
  OBVIOUS
<1>3. \A x, y \in Nat : x < y => <<x, y>> \in R
  BY DEF OpToRel
<1> HIDE DEF R
<1>4. PICK x \in U : \A y \in U : <<y, x>> \notin R
  <2> HIDE DEF U
  <2> QED BY <1>1, <1>2, WFMin
<1>5. x \in 1..n /\ x - 1 \in 0..n
  BY <1>4
<1>6. <<x - 1, x>> \in R
  BY <1>3, <1>5
<1>7. x - 1 \notin U
  BY <1>4, <1>6
<1> QED
  BY <1>4, <1>5, <1>7

\* A list of statements leads where a trace of it leads that makes each step as
\* Executed does.
LEMMA ResultIsTheEnd ==
  ASSUME NEW objects, NEW script, Len(script) \in Nat, NEW table_rows, NEW trace,
         trace = [i \in 0..Len(script) |->
                    IF i = 0 THEN objects
                    ELSE Executed(trace[i - 1], script[i], table_rows)]
  PROVE  Result(objects, script, table_rows) = trace[Len(script)]
<1> DEFINE n == Len(script)
           IsTrace(f) == f = [i \in 0..n |-> IF i = 0 THEN objects
                                             ELSE Executed(f[i - 1], script[i], table_rows)]
           after == CHOOSE f : IsTrace(f)
<1>1. IsTrace(trace)
  OBVIOUS
<1>2. IsTrace(after)
  BY <1>1
<1>3. Result(objects, script, table_rows) = after[n]
  BY DEF Result
<1> HIDE DEF after
<1> DEFINE T == {i \in 0..n : after[i] = trace[i]}
<1>4. \A i \in 0..n :
        /\ after[i] = IF i = 0 THEN objects
                      ELSE Executed(after[i - 1], script[i], table_rows)
        /\ trace[i] = IF i = 0 THEN objects
                      ELSE Executed(trace[i - 1], script[i], table_rows)
  BY <1>1, <1>2
<1>5. 0 \in T
  BY <1>4
<1>6. ASSUME NEW i \in 1..n, i - 1 \in T PROVE i \in T
  BY <1>4, <1>6
<1>7. 0..n \subseteq T
  <2> HIDE DEF T
  <2> QED BY <1>5, <1>6, PositionInduction
<1> QED
  BY <1>3, <1>7

\* The same of the revisions of a command.
LEMMA MigratedIsTheEnd ==
  ASSUME NEW objects, NEW from, NEW to, Distance(from, to) \in Nat, NEW table_rows,
         NEW trace,
         trace = [i \in 0..Distance(from, to) |->
                    IF i = 0 THEN objects
                    ELSE Result(trace[i - 1], Script(from, to, i), table_rows)]
  PROVE  Migrated(objects, from, to, table_rows) = trace[Distance(from, to)]
<1> DEFINE n == Distance(from, to)
           IsTrace(f) == f = [i \in 0..n |->
                                IF i = 0 THEN objects
                                ELSE Result(f[i - 1], Script(from, to, i), table_rows)]
           after == CHOOSE f : IsTrace(f)
<1>1. IsTrace(trace)
  OBVIOUS
<1>2. IsTrace(after)
  BY <1>1
<1>3. Migrated(objects, from, to, table_rows) = after[n]
  BY DEF Migrated
<1> HIDE DEF after
<1> DEFINE T == {i \in 0..n : after[i] = trace[i]}
<1>4. \A i \in 0..n :
        /\ after[i] = IF i = 0 THEN objects
                      ELSE Result(after[i - 1], Script(from, to, i), table_rows)
        /\ trace[i] = IF i = 0 THEN objects
                      ELSE Result(trace[i - 1], Script(from, to, i), table_rows)
  BY <1>1, <1>2
<1>5. 0 \in T
  BY <1>4
<1>6. ASSUME NEW i \in 1..n, i - 1 \in T PROVE i \in T
  BY <1>4, <1>6
<1>7. 0..n \subseteq T
  <2> HIDE DEF T
  <2> QED BY <1>5, <1>6, PositionInduction
<1> QED
  BY <1>3, <1>7

\* A script of one statement.
LEMMA OneStatement ==
  ASSUME NEW a, NEW b, NEW s, NEW table_rows, Executed(a, s, table_rows) = b
  PROVE  Result(a, <<s>>, table_rows) = b
<1> DEFINE trace == [i \in 0..1 |-> IF i = 0 THEN a ELSE b]
<1>1. trace = [i \in 0..1 |-> IF i = 0 THEN a
                              ELSE Executed(trace[i - 1], <<s>>[i], table_rows)]
  <2>1. \A i \in 0..1 : i = 0 \/ i = 1
    OBVIOUS
  <2> QED BY <2>1
<1>2. trace[1] = b
  OBVIOUS
<1> HIDE DEF trace
<1>3. Len(<<s>>) = 1
  OBVIOUS
<1> QED
  BY <1>1, <1>2, <1>3, ResultIsTheEnd

\* A script of two statements.
LEMMA TwoStatements ==
  ASSUME NEW a, NEW b, NEW c, NEW s, NEW t, NEW table_rows,
         Executed(a, s, table_rows) = b, Executed(b, t, table_rows) = c
  PROVE  Result(a, <<s, t>>, table_rows) = c
<1> DEFINE trace == [i \in 0..2 |-> IF i = 0 THEN a ELSE IF i = 1 THEN b ELSE c]
<1>1. trace = [i \in 0..2 |-> IF i = 0 THEN a
                              ELSE Executed(trace[i - 1], <<s, t>>[i], table_rows)]
  <2>1. \A i \in 0..2 : i = 0 \/ i = 1 \/ i = 2
    OBVIOUS
  <2> QED BY <2>1
<1>2. trace[2] = c
  OBVIOUS
<1> HIDE DEF trace
<1>3. Len(<<s, t>>) = 2
  OBVIOUS
<1> QED
  BY <1>1, <1>2, <1>3, ResultIsTheEnd

\* A script of three statements.
LEMMA ThreeStatements ==
  ASSUME NEW a, NEW b, NEW c, NEW d, NEW s, NEW t, NEW u, NEW table_rows,
         Executed(a, s, table_rows) = b, Executed(b, t, table_rows) = c,
         Executed(c, u, table_rows) = d
  PROVE  Result(a, <<s, t, u>>, table_rows) = d
<1> DEFINE trace == [i \in 0..3 |-> IF i = 0 THEN a ELSE IF i = 1 THEN b
                                    ELSE IF i = 2 THEN c ELSE d]
<1>1. trace = [i \in 0..3 |-> IF i = 0 THEN a
                              ELSE Executed(trace[i - 1], <<s, t, u>>[i], table_rows)]
  <2>1. \A i \in 0..3 : i = 0 \/ i = 1 \/ i = 2 \/ i = 3
    OBVIOUS
  <2> QED BY <2>1
<1>2. trace[3] = d
  OBVIOUS
<1> HIDE DEF trace
<1>3. Len(<<s, t, u>>) = 3
  OBVIOUS
<1> QED
  BY <1>1, <1>2, <1>3, ResultIsTheEnd

\* Sets of objects that are no failure.
NoError(objects) == \A o \in objects : o.kind # "error"

\* Such a set is none.
LEMMA NoErrorIsNotBroken ==
  ASSUME NEW objects, NoError(objects) PROVE objects # Broken
<1> DEFINE e == Object("error", NULL, NULL, <<>>)
<1>1. e.kind = "error"
  BY DEF Object
<1>2. e \in Broken
  BY DEF Broken
<1> HIDE DEF e
<1> QED
  BY <1>1, <1>2 DEF NoError

\* What the statements do where they apply.
LEMMA CreateApplies ==
  ASSUME NEW objects, NEW new, NEW table_rows, NoError(objects),
         \A a \in new, b \in objects : ~Clash(a, b), \A a \in new : Satisfy(table_rows, a)
  PROVE  Executed(objects, Create(new), table_rows) = objects \cup new
<1>1. objects # Broken
  BY NoErrorIsNotBroken
<1>2. Create(new).op = "create" /\ Create(new).objects = new
  BY DEF Create
<1> HIDE DEF Create
<1> QED
  BY <1>1, <1>2 DEF Executed

\* A constraint that the rows do not keep cannot be created.
LEMMA CreateFails ==
  ASSUME NEW objects, NEW new, NEW table_rows, NEW a \in new, ~Satisfy(table_rows, a)
  PROVE  Executed(objects, Create(new), table_rows) = Broken
<1>1. Create(new).op = "create" /\ Create(new).objects = new
  BY DEF Create
<1> QED
  BY <1>1 DEF Executed

\* After a failure no statement succeeds.
LEMMA BrokenStays ==
  ASSUME NEW s, NEW table_rows PROVE Executed(Broken, s, table_rows) = Broken
BY DEF Executed

------------------------------------------------------------------------------
(***************************************************************************)
(* The schema of each revision, in closed form.                            *)
(***************************************************************************)

JobsBase == Columns("jobs", JobColumns) \cup {Check("jobs", "ck_jobs_status")}

KeyAt(r) == IF r < KeysPerQueue THEN KeyPerTable ELSE KeyPerQueue

ClaimsAt(r) == IF r < 4 THEN ByStatus ELSE IF r < 6 THEN ByPriority ELSE ForClaims

Attempts == JobAttemptsTable \cup {ByWorker, ByStart}

Workers == WorkersTable \cup {ByHeartbeat, ByJob}

DeadLettered == Object("column", "jobs", "dead_lettered_at", <<>>)

SchemaAt(r) ==
  IF r = 0 THEN {}
  ELSE JobsBase \cup {ByLease, KeyAt(r), ClaimsAt(r)}
       \cup (IF r < 2 THEN {} ELSE Attempts) \cup (IF r < 3 THEN {} ELSE Workers)
       \cup (IF r < 7 THEN {} ELSE {DeadLettered})

\* What the part of jobs that never changes is made of.
LEMMA JobsBaseParts ==
  \A o \in JobsBase :
    \/ o.kind = "column" /\ o.table = "jobs" /\ o.name \in JobColumns
    \/ o.kind = "check" /\ o.table = "jobs" /\ o.name = "ck_jobs_status"
BY DEF JobsBase, Columns, Check, Object

\* What the table of attempts is made of.
LEMMA AttemptsParts ==
  \A o \in JobAttemptsTable :
    /\ o.table = "job_attempts" /\ o.kind \in {"column", "check", "foreign_key", "unique"}
    /\ o.kind = "foreign_key" => o.on[1] = "jobs"
    /\ o.name # "ix_job_attempts_worker_id" /\ o.name # "ix_job_attempts_status_started_at"
BY DEF JobAttemptsTable, Columns, Check, Refers, Unique, Object

\* What the table of workers is made of.
LEMMA WorkersParts ==
  \A o \in WorkersTable :
    /\ o.table = "workers" /\ o.kind \in {"column", "check", "foreign_key", "unique"}
    /\ o.kind = "foreign_key" => o.on[1] = "jobs"
    /\ o.name # "ix_workers_status_last_heartbeat_at" /\ o.name # "ix_workers_current_job_id"
<1> DEFINE columns == {"id", "worker_name", "hostname", "queues", "status",
                       "last_heartbeat_at", "started_at", "current_job_id"}
<1>1. AutoName("workers", "worker_name") = "workers_worker_name_key"
  BY DEF AutoName
<1>2. \A o \in Columns("workers", columns) :
        /\ o.table = "workers" /\ o.kind = "column" /\ o.name \in columns
  BY DEF Columns, Object
<1>3. /\ Check("workers", "ck_workers_status").table = "workers"
      /\ Check("workers", "ck_workers_status").kind = "check"
      /\ Check("workers", "ck_workers_status").name = "ck_workers_status"
  BY DEF Check, Object
<1> DEFINE fk == Refers("workers", "current_job_id", "jobs", "SET NULL")
<1>4. /\ fk.table = "workers" /\ fk.kind = "foreign_key" /\ fk.name = "current_job_id"
      /\ fk.on[1] = "jobs"
  BY DEF Refers, Object
<1> DEFINE u == Unique("workers", AutoName("workers", "worker_name"), <<"worker_name">>)
<1>5. u.table = "workers" /\ u.kind = "unique" /\ u.name = "workers_worker_name_key"
  BY <1>1 DEF Unique, Object
<1>6. WorkersTable = Columns("workers", columns)
                     \cup {Check("workers", "ck_workers_status"), fk, u}
  BY DEF WorkersTable
<1> HIDE DEF fk, u
<1> QED
  BY <1>2, <1>3, <1>4, <1>5, <1>6

\* A name that no object of a table has.
Free(objects, o) == \A p \in objects : p.table # o.table \/ p.name # o.name

\* Free, part by part.
LEMMA FreeOfUnion ==
  \A a, b, o : Free(a \cup b, o) <=> Free(a, o) /\ Free(b, o)
BY DEF Free

\* An object whose name is free can be added.
LEMMA Adds ==
  ASSUME NEW S, NEW o, NEW table_rows, NoError(S), Free(S, o), Satisfy(table_rows, o)
  PROVE  Executed(S, Create({o}), table_rows) = S \cup {o}
BY CreateApplies DEF Clash, Free

\* An object that is there can be dropped.
LEMMA Drops ==
  ASSUME NEW S, NEW o, NEW table_rows, NoError(S \cup {o}), Free(S, o),
         o.kind # "foreign_key"
  PROVE  Executed(S \cup {o}, Drop(o.table, o.name), table_rows) = S
<1> DEFINE s == Drop(o.table, o.name)
           objects == S \cup {o}
           gone == {p \in objects : p.table = s.table /\ p.name = s.name
                                                      /\ p.kind # "foreign_key"}
<1>1. objects # Broken
  BY NoErrorIsNotBroken
<1>2. s.op = "drop" /\ s.table = o.table /\ s.name = o.name
  BY DEF Drop
<1>3. gone = {o}
  BY <1>2 DEF Free
<1>4. objects \ gone = S
  BY <1>3 DEF Free
<1>5. Executed(objects, s, table_rows) = IF gone = {} THEN Broken ELSE objects \ gone
  BY <1>1, <1>2 DEF Executed
<1> QED
  BY <1>3, <1>4, <1>5

\* A revision that replaces one object by another.
LEMMA Replaces ==
  ASSUME NEW S, NEW a, NEW b, NEW table_rows, NoError(S \cup {a, b}),
         Free(S, a), Free(S, b), a.kind # "foreign_key", Satisfy(table_rows, b)
  PROVE  Result(S \cup {a}, <<Drop(a.table, a.name), Create({b})>>, table_rows) = S \cup {b}
<1>1. NoError(S) /\ NoError(S \cup {a})
  BY DEF NoError
<1>2. Executed(S \cup {a}, Drop(a.table, a.name), table_rows) = S
  BY <1>1, Drops
<1>3. Executed(S, Create({b}), table_rows) = S \cup {b}
  BY <1>1, Adds
<1> QED
  BY <1>2, <1>3, TwoStatements

\* Only a unique constraint of jobs asks anything of the rows.
LEMMA OthersSatisfied ==
  ASSUME NEW table_rows, NEW o, o.kind # "unique" \/ o.table # "jobs"
  PROVE  Satisfy(table_rows, o)
BY DEF Satisfy

\* T is a table that S does not have nor refer to, and a and b are indexes of it.
NewTable(S, T, a, b, table) ==
  /\ NoError(S \cup T \cup {a, b})
  /\ \A o \in T : o.table = table
  /\ \A o \in S : o.table # table
  /\ Free(S \cup T, a) /\ Free(S \cup T \cup {a}, b)
  /\ a.kind = "index" /\ b.kind = "index"
  /\ \A o \in S \cup T : o.kind = "foreign_key" => o.on[1] # table

\* A revision that creates a table T with two indexes, and its downgrade.
LEMMA CreatesTable ==
  ASSUME NEW S, NEW T, NEW a, NEW b, NEW table, NEW table_rows,
         NewTable(S, T, a, b, table), \A o \in T : Satisfy(table_rows, o)
  PROVE  Result(S, <<Create(T), Create({a}), Create({b})>>, table_rows) = S \cup T \cup {a, b}
<1> USE DEF NewTable
<1>0. Satisfy(table_rows, a) /\ Satisfy(table_rows, b)
  BY OthersSatisfied
<1>1. NoError(S) /\ NoError(S \cup T) /\ NoError(S \cup T \cup {a})
  BY DEF NoError
<1>2. Executed(S, Create(T), table_rows) = S \cup T
  BY <1>1, CreateApplies DEF Clash
<1>3. Executed(S \cup T, Create({a}), table_rows) = S \cup T \cup {a}
  BY <1>0, <1>1, Adds
<1>4. Executed(S \cup T \cup {a}, Create({b}), table_rows) = S \cup T \cup {a} \cup {b}
  BY <1>0, <1>1, Adds
<1>5. S \cup T \cup {a} \cup {b} = S \cup T \cup {a, b}
  OBVIOUS
<1> DEFINE s == Create(T)
           t == Create({a})
           u == Create({b})
           after1 == S \cup T
           after2 == S \cup T \cup {a}
           after3 == S \cup T \cup {a, b}
<1>6. /\ Executed(S, s, table_rows) = after1 /\ Executed(after1, t, table_rows) = after2
      /\ Executed(after2, u, table_rows) = after3
  BY <1>2, <1>3, <1>4, <1>5
<1> HIDE DEF s, t, u, after1, after2, after3
<1>7. Result(S, <<s, t, u>>, table_rows) = after3
  BY <1>6, ThreeStatements
<1> QED
  BY <1>7 DEF s, t, u, after3

\* Such a table can be dropped with its indexes.
LEMMA DropsTable ==
  ASSUME NEW S, NEW T, NEW a, NEW b, NEW table, NEW table_rows, NewTable(S, T, a, b, table)
  PROVE  Result(S \cup T \cup {a, b},
                <<Drop(b.table, b.name), Drop(a.table, a.name), DropTable(table)>>,
                table_rows) = S
<1> USE DEF NewTable
<1>1. NoError(S \cup T) /\ NoError(S \cup T \cup {a}) /\ NoError(S \cup T \cup {a} \cup {b})
  BY DEF NoError
<1>2. S \cup T \cup {a} \cup {b} = S \cup T \cup {a, b}
  OBVIOUS
<1>3. Executed(S \cup T \cup {a} \cup {b}, Drop(b.table, b.name), table_rows)
        = S \cup T \cup {a}
  BY <1>1, Drops
<1>4. Executed(S \cup T \cup {a}, Drop(a.table, a.name), table_rows) = S \cup T
  BY <1>1, Drops
<1>5. Executed(S \cup T, DropTable(table), table_rows) = S
  <2> DEFINE v == DropTable(table)
             objects == S \cup T
  <2>1. objects # Broken
    BY <1>1, NoErrorIsNotBroken
  <2>2. v.op = "drop_table" /\ v.table = table
    BY DEF DropTable
  <2>3. {o \in objects : o.table # v.table} = S
    BY <2>2
  <2>4. ~\E o \in objects : o.kind = "foreign_key" /\ o.on[1] = v.table
    BY <2>2
  <2> QED
    BY <2>1, <2>2, <2>3, <2>4 DEF Executed
<1> DEFINE s == Drop(b.table, b.name)
           t == Drop(a.table, a.name)
           u == DropTable(table)
           before3 == S \cup T
           before2 == S \cup T \cup {a}
           before1 == S \cup T \cup {a, b}
           end == S
<1>6. /\ Executed(before1, s, table_rows) = before2
      /\ Executed(before2, t, table_rows) = before3
      /\ Executed(before3, u, table_rows) = end
  BY <1>2, <1>3, <1>4, <1>5
<1> HIDE DEF s, t, u, before1, before2, before3, end
<1>7. Result(before1, <<s, t, u>>, table_rows) = end
  BY <1>6, ThreeStatements
<1> QED
  BY <1>7 DEF s, t, u, before1, end

\* The objects that come and go one by one.
LEMMA ObjectFields ==
  /\ KeyPerTable.table = "jobs" /\ KeyPerTable.kind = "unique"
  /\ KeyPerTable.name = "jobs_idempotency_key_key" /\ KeyPerTable.on = <<"idempotency_key">>
  /\ KeyPerQueue.table = "jobs" /\ KeyPerQueue.kind = "unique"
  /\ KeyPerQueue.name = "uq_jobs_queue_idempotency_key"
  /\ KeyPerQueue.on = <<"queue", "idempotency_key">>
  /\ \A o \in {ByStatus, ByPriority, ForClaims, ByLease} : o.table = "jobs" /\ o.kind = "index"
  /\ ByStatus.name = "ix_jobs_queue_status_next_run_at"
  /\ ByPriority.name = ClaimIndex /\ ForClaims.name = ClaimIndex
  /\ ClaimIndex = "ix_jobs_queue_status_priority_next_run_at"
  /\ ByLease.name = "ix_jobs_status_lease_expires_at"
  /\ DeadLettered.table = "jobs" /\ DeadLettered.kind = "column"
  /\ DeadLettered.name = "dead_lettered_at"
  /\ \A o \in {ByWorker, ByStart} : o.table = "job_attempts" /\ o.kind = "index"
  /\ ByWorker.name = "ix_job_attempts_worker_id"
  /\ ByStart.name = "ix_job_attempts_status_started_at"
  /\ \A o \in {ByHeartbeat, ByJob} : o.table = "workers" /\ o.kind = "index"
  /\ ByHeartbeat.name = "ix_workers_status_last_heartbeat_at"
  /\ ByJob.name = "ix_workers_current_job_id"
<1>1. AutoName("jobs", "idempotency_key") = "jobs_idempotency_key_key"
  BY DEF AutoName
<1> QED
  BY <1>1 DEF KeyPerTable, KeyPerQueue, ByStatus, ByPriority, ForClaims, ByLease, ClaimIndex,
              DeadLettered, ByWorker, ByStart, ByHeartbeat, ByJob, Unique, Index, Object

\* The objects of jobs that revisions replace.
Replaceable == {KeyPerTable, KeyPerQueue, ByStatus, ByPriority, ForClaims, ByLease, DeadLettered}

\* None of them clashes with the parts of the tables that every revision keeps.
LEMMA ReplaceableIsFree ==
  \A o \in Replaceable : Free(JobsBase, o) /\ Free(Attempts, o) /\ Free(Workers, o)
<1>1. \A o \in Replaceable : o.table = "jobs" /\ o.name \notin JobColumns \cup {"ck_jobs_status"}
  BY ObjectFields DEF Replaceable, JobColumns
<1>2. \A p \in Attempts \cup Workers : p.table # "jobs"
  BY AttemptsParts, WorkersParts, ObjectFields DEF Attempts, Workers
<1> QED
  BY <1>1, <1>2, JobsBaseParts DEF Free

\* No part of a schema is a failure.
LEMMA PartsHaveNoError ==
  NoError(JobsBase) /\ NoError(Attempts) /\ NoError(Workers) /\ NoError(Replaceable)
<1>1. NoError(JobsBase)
  BY JobsBaseParts DEF NoError
<1>2. NoError(Attempts)
  BY AttemptsParts, ObjectFields DEF NoError, Attempts
<1>3. NoError(Workers)
  BY WorkersParts, ObjectFields DEF NoError, Workers
<1>4. NoError(Replaceable)
  BY ObjectFields DEF NoError, Replaceable
<1> QED
  BY <1>1, <1>2, <1>3, <1>4

\* The schema of a revision is never taken for a failure.
LEMMA SchemaIsNotBroken ==
  ASSUME NEW r \in 0..7 PROVE NoError(SchemaAt(r)) /\ SchemaAt(r) # Broken
<1>1. KeyAt(r) \in Replaceable /\ ClaimsAt(r) \in Replaceable /\ ByLease \in Replaceable
      /\ DeadLettered \in Replaceable
  BY DEF KeyAt, ClaimsAt, Replaceable
<1>2. NoError(SchemaAt(r))
  BY <1>1, PartsHaveNoError DEF NoError, SchemaAt
<1> QED
  BY <1>2, NoErrorIsNotBroken

\* What the constraints ask of the rows.
PerTable == <<"idempotency_key">>

PerQueue == <<"queue", "idempotency_key">>

\* The two constraints on keys ask that no two rows share one.
LEMMA KeysSatisfied ==
  ASSUME NEW table_rows
  PROVE  /\ Satisfy(table_rows, KeyPerTable) <=> ~Shared(table_rows, PerTable)
         /\ Satisfy(table_rows, KeyPerQueue) <=> ~Shared(table_rows, PerQueue)
BY ObjectFields DEF Satisfy, PerTable, PerQueue

\* A key that is unique in the table is unique in each queue.
LEMMA PerTableIsStronger ==
  ASSUME NEW table_rows, Shared(table_rows, PerQueue)
  PROVE  Shared(table_rows, PerTable)
<1>1. "queue" \notin ToSet(PerTable)
  BY DEF ToSet, PerTable
<1> QED
  BY <1>1 DEF Shared

\* An empty table keeps every constraint.
LEMMA NoRowsShareNothing == \A on : ~Shared(NoRows, on)
BY DEF Shared, NoRows

\* The statements of the revisions.
LEMMA Scripts ==
  /\ Chain[1].upgrade = <<Create(JobsTable), Create({ByStatus}), Create({ByLease})>>
  /\ Chain[1].downgrade =
       <<Drop("jobs", ByLease.name), Drop("jobs", ByStatus.name), DropTable("jobs")>>
  /\ Chain[2].upgrade = <<Create(JobAttemptsTable), Create({ByWorker}), Create({ByStart})>>
  /\ Chain[2].downgrade =
       <<Drop("job_attempts", ByStart.name), Drop("job_attempts", ByWorker.name),
         DropTable("job_attempts")>>
  /\ Chain[3].upgrade = <<Create(WorkersTable), Create({ByHeartbeat}), Create({ByJob})>>
  /\ Chain[3].downgrade =
       <<Drop("workers", ByJob.name), Drop("workers", ByHeartbeat.name), DropTable("workers")>>
  /\ Chain[4].upgrade = <<Drop("jobs", ByStatus.name), Create({ByPriority})>>
  /\ Chain[4].downgrade = <<Drop("jobs", ClaimIndex), Create({ByStatus})>>
  /\ Chain[5].upgrade = <<Drop("jobs", KeyPerTable.name), Create({KeyPerQueue})>>
  /\ Chain[5].downgrade = <<Drop("jobs", KeyPerQueue.name), Create({KeyPerTable})>>
  /\ Chain[6].upgrade = <<Drop("jobs", ClaimIndex), Create({ForClaims})>>
  /\ Chain[6].downgrade = <<Drop("jobs", ClaimIndex), Create({ByPriority})>>
  /\ Chain[7].upgrade = <<Create(Columns("jobs", {"dead_lettered_at"}))>>
  /\ Chain[7].downgrade = <<Drop("jobs", "dead_lettered_at")>>
BY DEF Chain, Revision, CreateJobs, CreateJobAttempts, CreateWorkers, AddPriority, UniquePerQueue,
       IndexForClaims, AddDeadLetteredAt

\* The first schemas, each from the one before.
LEMMA Neighbours ==
  /\ SchemaAt(0) = {}
  /\ SchemaAt(1) = {} \cup JobsTable \cup {ByStatus, ByLease}
  /\ SchemaAt(2) = SchemaAt(1) \cup JobAttemptsTable \cup {ByWorker, ByStart}
  /\ SchemaAt(3) = SchemaAt(2) \cup WorkersTable \cup {ByHeartbeat, ByJob}
<1>1. JobsTable = JobsBase \cup {KeyPerTable}
  BY DEF JobsTable, JobsBase, KeyPerTable
<1> QED
  BY <1>1 DEF SchemaAt, KeyAt, ClaimsAt, KeysPerQueue, Attempts, Workers

\* The parts of the later schemas that a revision leaves alone.
Kept(r) ==
  JobsBase \cup {ByLease} \cup Attempts \cup Workers
  \cup (CASE r = 4 -> {KeyPerTable} [] r = 5 -> {ByPriority}
          [] r = 6 -> {KeyPerQueue} [] r = 7 -> {KeyPerQueue, ForClaims})

\* The later schemas, each as what its revision leaves alone and the rest.
LEMMA LaterNeighbours ==
  /\ SchemaAt(3) = Kept(4) \cup {ByStatus} /\ SchemaAt(4) = Kept(4) \cup {ByPriority}
  /\ SchemaAt(4) = Kept(5) \cup {KeyPerTable} /\ SchemaAt(5) = Kept(5) \cup {KeyPerQueue}
  /\ SchemaAt(5) = Kept(6) \cup {ByPriority} /\ SchemaAt(6) = Kept(6) \cup {ForClaims}
  /\ SchemaAt(6) = Kept(7) /\ SchemaAt(7) = Kept(7) \cup {DeadLettered}
BY DEF SchemaAt, KeyAt, ClaimsAt, KeysPerQueue, Kept

\* What a revision leaves alone has no object of the name that it replaces.
LEMMA KeptIsFree ==
  /\ \A r \in 4..7 : NoError(Kept(r))
  /\ Free(Kept(4), ByStatus) /\ Free(Kept(4), ByPriority)
  /\ Free(Kept(5), KeyPerTable) /\ Free(Kept(5), KeyPerQueue)
  /\ Free(Kept(6), ByPriority) /\ Free(Kept(6), ForClaims)
  /\ Free(Kept(7), DeadLettered)
<1> DEFINE Own(r) == CASE r = 4 -> {KeyPerTable} [] r = 5 -> {ByPriority}
                       [] r = 6 -> {KeyPerQueue} [] r = 7 -> {KeyPerQueue, ForClaims}
<1>1. \A r \in 4..7 : Own(r) \subseteq Replaceable /\ ByLease \in Replaceable
  BY DEF Replaceable
<1>2. \A r : Kept(r) = JobsBase \cup {ByLease} \cup Attempts \cup Workers \cup Own(r)
  BY DEF Kept
<1>3. \A r \in 4..7 : NoError(Kept(r))
  BY <1>1, <1>2, PartsHaveNoError DEF NoError
<1>4. \A o \in Replaceable : Free(JobsBase \cup Attempts \cup Workers, o)
  BY ReplaceableIsFree, FreeOfUnion
<1>5. /\ \A o \in Replaceable : o # ByLease => Free({ByLease}, o)
      /\ ByStatus # ByLease /\ ByPriority # ByLease /\ ForClaims # ByLease
      /\ KeyPerTable # ByLease /\ KeyPerQueue # ByLease /\ DeadLettered # ByLease
  BY ObjectFields DEF Free, Replaceable
<1>6. \A r : \A o \in Replaceable \ {ByLease} : Free(Kept(r), o) <=> Free(Own(r), o)
  <2> SUFFICES ASSUME NEW r, NEW o \in Replaceable \ {ByLease}
               PROVE  Free(Kept(r), o) <=> Free(Own(r), o)
    OBVIOUS
  <2>1. Free(JobsBase \cup Attempts \cup Workers, o) /\ Free({ByLease}, o)
    BY <1>4, <1>5
  <2> QED
    BY <1>2, <2>1 DEF Free
<1>7. /\ Free(Own(4), ByStatus) /\ Free(Own(4), ByPriority)
      /\ Free(Own(5), KeyPerTable) /\ Free(Own(5), KeyPerQueue)
      /\ Free(Own(6), ByPriority) /\ Free(Own(6), ForClaims)
      /\ Free(Own(7), DeadLettered)
  BY ObjectFields DEF Free
<1> HIDE DEF Own
<1>8. {ByStatus, ByPriority, ForClaims, KeyPerTable, KeyPerQueue, DeadLettered}
        \subseteq Replaceable
  BY DEF Replaceable
<1> QED
  BY <1>3, <1>5, <1>6, <1>7, <1>8

\* The revisions that replace an index or a constraint, both ways.
LEMMA ReplacingRevisions ==
  ASSUME NEW table_rows
  PROVE  /\ Result(SchemaAt(3), Chain[4].upgrade, table_rows) = SchemaAt(4)
         /\ Result(SchemaAt(4), Chain[4].downgrade, table_rows) = SchemaAt(3)
         /\ ~Shared(table_rows, PerQueue) =>
              Result(SchemaAt(4), Chain[5].upgrade, table_rows) = SchemaAt(5)
         /\ ~Shared(table_rows, PerTable) =>
              Result(SchemaAt(5), Chain[5].downgrade, table_rows) = SchemaAt(4)
         /\ Result(SchemaAt(5), Chain[6].upgrade, table_rows) = SchemaAt(6)
         /\ Result(SchemaAt(6), Chain[6].downgrade, table_rows) = SchemaAt(5)
<1>1. ASSUME NEW r \in 4..6, NEW a \in Replaceable, NEW b \in Replaceable,
             Free(Kept(r), a), Free(Kept(r), b), Satisfy(table_rows, b)
      PROVE  Result(Kept(r) \cup {a}, <<Drop("jobs", a.name), Create({b})>>, table_rows)
               = Kept(r) \cup {b}
  <2>1. NoError(Kept(r) \cup {a, b})
    BY KeptIsFree, PartsHaveNoError DEF NoError
  <2>2. a.table = "jobs" /\ a.kind # "foreign_key"
    BY ObjectFields DEF Replaceable
  <2> DEFINE S == Kept(r)
  <2> HIDE DEF S
  <2>3. Result(S \cup {a}, <<Drop(a.table, a.name), Create({b})>>, table_rows) = S \cup {b}
    BY <1>1, <2>1, <2>2, Replaces DEF S
  <2> QED
    BY <2>2, <2>3 DEF S
<1>2. {ByStatus, ByPriority, ForClaims, KeyPerTable, KeyPerQueue} \subseteq Replaceable
  BY DEF Replaceable
<1>3. /\ Satisfy(table_rows, ByStatus) /\ Satisfy(table_rows, ByPriority)
      /\ Satisfy(table_rows, ForClaims)
  BY ObjectFields, OthersSatisfied
<1>4. Result(SchemaAt(3), Chain[4].upgrade, table_rows) = SchemaAt(4)
  <2>1. Result(Kept(4) \cup {ByStatus}, <<Drop("jobs", ByStatus.name), Create({ByPriority})>>,
                table_rows) = Kept(4) \cup {ByPriority}
    BY <1>1, <1>2, <1>3, KeptIsFree
  <2>2. Chain[4].upgrade = <<Drop("jobs", ByStatus.name), Create({ByPriority})>>
    BY Scripts, ObjectFields
  <2>3. SchemaAt(3) = Kept(4) \cup {ByStatus} /\ SchemaAt(4) = Kept(4) \cup {ByPriority}
    BY LaterNeighbours
  <2> QED
    BY <2>1, <2>2, <2>3
<1>5. Result(SchemaAt(4), Chain[4].downgrade, table_rows) = SchemaAt(3)
  <2>1. Result(Kept(4) \cup {ByPriority}, <<Drop("jobs", ByPriority.name), Create({ByStatus})>>,
                table_rows) = Kept(4) \cup {ByStatus}
    BY <1>1, <1>2, <1>3, KeptIsFree
  <2>2. Chain[4].downgrade = <<Drop("jobs", ByPriority.name), Create({ByStatus})>>
    BY Scripts, ObjectFields
  <2>3. SchemaAt(4) = Kept(4) \cup {ByPriority} /\ SchemaAt(3) = Kept(4) \cup {ByStatus}
    BY LaterNeighbours
  <2> QED
    BY <2>1, <2>2, <2>3
<1>6. ASSUME ~Shared(table_rows, PerQueue)
      PROVE  Result(SchemaAt(4), Chain[5].upgrade, table_rows) = SchemaAt(5)
  <2>1. Result(Kept(5) \cup {KeyPerTable}, <<Drop("jobs", KeyPerTable.name),
                      Create({KeyPerQueue})>>,
                table_rows) = Kept(5) \cup {KeyPerQueue}
    BY <1>1, <1>2, <1>6, KeysSatisfied, KeptIsFree
  <2>2. Chain[5].upgrade = <<Drop("jobs", KeyPerTable.name), Create({KeyPerQueue})>>
    BY Scripts, ObjectFields
  <2>3. SchemaAt(4) = Kept(5) \cup {KeyPerTable} /\ SchemaAt(5) = Kept(5) \cup {KeyPerQueue}
    BY LaterNeighbours
  <2> QED
    BY <2>1, <2>2, <2>3
<1>7. ASSUME ~Shared(table_rows, PerTable)
      PROVE  Result(SchemaAt(5), Chain[5].downgrade, table_rows) = SchemaAt(4)
  <2>1. Result(Kept(5) \cup {KeyPerQueue}, <<Drop("jobs", KeyPerQueue.name),
                      Create({KeyPerTable})>>,
                table_rows) = Kept(5) \cup {KeyPerTable}
    BY <1>1, <1>2, <1>7, KeysSatisfied, KeptIsFree
  <2>2. Chain[5].downgrade = <<Drop("jobs", KeyPerQueue.name), Create({KeyPerTable})>>
    BY Scripts, ObjectFields
  <2>3. SchemaAt(5) = Kept(5) \cup {KeyPerQueue} /\ SchemaAt(4) = Kept(5) \cup {KeyPerTable}
    BY LaterNeighbours
  <2> QED
    BY <2>1, <2>2, <2>3
<1>8. Result(SchemaAt(5), Chain[6].upgrade, table_rows) = SchemaAt(6)
  <2>1. Result(Kept(6) \cup {ByPriority}, <<Drop("jobs", ByPriority.name), Create({ForClaims})>>,
                table_rows) = Kept(6) \cup {ForClaims}
    BY <1>1, <1>2, <1>3, KeptIsFree
  <2>2. Chain[6].upgrade = <<Drop("jobs", ByPriority.name), Create({ForClaims})>>
    BY Scripts, ObjectFields
  <2>3. SchemaAt(5) = Kept(6) \cup {ByPriority} /\ SchemaAt(6) = Kept(6) \cup {ForClaims}
    BY LaterNeighbours
  <2> QED
    BY <2>1, <2>2, <2>3
<1>9. Result(SchemaAt(6), Chain[6].downgrade, table_rows) = SchemaAt(5)
  <2>1. Result(Kept(6) \cup {ForClaims}, <<Drop("jobs", ForClaims.name), Create({ByPriority})>>,
                table_rows) = Kept(6) \cup {ByPriority}
    BY <1>1, <1>2, <1>3, KeptIsFree
  <2>2. Chain[6].downgrade = <<Drop("jobs", ForClaims.name), Create({ByPriority})>>
    BY Scripts, ObjectFields
  <2>3. SchemaAt(6) = Kept(6) \cup {ForClaims} /\ SchemaAt(5) = Kept(6) \cup {ByPriority}
    BY LaterNeighbours
  <2> QED
    BY <2>1, <2>2, <2>3
<1> QED
  BY <1>4, <1>5, <1>6, <1>7, <1>8, <1>9

\* The downgrade that would make a shared key unique in the table fails.
LEMMA SharedKeyFails ==
  ASSUME NEW table_rows, Shared(table_rows, PerTable)
  PROVE  Result(SchemaAt(5), Chain[5].downgrade, table_rows) = Broken
<1> DEFINE S == Kept(5)
<1>1. NoError(S \cup {KeyPerQueue}) /\ Free(S, KeyPerQueue)
  BY KeptIsFree, PartsHaveNoError DEF NoError, Replaceable
<1>2. KeyPerQueue.table = "jobs" /\ KeyPerQueue.kind # "foreign_key"
  BY ObjectFields
<1> HIDE DEF S
<1>3. Executed(S \cup {KeyPerQueue}, Drop("jobs", KeyPerQueue.name), table_rows) = S
  BY <1>1, <1>2, Drops
<1>4. Executed(S, Create({KeyPerTable}), table_rows) = Broken
  BY KeysSatisfied, CreateFails
<1> DEFINE s == Drop("jobs", KeyPerQueue.name)
           t == Create({KeyPerTable})
           before == S \cup {KeyPerQueue}
<1>5. Executed(before, s, table_rows) = S /\ Executed(S, t, table_rows) = Broken
  BY <1>3, <1>4
<1> HIDE DEF s, t, before
<1>6. Result(before, <<s, t>>, table_rows) = Broken
  BY <1>5, TwoStatements
<1>7. before = SchemaAt(5) /\ <<s, t>> = Chain[5].downgrade
  BY LaterNeighbours, Scripts DEF s, t, before, S
<1> QED
  BY <1>6, <1>7

\* The last revision adds a column.
LEMMA ColumnRevision ==
  ASSUME NEW table_rows
  PROVE  /\ Result(SchemaAt(6), Chain[7].upgrade, table_rows) = SchemaAt(7)
         /\ Result(SchemaAt(7), Chain[7].downgrade, table_rows) = SchemaAt(6)
<1> DEFINE S == Kept(7)
<1>1. NoError(S) /\ NoError(S \cup {DeadLettered}) /\ Free(S, DeadLettered)
  BY KeptIsFree, PartsHaveNoError DEF NoError, Replaceable
<1>2. /\ DeadLettered.table = "jobs" /\ DeadLettered.kind # "foreign_key"
      /\ DeadLettered.name = "dead_lettered_at" /\ Satisfy(table_rows, DeadLettered)
  BY ObjectFields, OthersSatisfied
<1>3. Columns("jobs", {"dead_lettered_at"}) = {DeadLettered}
  BY DEF Columns, DeadLettered
<1> HIDE DEF S
<1>4. Executed(S, Create({DeadLettered}), table_rows) = S \cup {DeadLettered}
  BY <1>1, <1>2, Adds
<1>5. Executed(S \cup {DeadLettered}, Drop("jobs", "dead_lettered_at"), table_rows) = S
  BY <1>1, <1>2, Drops
<1> DEFINE up == Create({DeadLettered})
           down == Drop("jobs", "dead_lettered_at")
           after == S \cup {DeadLettered}
<1>6. Executed(S, up, table_rows) = after /\ Executed(after, down, table_rows) = S
  BY <1>4, <1>5
<1>7. Chain[7].upgrade = <<up>> /\ Chain[7].downgrade = <<down>>
  BY <1>3, Scripts
<1>8. S = SchemaAt(6) /\ after = SchemaAt(7)
  BY LaterNeighbours DEF S
<1> HIDE DEF up, down, after
<1>9. Result(S, <<up>>, table_rows) = after
  BY <1>6, OneStatement
<1>10. Result(after, <<down>>, table_rows) = S
  BY <1>6, OneStatement
<1> QED
  BY <1>7, <1>8, <1>9, <1>10

\* The tables of the first three revisions.
LEMMA NewTables ==
  /\ NewTable(SchemaAt(0), JobsTable, ByStatus, ByLease, "jobs")
  /\ NewTable(SchemaAt(1), JobAttemptsTable, ByWorker, ByStart, "job_attempts")
  /\ NewTable(SchemaAt(2), WorkersTable, ByHeartbeat, ByJob, "workers")
<1>1. NoError(SchemaAt(1)) /\ NoError(SchemaAt(2)) /\ NoError(SchemaAt(3))
  BY SchemaIsNotBroken
<1>2. \A o \in JobsBase \cup {KeyPerTable, ByStatus, ByLease} :
        o.table = "jobs" /\ o.kind # "foreign_key"
  BY JobsBaseParts, ObjectFields
<1>3. /\ JobsTable = JobsBase \cup {KeyPerTable}
      /\ SchemaAt(1) = JobsBase \cup {KeyPerTable, ByStatus, ByLease}
  BY DEF JobsTable, JobsBase, KeyPerTable, SchemaAt, KeyAt, ClaimsAt, KeysPerQueue
<1>4. \A o \in SchemaAt(1) : o.table = "jobs" /\ o.kind # "foreign_key"
  BY <1>2, <1>3
<1>5. \A o \in SchemaAt(2) : /\ o.table \in {"jobs", "job_attempts"}
                             /\ o.kind = "foreign_key" => o.on[1] = "jobs"
  BY <1>4, Neighbours, AttemptsParts, ObjectFields
<1>6. NewTable(SchemaAt(0), JobsTable, ByStatus, ByLease, "jobs")
  <2>1. Free(JobsBase, ByStatus) /\ Free(JobsBase, ByLease)
    BY ReplaceableIsFree DEF Replaceable
  <2>2. Free(JobsTable, ByStatus) /\ Free(JobsTable \cup {ByStatus}, ByLease)
    BY <1>3, <2>1, ObjectFields DEF Free
  <2>3. SchemaAt(0) = {} /\ NoError(SchemaAt(0) \cup JobsTable \cup {ByStatus, ByLease})
    BY <1>1, Neighbours
  <2> QED
    BY <1>2, <1>3, <2>2, <2>3, ObjectFields DEF NewTable
<1>7. NewTable(SchemaAt(1), JobAttemptsTable, ByWorker, ByStart, "job_attempts")
  <2>1. /\ Free(SchemaAt(1) \cup JobAttemptsTable, ByWorker)
        /\ Free(SchemaAt(1) \cup JobAttemptsTable \cup {ByWorker}, ByStart)
    BY <1>4, AttemptsParts, ObjectFields DEF Free
  <2>2. NoError(SchemaAt(1) \cup JobAttemptsTable \cup {ByWorker, ByStart})
    BY <1>1, Neighbours
  <2> QED
    BY <1>4, <2>1, <2>2, AttemptsParts, ObjectFields DEF NewTable
<1>8. NewTable(SchemaAt(2), WorkersTable, ByHeartbeat, ByJob, "workers")
  <2>1. /\ Free(SchemaAt(2) \cup WorkersTable, ByHeartbeat)
        /\ Free(SchemaAt(2) \cup WorkersTable \cup {ByHeartbeat}, ByJob)
    BY <1>5, WorkersParts, ObjectFields DEF Free
  <2>2. NoError(SchemaAt(2) \cup WorkersTable \cup {ByHeartbeat, ByJob})
    BY <1>1, Neighbours
  <2> QED
    BY <1>5, <2>1, <2>2, WorkersParts, ObjectFields DEF NewTable
<1> QED
  BY <1>6, <1>7, <1>8

\* The revisions that create a table with two indexes, both ways.
LEMMA TableRevisions ==
  ASSUME NEW table_rows
  PROVE  /\ ~Shared(table_rows, PerTable) =>
              Result(SchemaAt(0), Chain[1].upgrade, table_rows) = SchemaAt(1)
         /\ Result(SchemaAt(1), Chain[1].downgrade, table_rows) = SchemaAt(0)
         /\ Result(SchemaAt(1), Chain[2].upgrade, table_rows) = SchemaAt(2)
         /\ Result(SchemaAt(2), Chain[2].downgrade, table_rows) = SchemaAt(1)
         /\ Result(SchemaAt(2), Chain[3].upgrade, table_rows) = SchemaAt(3)
         /\ Result(SchemaAt(3), Chain[3].downgrade, table_rows) = SchemaAt(2)
<1> DEFINE S0 == SchemaAt(0)
           S1 == SchemaAt(1)
           S2 == SchemaAt(2)
           S3 == SchemaAt(3)
<1>1. /\ S1 = S0 \cup JobsTable \cup {ByStatus, ByLease}
      /\ S2 = S1 \cup JobAttemptsTable \cup {ByWorker, ByStart}
      /\ S3 = S2 \cup WorkersTable \cup {ByHeartbeat, ByJob}
  BY Neighbours
<1>2. /\ NewTable(S0, JobsTable, ByStatus, ByLease, "jobs")
      /\ NewTable(S1, JobAttemptsTable, ByWorker, ByStart, "job_attempts")
      /\ NewTable(S2, WorkersTable, ByHeartbeat, ByJob, "workers")
  BY NewTables
<1> HIDE DEF S0, S1, S2, S3
<1>3. ASSUME ~Shared(table_rows, PerTable)
      PROVE  Result(S0, Chain[1].upgrade, table_rows) = S1
  <2>1. JobsTable = JobsBase \cup {KeyPerTable}
    BY DEF JobsTable, JobsBase, KeyPerTable
  <2>2. \A o \in JobsTable : Satisfy(table_rows, o)
    BY <1>3, <2>1, JobsBaseParts, KeysSatisfied, OthersSatisfied
  <2>3. Result(S0, <<Create(JobsTable), Create({ByStatus}), Create({ByLease})>>, table_rows)
          = S0 \cup JobsTable \cup {ByStatus, ByLease}
    BY <1>2, <2>2, CreatesTable
  <2> QED
    BY <1>1, <2>3, Scripts
<1>4. Result(S1, Chain[1].downgrade, table_rows) = S0
  BY <1>1, <1>2, DropsTable, Scripts, ObjectFields
<1>5. Result(S1, Chain[2].upgrade, table_rows) = S2
  <2>1. \A o \in JobAttemptsTable : Satisfy(table_rows, o)
    BY OthersSatisfied, AttemptsParts
  <2>2. Result(S1, <<Create(JobAttemptsTable), Create({ByWorker}), Create({ByStart})>>,
               table_rows) = S1 \cup JobAttemptsTable \cup {ByWorker, ByStart}
    BY <1>2, <2>1, CreatesTable
  <2> QED
    BY <1>1, <2>2, Scripts
<1>6. Result(S2, Chain[2].downgrade, table_rows) = S1
  BY <1>1, <1>2, DropsTable, Scripts, ObjectFields
<1>7. Result(S2, Chain[3].upgrade, table_rows) = S3
  <2>1. \A o \in WorkersTable : Satisfy(table_rows, o)
    BY OthersSatisfied, WorkersParts
  <2>2. Result(S2, <<Create(WorkersTable), Create({ByHeartbeat}), Create({ByJob})>>,
               table_rows) = S2 \cup WorkersTable \cup {ByHeartbeat, ByJob}
    BY <1>2, <2>1, CreatesTable
  <2> QED
    BY <1>1, <2>2, Scripts
<1>8. Result(S3, Chain[3].downgrade, table_rows) = S2
  BY <1>1, <1>2, DropsTable, Scripts, ObjectFields
<1> QED
  BY <1>3, <1>4, <1>5, <1>6, <1>7, <1>8 DEF S0, S1, S2, S3

------------------------------------------------------------------------------
(***************************************************************************)
(* What commands do, along the whole chain.                                *)
(***************************************************************************)

\* One revision up.
LEMMA UpOne ==
  ASSUME NEW r \in 1..7, NEW table_rows, r = 1 => ~Shared(table_rows, PerTable),
         r = KeysPerQueue => ~Shared(table_rows, PerQueue)
  PROVE  Result(SchemaAt(r - 1), Chain[r].upgrade, table_rows) = SchemaAt(r)
<1>1. r = 1 \/ r = 2 \/ r = 3 \/ r = 4 \/ r = 5 \/ r = 6 \/ r = 7
  OBVIOUS
<1>2. KeysPerQueue = 5
  BY DEF KeysPerQueue
<1> QED
  BY <1>1, <1>2, TableRevisions, ReplacingRevisions, ColumnRevision

\* One revision down.
LEMMA DownOne ==
  ASSUME NEW r \in 1..7, NEW table_rows
  PROVE  Result(SchemaAt(r), Chain[r].downgrade, table_rows)
           = IF r = KeysPerQueue /\ Shared(table_rows, PerTable) THEN Broken
             ELSE SchemaAt(r - 1)
<1>1. r = 1 \/ r = 2 \/ r = 3 \/ r = 4 \/ r = 5 \/ r = 6 \/ r = 7
  OBVIOUS
<1>2. KeysPerQueue = 5
  BY DEF KeysPerQueue
<1> QED
  BY <1>1, <1>2, TableRevisions, ReplacingRevisions, ColumnRevision, SharedKeyFails

\* After a failure nothing succeeds.
LEMMA BrokenScript ==
  ASSUME NEW r \in 1..7, NEW table_rows
  PROVE  Result(Broken, Chain[r].downgrade, table_rows) = Broken
<1> DEFINE script == Chain[r].downgrade
           trace == [i \in 0..Len(script) |-> Broken]
<1>1. Len(script) \in Nat
  <2>1. r = 1 \/ r = 2 \/ r = 3 \/ r = 4 \/ r = 5 \/ r = 6 \/ r = 7
    OBVIOUS
  <2>2. \A s, t, u : Len(<<s>>) = 1 /\ Len(<<s, t>>) = 2 /\ Len(<<s, t, u>>) = 3
    OBVIOUS
  <2> QED
    BY <2>1, <2>2, Scripts
<1> HIDE DEF script
<1>2. trace = [i \in 0..Len(script) |->
                 IF i = 0 THEN Broken ELSE Executed(trace[i - 1], script[i], table_rows)]
  <2>1. ASSUME NEW i \in 0..Len(script), i # 0
        PROVE  Executed(trace[i - 1], script[i], table_rows) = Broken
    <3>1. trace[i - 1] = Broken
      BY <1>1, <2>1
    <3> QED
      BY <3>1, BrokenStays
  <2> QED
    BY <2>1
<1>3. trace[Len(script)] = Broken
  BY <1>1
<1> HIDE DEF trace
<1>4. Result(Broken, script, table_rows) = trace[Len(script)]
  BY <1>1, <1>2, ResultIsTheEnd
<1> QED
  BY <1>3, <1>4 DEF script

\* An upgrade leads to the schema of its revision if the rows have no two equal
\* keys where a constraint is created.
LEMMA Upgraded ==
  ASSUME NEW from \in 0..7, NEW to \in 0..7, from <= to, NEW table_rows,
         from = 0 /\ to > 0 => ~Shared(table_rows, PerTable),
         from < KeysPerQueue /\ to >= KeysPerQueue => ~Shared(table_rows, PerQueue)
  PROVE  Migrated(SchemaAt(from), from, to, table_rows) = SchemaAt(to)
<1> DEFINE n == to - from
           trace == [i \in 0..n |-> SchemaAt(from + i)]
<1>1. Distance(from, to) = n /\ n \in Nat /\ from + n = to /\ from + 0 = from
  BY DEF Distance
<1>2. ASSUME NEW i \in 1..n
      PROVE  Result(trace[i - 1], Script(from, to, i), table_rows) = SchemaAt(from + i)
  <2> DEFINE r == from + i
  <2>1. r \in 1..7 /\ trace[i - 1] = SchemaAt(r - 1)
    OBVIOUS
  <2>2. Script(from, to, i) = Chain[r].upgrade
    BY DEF Script
  <2>3. r = 1 => ~Shared(table_rows, PerTable)
    OBVIOUS
  <2>4. r = KeysPerQueue => ~Shared(table_rows, PerQueue)
    BY DEF KeysPerQueue
  <2> HIDE DEF r, trace
  <2> QED
    BY <2>1, <2>2, <2>3, <2>4, UpOne DEF r
<1>3. trace = [i \in 0..Distance(from, to) |->
                 IF i = 0 THEN SchemaAt(from)
                 ELSE Result(trace[i - 1], Script(from, to, i), table_rows)]
  <2>1. \A i \in 0..n : i = 0 \/ i \in 1..n
    BY <1>1
  <2> QED
    BY <1>1, <1>2, <2>1
<1>4. trace[n] = SchemaAt(to)
  BY <1>1
<1> HIDE DEF trace
<1> QED
  BY <1>1, <1>3, <1>4, MigratedIsTheEnd

\* A downgrade leads to the schema of its revision unless it would make a shared
\* key unique in the table.
LEMMA Downgraded ==
  ASSUME NEW from \in 0..7, NEW to \in 0..7, to < from, NEW table_rows
  PROVE  Migrated(SchemaAt(from), from, to, table_rows)
           = IF to < KeysPerQueue /\ KeysPerQueue <= from /\ Shared(table_rows, PerTable)
             THEN Broken ELSE SchemaAt(to)
<1> DEFINE n == from - to
           Fails(r) == r < KeysPerQueue /\ KeysPerQueue <= from /\ Shared(table_rows, PerTable)
           trace == [i \in 0..n |-> IF Fails(from - i) THEN Broken ELSE SchemaAt(from - i)]
<1>1. Distance(from, to) = n /\ n \in Nat /\ from - n = to /\ from - 0 = from
  BY DEF Distance
<1>2. KeysPerQueue = 5
  BY DEF KeysPerQueue
<1>3. ASSUME NEW i \in 1..n
      PROVE  Result(trace[i - 1], Script(from, to, i), table_rows) = trace[i]
  <2> DEFINE r == from + 1 - i
  <2>1. r \in 1..7 /\ from - (i - 1) = r /\ from - i = r - 1 /\ i - 1 \in 0..n /\ i \in 0..n
    OBVIOUS
  <2>2. /\ trace[i - 1] = IF Fails(r) THEN Broken ELSE SchemaAt(r)
        /\ trace[i] = IF Fails(r - 1) THEN Broken ELSE SchemaAt(r - 1)
    BY <2>1
  <2>3. Script(from, to, i) = Chain[r].downgrade
    BY DEF Script
  <2> HIDE DEF trace
  <2>4. CASE Fails(r)
    <3>1. Fails(r - 1)
      BY <1>2, <2>1, <2>4
    <3> HIDE DEF r, Fails
    <3> QED
      BY <2>1, <2>2, <2>3, <2>4, <3>1, BrokenScript
  <2>5. CASE ~Fails(r)
    <3>1. Fails(r - 1) <=> r = KeysPerQueue /\ Shared(table_rows, PerTable)
      BY <1>2, <2>1, <2>5
    <3> HIDE DEF r, Fails
    <3>2. trace[i - 1] = SchemaAt(r)
      BY <2>2, <2>5
    <3> QED
      BY <2>1, <2>2, <2>3, <3>1, <3>2, DownOne
  <2> QED
    BY <2>4, <2>5
<1>4. trace = [i \in 0..Distance(from, to) |->
                 IF i = 0 THEN SchemaAt(from)
                 ELSE Result(trace[i - 1], Script(from, to, i), table_rows)]
  <2>1. \A i \in 0..n : i = 0 \/ i \in 1..n
    BY <1>1
  <2>2. trace[0] = SchemaAt(from)
    BY <1>1, <1>2
  <2> QED
    BY <1>1, <1>3, <2>1, <2>2
<1>5. trace[n] = IF Fails(to) THEN Broken ELSE SchemaAt(to)
  BY <1>1
<1> HIDE DEF trace
<1> QED
  BY <1>1, <1>4, <1>5, MigratedIsTheEnd

------------------------------------------------------------------------------
(***************************************************************************)
(* The invariant.                                                          *)
(***************************************************************************)

Row == [queue : Queue, key : Key \cup {NULL}]

Command == [from : 0..7, to : 0..7]

\* The rows keep the constraints of the schema, which is that of the revision.
MigrationInv ==
  /\ revision \in 0..7
  /\ rows \in [RowId -> Row \cup {NULL}]
  /\ command \in [Migrator -> Command \cup {NULL}]
  /\ schema = SchemaAt(revision)
  /\ \A o \in schema : Satisfy(rows, o)
  /\ revision = 0 => rows = NoRows

\* What the rows may not share at a revision.
LEMMA RowsOfARevision ==
  ASSUME NEW r \in 1..7, NEW table_rows
  PROVE  (\A o \in SchemaAt(r) : Satisfy(table_rows, o))
           <=> ~Shared(table_rows, IF r < KeysPerQueue THEN PerTable ELSE PerQueue)
<1>1. KeyAt(r) \in SchemaAt(r)
  BY DEF SchemaAt
<1>2. \A o \in SchemaAt(r) : o = KeyAt(r) \/ Satisfy(table_rows, o)
  <2>1. \A o \in JobsBase \cup Attempts \cup Workers \cup {ByLease, ClaimsAt(r), DeadLettered} :
          o.kind # "unique" \/ o.table # "jobs"
    BY JobsBaseParts, AttemptsParts, WorkersParts, ObjectFields DEF Attempts, Workers, ClaimsAt
  <2>2. \A o \in SchemaAt(r) :
          o \in JobsBase \cup Attempts \cup Workers \cup {ByLease, ClaimsAt(r), DeadLettered}
            \/ o = KeyAt(r)
    BY DEF SchemaAt
  <2> QED
    BY <2>1, <2>2, OthersSatisfied
<1> QED
  BY <1>1, <1>2, KeysSatisfied DEF KeyAt

\* A command from the current revision: it leads to the schema of its revision,
\* or fails as CommandsApply says.
LEMMA CommandLeads ==
  ASSUME MigrationInv, NEW to \in 0..7
  PROVE  Migrated(schema, revision, to, rows)
           = IF to < KeysPerQueue /\ KeysPerQueue <= revision /\ Shared(rows, PerTable)
             THEN Broken ELSE SchemaAt(to)
<1> USE DEF MigrationInv
<1>1. KeysPerQueue = 5
  BY DEF KeysPerQueue
<1>2. CASE to < revision
  BY <1>2, Downgraded
<1>3. CASE revision <= to
  <2>1. revision = 0 => ~Shared(rows, PerTable) /\ ~Shared(rows, PerQueue)
    BY NoRowsShareNothing
  <2>2. revision \in 1..7 /\ revision < KeysPerQueue => ~Shared(rows, PerQueue)
    BY <1>1, RowsOfARevision, PerTableIsStronger
  <2>3. revision < KeysPerQueue => ~Shared(rows, PerQueue)
    BY <2>1, <2>2
  <2>4. Migrated(SchemaAt(revision), revision, to, rows) = SchemaAt(to)
    BY <1>3, <2>1, <2>3, Upgraded
  <2> QED
    BY <1>1, <1>3, <2>4
<1> QED
  BY <1>2, <1>3

\* The rows that a command finds are allowed where it leads.
LEMMA RowsSurvive ==
  ASSUME MigrationInv, NEW to \in 1..7,
         ~(to < KeysPerQueue /\ KeysPerQueue <= revision /\ Shared(rows, PerTable))
  PROVE  \A o \in SchemaAt(to) : Satisfy(rows, o)
<1>1. KeysPerQueue = 5
  BY DEF KeysPerQueue
<1>2. CASE revision = 0
  BY <1>2, NoRowsShareNothing, RowsOfARevision DEF MigrationInv
<1>3. CASE revision \in 1..7
  <2>1. ~Shared(rows, IF revision < KeysPerQueue THEN PerTable ELSE PerQueue)
    BY <1>3, RowsOfARevision DEF MigrationInv
  <2>2. ~Shared(rows, IF to < KeysPerQueue THEN PerTable ELSE PerQueue)
    BY <1>1, <1>3, <2>1, PerTableIsStronger
  <2> QED
    BY <2>2, RowsOfARevision
<1> QED
  BY <1>2, <1>3 DEF MigrationInv

\* Every step keeps the invariant.
LEMMA MigrationStep ==
  ASSUME MigrationInv, [Next]_vars
  PROVE  MigrationInv'
<1> USE DEF MigrationInv
<1>1. ASSUME NEW m \in Migrator, NEW to \in 0..HeadRevision, Plan(m, to)
      PROVE  MigrationInv'
  <2>1. HeadRevision = 7
    BY DEF HeadRevision, Chain
  <2> QED
    BY <1>1, <2>1 DEF Plan, Command
<1>2. ASSUME NEW m \in Migrator, Run(m) PROVE MigrationInv'
  <2> DEFINE c == command[m]
             r == Migrated(schema, c.from, c.to, rows)
  <2>1. c \in Command /\ c # NULL /\ command' = [command EXCEPT ![m] = NULL]
    BY <1>2 DEF Run
  <2>2. command' \in [Migrator -> Command \cup {NULL}] /\ c.to \in 0..7
    BY <2>1 DEF Command
  <2>3. CASE c.from = revision /\ r # Broken
    <3>1. /\ revision' = c.to /\ schema' = r
          /\ rows' = IF c.to = 0 THEN NoRows ELSE rows
      BY <1>2, <2>3 DEF Run
    <3>2. r = Migrated(schema, revision, c.to, rows)
      BY <2>3
    <3>3. r = SchemaAt(c.to)
      BY <2>2, <2>3, <3>2, CommandLeads
    <3>4. NoRows \in [RowId -> Row \cup {NULL}]
      BY DEF NoRows
    <3>5. CASE c.to = 0
      BY <2>2, <3>1, <3>3, <3>4, <3>5 DEF SchemaAt
    <3>6. CASE c.to \in 1..7
      <4>1. \A o \in SchemaAt(c.to) : Satisfy(rows, o)
        BY <2>2, <2>3, <3>2, <3>6, CommandLeads, RowsSurvive
      <4> QED
        BY <2>2, <3>1, <3>3, <3>6, <4>1
    <3> QED
      BY <2>2, <3>5, <3>6
  <2>4. CASE ~(c.from = revision /\ r # Broken)
    <3>1. UNCHANGED <<revision, schema, rows>>
      BY <1>2, <2>4 DEF Run
    <3> QED
      BY <2>2, <3>1
  <2> QED
    BY <2>3, <2>4
<1>3. ASSUME NEW i \in RowId, DeleteRow(i) PROVE MigrationInv'
  <2>1. rows' = [rows EXCEPT ![i] = NULL] /\ UNCHANGED <<revision, schema, command>>
    BY <1>3 DEF DeleteRow
  <2>2. \A on : Shared(rows', on) => Shared(rows, on)
    BY <2>1 DEF Shared
  <2>3. \A o \in schema : Satisfy(rows', o)
    BY <2>2 DEF Satisfy
  <2>4. revision = 0 => rows' = NoRows
    BY <2>1 DEF NoRows
  <2> QED
    BY <2>1, <2>3, <2>4
<1>4. ASSUME NEW i \in RowId, NEW q \in Queue, NEW k \in Key \cup {NULL}, InsertRow(i, q, k)
      PROVE  MigrationInv'
  <2>1. /\ revision > 0 /\ rows' = [rows EXCEPT ![i] = [queue |-> q, key |-> k]]
        /\ \A o \in schema : Satisfy(rows', o)
        /\ UNCHANGED <<revision, schema, command>>
    BY <1>4 DEF InsertRow
  <2>2. rows' \in [RowId -> Row \cup {NULL}]
    BY <2>1 DEF Row
  <2>3. \A o \in schema' : Satisfy(rows', o)
    BY <2>1
  <2>4. schema' = SchemaAt(revision') /\ revision' # 0
    BY <2>1
  <2> QED
    BY <2>1, <2>2, <2>3, <2>4
<1>5. CASE UNCHANGED vars
  BY <1>5 DEF vars
<1> QED
  BY <1>1, <1>2, <1>3, <1>4, <1>5 DEF Next

\* The invariant holds in every behaviour.
THEOREM MigrationInvariance == Spec => []MigrationInv
<1>1. Init => MigrationInv
  <2> SUFFICES ASSUME Init PROVE MigrationInv
    OBVIOUS
  <2>1. schema = SchemaAt(revision) /\ schema = {}
    BY DEF Init, SchemaAt
  <2> QED
    BY <2>1 DEF Init, MigrationInv, NoRows
<1>2. MigrationInv /\ [Next]_vars => MigrationInv'
  BY MigrationStep
<1> QED
  BY <1>1, <1>2, PTL DEF Spec

\* The schema depends on the revision alone.
THEOREM SchemaFollowsRevision == Spec => []SchemaIsTheRevisions
<1>1. MigrationInv => SchemaIsTheRevisions
  <2> SUFFICES ASSUME MigrationInv PROVE SchemaIsTheRevisions
    OBVIOUS
  <2>1. SchemaAt(0) = {}
    BY Neighbours
  <2>2. Migrated(SchemaAt(0), 0, revision, NoRows) = SchemaAt(revision)
    BY NoRowsShareNothing, Upgraded DEF MigrationInv
  <2> QED
    BY <2>1, <2>2 DEF SchemaIsTheRevisions, MigrationInv
<1> QED
  BY <1>1, MigrationInvariance, PTL

\* At the end of the chain stands what core/models.py declares.
THEOREM ModelsMatchHead == Spec => []HeadIsTheModels
<1>1. SchemaAt(7) = ModelSchema
  <2> DEFINE jobs == JobColumns \cup {"dead_lettered_at"}
             job_attempts == {"id", "job_id", "worker_id", "attempt_number", "started_at",
                              "finished_at", "status", "error_message", "runtime_ms"}
             workers == {"id", "worker_name", "hostname", "queues", "status",
                         "last_heartbeat_at", "started_at", "current_job_id"}
  <2>1. Columns("jobs", jobs) = Columns("jobs", JobColumns) \cup {DeadLettered}
    BY DEF Columns, DeadLettered
  <2>2. ModelColumns = Columns("jobs", jobs) \cup Columns("job_attempts", job_attempts)
                       \cup Columns("workers", workers)
    <3>1. jobs = {"id", "queue", "job_type", "payload_json", "status", "priority",
                  "attempts", "max_retries", "next_run_at", "timeout_seconds",
                  "idempotency_key", "locked_by", "locked_at", "lease_expires_at",
                  "last_error", "created_at", "updated_at", "completed_at", "failed_at",
                  "dead_lettered_at"}
      BY DEF JobColumns
    <3> QED
      BY <3>1 DEF ModelColumns
  <2> HIDE DEF jobs
  <2>3. SchemaAt(7) = Columns("jobs", jobs) \cup {Check("jobs", "ck_jobs_status")}
                      \cup {ByLease, KeyPerQueue, ForClaims} \cup Attempts \cup Workers
    BY <2>1 DEF SchemaAt, KeyAt, ClaimsAt, KeysPerQueue, JobsBase
  <2>4. /\ Attempts = Columns("job_attempts", job_attempts) \cup
               {Check("job_attempts", "ck_job_attempts_status"),
                Refers("job_attempts", "job_id", "jobs", "CASCADE"),
                Unique("job_attempts", "uq_job_attempts_job_id_attempt_number",
                       <<"job_id", "attempt_number">>), ByWorker, ByStart}
        /\ Workers = Columns("workers", workers) \cup
               {Check("workers", "ck_workers_status"),
                Refers("workers", "current_job_id", "jobs", "SET NULL"),
                Unique("workers", AutoName("workers", "worker_name"), <<"worker_name">>),
                ByHeartbeat, ByJob}
    BY DEF Attempts, JobAttemptsTable, Workers, WorkersTable
  <2> HIDE DEF job_attempts, workers
  <2>5. ModelTableArgs =
          {Check("jobs", "ck_jobs_status"), KeyPerQueue, ForClaims, ByLease,
           Check("job_attempts", "ck_job_attempts_status"),
           Unique("job_attempts", "uq_job_attempts_job_id_attempt_number",
                  <<"job_id", "attempt_number">>), ByWorker, ByStart,
           Check("workers", "ck_workers_status"), ByHeartbeat, ByJob}
    BY DEF ModelTableArgs, KeyPerQueue, ForClaims, ClaimIndex, ByLease, ByWorker, ByStart,
           ByHeartbeat, ByJob
  <2> QED
    BY <2>2, <2>3, <2>4, <2>5 DEF ModelSchema
<1>2. MigrationInv => HeadIsTheModels
  <2>1. HeadRevision = 7
    BY DEF HeadRevision, Chain
  <2> QED
    BY <1>1, <2>1 DEF HeadIsTheModels, MigrationInv
<1> QED
  BY <1>2, MigrationInvariance, PTL

\* No upgrade fails, and a downgrade only at a key that queues share.
THEOREM CommandsMostlyApply == Spec => []CommandsApply
<1>1. MigrationInv => CommandsApply
  <2> SUFFICES ASSUME MigrationInv, NEW to \in 0..HeadRevision
               PROVE  Applies(revision, to)
                        \/ (SharedKey /\ to < KeysPerQueue /\ KeysPerQueue <= revision)
    BY DEF CommandsApply
  <2>1. to \in 0..7
    BY DEF HeadRevision, Chain
  <2>2. SchemaAt(to) # Broken
    BY <2>1, SchemaIsNotBroken
  <2> QED
    BY <2>1, <2>2, CommandLeads DEF Applies, SharedKey, PerTable
<1> QED
  BY <1>1, MigrationInvariance, PTL
==============================================================================
