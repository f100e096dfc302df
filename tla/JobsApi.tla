------------------------------- MODULE JobsApi -------------------------------
(***************************************************************************)
(* The requests that write jobs, and the dead letter detail, as their      *)
(* handlers run them (api/jobs.py, api/dead_letter.py): two statements     *)
(* each, with anything between the two, and the reply the client keeps.    *)
(*                                                                         *)
(*  - A handler writes in its first statement and commits; that step is    *)
(*    the action of JobStore.  When the statement finds no row, or the     *)
(*    INSERT a conflict, it looks again to choose its reply, and what it   *)
(*    then sees need not be what refused it.                               *)
(*  - Client holds the clients whose replies are kept, one request each.   *)
(*    Everybody else (more clients, the workers) is Next of JobStore.      *)
(*                                                                         *)
(* A reply is its code, the job it names and the status it shows.  Where a  *)
(* create names no job (409, 500), job stays the one it inserted or whose  *)
(* key it met: history, for the properties.                                *)
(***************************************************************************)
EXTENDS JobStore

CONSTANTS
  Client,
  Ops      \* bound: which of "create", "cancel", "retry", "retry_dead", "delete"
           \* and "detail" a run explores

VARIABLE request   \* request[c]: the request of client c and its reply, or NULL

apiVars == <<vars, request>>

\* code 0: not answered yet.  attempts and history belong to the detail.
Sent(op, j, q, k) ==
  [op |-> op, pc |-> "first", job |-> j, queue |-> q, key |-> k,
   code |-> 0, status |-> NULL, attempts |-> 0, history |-> {}]

At(c, op, place) == request[c] # NULL /\ request[c].op = op /\ request[c].pc = place

Goto(c, place) == request' = [request EXCEPT ![c].pc = place]

Answer(c, code, j, status) ==
  request' = [request EXCEPT ![c] =
                [@ EXCEPT !.pc = "done", !.code = code, !.job = j, !.status = status]]

\* The status a JobResponse shows of a row.
Shown(j) == IF jobs[j].status = "scheduled" /\ jobs[j].next_run_at <= now
            THEN "queued" ELSE jobs[j].status

\* Clients ask for ids they were given; any other id is answered by a 404.
Send(c) ==
  /\ request[c] = NULL
  /\ \/ /\ "create" \in Ops
        /\ \E q \in Queue, k \in Key \cup {NULL} :
             request' = [request EXCEPT ![c] = Sent("create", NULL, q, k)]
     \/ \E op \in Ops \ {"create"}, j \in issued :
          request' = [request EXCEPT ![c] = Sent(op, j, NULL, NULL)]
  /\ UNCHANGED vars

------------------------------------------------------------------------------
(* POST /jobs *)

Keyed(q, k) == {j \in Job : Exists(j) /\ jobs[j].queue = q /\ jobs[j].idempotency_key = k}

InsertJob(c) ==
  /\ At(c, "create", "first")
  /\ \E j \in Job, retries \in MaxRetries, run_at \in RunAt \cup {NULL}, t \in TxNow :
       /\ CreateJob(j, request[c].queue, request[c].key, retries, run_at, t)
       /\ request' = [request EXCEPT ![c].pc = "refresh", ![c].job = j]

InsertConflicts(c) ==
  /\ At(c, "create", "first")
  /\ KeyTaken(request[c].queue, request[c].key)
  /\ \E j \in Keyed(request[c].queue, request[c].key) :
       request' = [request EXCEPT ![c].pc = "lookup", ![c].job = j]
  /\ UNCHANGED vars

\* The row is read again, in a transaction of its own; without it session.refresh raises.
Refresh(c) ==
  LET j == request[c].job
  IN  /\ At(c, "create", "refresh")
      /\ IF Exists(j) THEN Answer(c, 201, j, Shown(j)) ELSE Answer(c, 500, j, NULL)
      /\ UNCHANGED vars

\* Mutant: a job that has ended is taken to have given its key back.
Lookup_NotEnded(c) ==
  LET S == {j \in Keyed(request[c].queue, request[c].key) : ~HasStatus(j, {"cancelled"})}
  IN  /\ At(c, "create", "lookup")
      /\ \/ \E j \in S : Answer(c, 200, j, Shown(j))
         \/ S = {} /\ Answer(c, 409, request[c].job, NULL)
      /\ UNCHANGED vars

Lookup(c) ==
  LET S == Keyed(request[c].queue, request[c].key)
  IN  /\ At(c, "create", "lookup")
      /\ \/ \E j \in S : Answer(c, 200, j, Shown(j))
         \/ S = {} /\ Answer(c, 409, request[c].job, NULL)
      /\ UNCHANGED vars

------------------------------------------------------------------------------
(* POST /jobs/{id}/cancel, /jobs/{id}/retry, /dead-letter/{id}/retry and    *)
(* DELETE /dead-letter/{id} *)

Refused(c) == Goto(c, "read") /\ UNCHANGED vars

Cancel(c) ==
  LET j == request[c].job
  IN  /\ At(c, "cancel", "first")
      /\ IF HasStatus(j, Cancellable)
         THEN CancelJob(j) /\ Answer(c, 200, j, "cancelled")
         ELSE Refused(c)

Retry(c) ==
  LET j == request[c].job
  IN  /\ At(c, "retry", "first")
      /\ IF HasStatus(j, Retryable)
         THEN \E t \in TxNow : RetryJob(j, t) /\ Answer(c, 200, j, "queued")
         ELSE Refused(c)

RetryDeadLetter(c) ==
  LET j == request[c].job
  IN  /\ At(c, "retry_dead", "first")
      /\ IF HasStatus(j, {"dead_letter"})
         THEN \E t \in TxNow : RetryDeadLetterJob(j, t) /\ Answer(c, 200, j, "queued")
         ELSE Refused(c)

\* Mutant: whether the row was there is asked before, and not of the DELETE.
DeleteDeadLetter_ChecksFirst(c) ==
  LET j == request[c].job
  IN  \/ /\ At(c, "delete", "first")
         /\ Goto(c, IF HasStatus(j, {"dead_letter"}) THEN "delete" ELSE "read")
         /\ UNCHANGED vars
      \/ /\ At(c, "delete", "delete")
         /\ IF HasStatus(j, {"dead_letter"}) THEN DeleteDeadLetterJob(j) ELSE UNCHANGED vars
         /\ Answer(c, 204, j, NULL)

DeleteDeadLetter(c) ==
  LET j == request[c].job
  IN  /\ At(c, "delete", "first")
      /\ IF HasStatus(j, {"dead_letter"})
         THEN DeleteDeadLetterJob(j) /\ Answer(c, 204, j, NULL)
         ELSE Refused(c)

\* The dead letter handlers do not name the status they read.
ReadRefused(c) ==
  LET j == request[c].job
  IN  /\ \E op \in {"cancel", "retry", "retry_dead", "delete"} : At(c, op, "read")
      /\ IF Exists(j)
         THEN Answer(c, 409, j, IF request[c].op \in {"cancel", "retry"} THEN jobs[j].status
                                                                         ELSE NULL)
         ELSE Answer(c, 404, NULL, NULL)
      /\ UNCHANGED vars

------------------------------------------------------------------------------
(* GET /dead-letter/{id} *)

ReadDeadLetter(c) ==
  LET j == request[c].job
  IN  /\ At(c, "detail", "first")
      /\ CASE ~Exists(j) -> Answer(c, 404, NULL, NULL)
           [] Exists(j) /\ jobs[j].status # "dead_letter" -> Answer(c, 409, j, NULL)
           [] OTHER ->
                request' = [request EXCEPT ![c].pc = "history", ![c].status = "dead_letter",
                                           ![c].attempts = jobs[j].attempts]
      /\ UNCHANGED vars

\* Mutant: the last attempt is taken for the one in progress.
HistoryOf_Below(j, n) == {a.attempt_number : a \in {b \in job_attempts :
                                               b.job = j /\ b.attempt_number < n}}

HistoryOf(j, n) == {a.attempt_number : a \in {b \in job_attempts : b.job = j}}

ReadHistory(c) ==
  LET r == request[c]
  IN  /\ At(c, "detail", "history")
      /\ request' = [request EXCEPT ![c].pc = "done", ![c].code = 200,
                                    ![c].history = HistoryOf(r.job, r.attempts)]
      /\ UNCHANGED vars

------------------------------------------------------------------------------
RequestsInit == Init /\ request = [c \in Client |-> NULL]

RequestStep(c) ==
  \/ Send(c) \/ InsertJob(c) \/ InsertConflicts(c) \/ Refresh(c) \/ Lookup(c)
  \/ Cancel(c) \/ Retry(c) \/ RetryDeadLetter(c) \/ DeleteDeadLetter(c) \/ ReadRefused(c)
  \/ ReadDeadLetter(c) \/ ReadHistory(c)

RequestsNext ==
  \/ \E c \in Client : RequestStep(c)
  \/ Next /\ UNCHANGED request

RequestsSpec == RequestsInit /\ [][RequestsNext]_apiVars

------------------------------------------------------------------------------
(* Properties. *)

Reply(c, op, codes) ==
  request[c] # NULL /\ request[c].op = op /\ request[c].code \in codes

\* However requests with one key race one another, the workers and a delete:
\* the job a reply names has the queue and the key of the request for as long
\* as it exists, no two clients are told that they created the same job, and a
\* create fails only when the very job it inserted, or whose key it met, was
\* deleted before it was read again; without a key it meets none.
CreateIsIdempotent ==
  /\ \A c \in Client : Reply(c, "create", {200, 201}) /\ Exists(request[c].job) =>
       request[c].job \in Keyed(request[c].queue, request[c].key)
  /\ \A c, d \in Client : Reply(c, "create", {201}) /\ Reply(d, "create", {201}) /\ c # d =>
       request[c].job # request[d].job
  /\ \A c \in Client : Reply(c, "create", {409, 500}) =>
       request[c].job \in issued /\ ~Exists(request[c].job)
  /\ \A c \in Client : Reply(c, "create", {200, 409}) => request[c].key # NULL

\* What one client was told to have done is never undone or done again by
\* another: one 204 per job, whose row never returns; one cancellation per
\* job, which no retry, claim or late outcome takes back.
OneWinner ==
  /\ \A c \in Client : Reply(c, "delete", {204}) => ~Exists(request[c].job)
  /\ \A c \in Client : Reply(c, "cancel", {200}) => HasStatus(request[c].job, {"cancelled"})
  /\ \A op \in {"cancel", "delete"} : \A c, d \in Client :
       Reply(c, op, {200, 204}) /\ Reply(d, op, {200, 204}) /\ c # d =>
         request[c].job # request[d].job

\* The detail of a dead letter never shows part of its history: every attempt
\* it counts, or nothing at all, when the job was deleted between the two reads.
DetailIsWholeOrGone ==
  \A c \in Client : Reply(c, "detail", {200}) =>
    \/ 1..request[c].attempts \subseteq request[c].history
    \/ request[c].history = {} /\ ~Exists(request[c].job)
==============================================================================
