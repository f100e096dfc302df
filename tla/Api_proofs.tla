------------------------------ MODULE Api_proofs ------------------------------
(***************************************************************************)
(* Theorems about JobsApi and JobViews, for every value of their           *)
(* constants: what a reply says stays true whatever the other requests and *)
(* the workers commit between and after the two statements of its handler; *)
(* and what is read over many requests is explained by what was written    *)
(* meanwhile.                                                              *)
(*                                                                         *)
(* ReqInv says of each request what it has seen so far (ReqOK), in words   *)
(* that no step of the tables takes back, and of each two that they cannot *)
(* both have done the same thing to one job (Exclusive).                   *)
(*                                                                         *)
(* ViewsInv follows a walk over a list.  The rank of a row is how many     *)
(* rows precede it, so a page is a range of ranks; a write pushes rows     *)
(* past an offset at most as many as come above it, and draws rows before  *)
(* it at most as many as leave (PushedOff).                                *)
(***************************************************************************)
EXTENDS JobsApi, JobViews, JobStore_proofs, FiniteSetTheorems

Fields == {"op", "pc", "job", "queue", "key", "code", "status", "attempts", "history"}

IsRequest(r) == r = [f \in Fields |-> r[f]]

------------------------------------------------------------------------------
(* One request. *)

\* The job is the one asked for, as long as it exists.
NamesItsJob(r) == r.job \in issued /\ (Exists(r.job) => r.job \in Keyed(r.queue, r.key))

\* The job it inserted or met is gone.
ItsJobIsGone(r) == r.job \in issued /\ ~Exists(r.job)

CreateOK(r) ==
  r.op = "create" =>
    /\ r.queue \in Queue /\ r.key \in Key \cup {NULL}
    /\ r.pc = "lookup" \/ r.code \in {200, 409} => r.key # NULL
    /\ r.pc \in {"refresh", "lookup"} \/ r.code \in {200, 201} => NamesItsJob(r)
    /\ r.code \in {409, 500} => ItsJobIsGone(r)

CancelOK(r) ==
  r.op = "cancel" =>
    /\ r.code # 204
    /\ r.code = 200 => r.job \in issued /\ HasStatus(r.job, {"cancelled"})

DeleteOK(r) ==
  r.op = "delete" =>
    /\ r.code # 200
    /\ r.code = 204 => r.job \in issued /\ ~Exists(r.job)

\* The dead letter read first had all its attempts on record.
DetailOK(r) ==
  r.op = "detail" =>
    /\ r.pc = "history" =>
         ~Exists(r.job) \/ \A n \in 1..r.attempts : AttemptRecorded(r.job, n)
    /\ r.code = 200 =>
         /\ r.job \in issued
         /\ 1..r.attempts \subseteq r.history \/ (r.history = {} /\ ~Exists(r.job))

ReqOK(r) ==
  /\ IsRequest(r)
  /\ r.pc # "done" => r.code = 0
  /\ r.pc # "done" /\ r.op # "create" => r.job \in issued
  /\ CreateOK(r) /\ CancelOK(r) /\ DeleteOK(r) /\ DetailOK(r)

------------------------------------------------------------------------------
(* Two requests. *)

Inserted(r) == r.op = "create" /\ (r.pc = "refresh" \/ r.code = 201)

Won(r) == r.op \in {"cancel", "delete"} /\ r.code \in {200, 204}

Exclusive(r, s) ==
  /\ Inserted(r) /\ Inserted(s) => r.job # s.job
  /\ Won(r) /\ Won(s) /\ r.op = s.op => r.job # s.job

Asking == {c \in Client : request[c] # NULL}

ReqInv ==
  /\ IInv
  /\ request = [c \in Client |-> request[c]]
  /\ \A c \in Asking : ReqOK(request[c])
  /\ \A c, d \in Asking : c # d => Exclusive(request[c], request[d])

------------------------------------------------------------------------------
(* Nobody takes back what a request has seen. *)

\* A job that is gone stays gone.
LEMMA GoneForGood ==
  ASSUME IInv, [Next]_vars, NEW j \in issued, ~Exists(j)
  PROVE  j \in issued' /\ ~Exists(j)'
<1>1. j \in Job
  BY DEF IInv, TypeOK
<1>2. QED
  BY <1>1, JobIsKept

\* An attempt stays on record as long as its job exists.
LEMMA RecordedForGood ==
  ASSUME IInv, [Next]_vars, NEW j, NEW n, AttemptRecorded(j, n), Exists(j)'
  PROVE  AttemptRecorded(j, n)'
BY RecordsKept DEF AttemptRecorded, Exists

\* A step of the tables keeps what is said of a request.
LEMMA ReqKept ==
  ASSUME IInv, [Next]_vars, NEW r, ReqOK(r)
  PROVE  ReqOK(r)'
<1>1. \A j \in issued : j \in Job /\ j \in issued'
  BY JobIsKept DEF IInv, TypeOK
<1>2. ItsJobIsGone(r) => ItsJobIsGone(r)'
  BY GoneForGood DEF ItsJobIsGone
<1>3. NamesItsJob(r) => NamesItsJob(r)'
  <2>1. SUFFICES ASSUME NamesItsJob(r), Exists(r.job)'
                 PROVE  (r.job \in Keyed(r.queue, r.key))'
    BY <1>1 DEF NamesItsJob
  <2>2. r.job \in issued /\ r.job \in Job /\ Exists(r.job)
    BY <1>1, <2>1, GoneForGood DEF NamesItsJob
  <2>3. SameJob(jobs[r.job], jobs'[r.job])
    BY <2>1, <2>2, JobIsKept
  <2>4. QED
    BY <2>1, <2>2, <2>3 DEF NamesItsJob, Keyed, SameJob
<1>4. CreateOK(r)'
  <2>1. SUFFICES ASSUME r.op = "create" PROVE CreateOK(r)'
    BY DEF CreateOK
  <2>2. QED
    BY <1>2, <1>3, <2>1 DEF ReqOK, CreateOK
<1>5. CancelOK(r)'
  <2>1. SUFFICES ASSUME r.op = "cancel", r.code = 200
                 PROVE  (r.job \in issued /\ HasStatus(r.job, {"cancelled"}))'
    BY DEF ReqOK, CancelOK
  <2>2. r.job \in issued /\ r.job \in Job /\ HasStatus(r.job, {"cancelled"})
    BY <1>1, <2>1 DEF ReqOK, CancelOK
  <2>3. jobs'[r.job] = jobs[r.job]
    BY <2>2, EndedStays DEF HasStatus
  <2>4. QED
    BY <1>1, <2>2, <2>3 DEF HasStatus, Exists
<1>6. DeleteOK(r)'
  BY GoneForGood DEF ReqOK, DeleteOK
<1>7. DetailOK(r)'
  <2>1. SUFFICES ASSUME r.op = "detail" PROVE DetailOK(r)'
    BY DEF DetailOK
  <2>2. ASSUME r.pc = "history"
        PROVE  (~Exists(r.job) \/ \A n \in 1..r.attempts : AttemptRecorded(r.job, n))'
    <3>1. r.job \in issued
      BY <2>1, <2>2 DEF ReqOK
    <3>2. CASE ~Exists(r.job)
      BY <3>1, <3>2, GoneForGood
    <3>3. CASE \A n \in 1..r.attempts : AttemptRecorded(r.job, n)
      BY <3>3, RecordedForGood
    <3>4. QED
      BY <2>1, <2>2, <3>2, <3>3 DEF ReqOK, DetailOK
  <2>3. r.code = 200 =>
          /\ r.job \in issued'
          /\ 1..r.attempts \subseteq r.history \/ (r.history = {} /\ ~Exists(r.job)')
    BY <1>1, <2>1, GoneForGood DEF ReqOK, DetailOK
  <2>4. QED
    BY <2>2, <2>3 DEF DetailOK
<1>8. QED
  BY <1>1, <1>4, <1>5, <1>6, <1>7 DEF ReqOK

\* Neither the tables nor one request's own step says less of the others.
LEMMA OneMoves ==
  ASSUME ReqInv, [Next]_vars, NEW c \in Client, NEW n,
         request' = [request EXCEPT ![c] = n], ReqOK(n)',
         \A d \in Asking \ {c} : Exclusive(n, request[d])
  PROVE  ReqInv'
<1>1. IInv'
  BY NextInv DEF ReqInv
<1>2. /\ request' = [d \in Client |-> request'[d]] /\ request'[c] = n
      /\ \A d \in Asking' \ {c} : d \in Asking /\ request'[d] = request[d]
  BY DEF ReqInv, Asking
<1>3. ASSUME NEW d \in Asking' PROVE ReqOK(request[d])'
  <2>1. PICK r : r = request'[d]
    OBVIOUS
  <2>2. ReqOK(r)'
    <3>1. CASE d = c
      BY <1>2, <2>1, <3>1
    <3>2. CASE d # c
      BY <1>2, <1>3, <2>1, <3>2, ReqKept DEF ReqInv
    <3>3. QED
      BY <3>1, <3>2
  <2>3. QED
    BY <2>1, <2>2
<1>4. ASSUME NEW d \in Asking', NEW e \in Asking', d # e
      PROVE  Exclusive(request'[d], request'[e])
  <2>1. CASE d # c /\ e # c
    BY <1>2, <1>4, <2>1 DEF ReqInv
  <2>2. CASE d = c
    BY <1>2, <1>4, <2>2
  <2>3. CASE e = c
    BY <1>2, <1>4, <2>3 DEF Exclusive
  <2>4. QED
    BY <2>1, <2>2, <2>3
<1>5. QED
  BY <1>1, <1>2, <1>3, <1>4 DEF ReqInv

\* A step that is nobody's request.
LEMMA OthersMove ==
  ASSUME ReqInv, [Next]_vars, UNCHANGED request
  PROVE  ReqInv'
<1>1. IInv' /\ Asking' = Asking
  BY NextInv DEF ReqInv, Asking
<1>2. ASSUME NEW d \in Asking PROVE ReqOK(request[d])'
  <2>1. PICK r : r = request[d] /\ r = request'[d]
    OBVIOUS
  <2>2. ReqOK(r)'
    BY <1>2, <2>1, ReqKept DEF ReqInv
  <2>3. QED
    BY <2>1, <2>2
<1>3. QED
  BY <1>1, <1>2 DEF ReqInv

------------------------------------------------------------------------------
(* What the steps do to the request. *)

\* n is r at another place: the same request, and not answered.
Moved(r, n) ==
  /\ IsRequest(n) /\ n.op = r.op /\ n.queue = r.queue /\ n.key = r.key
  /\ n.code = r.code /\ n.attempts = r.attempts /\ n.history = r.history

\* A request at a place of its handler is one of those in progress.
LEMMA AtFacts ==
  ASSUME ReqInv, NEW c \in Client, NEW op, NEW place, At(c, op, place)
  PROVE  /\ c \in Asking /\ ReqOK(request[c])
         /\ request[c].op = op /\ request[c].pc = place
BY DEF At, ReqInv, Asking

\* What going on to the second statement makes of a request.
LEMMA GotoEffect ==
  ASSUME ReqInv, NEW c \in Asking, NEW place, Goto(c, place), NEW r, r = request[c]
  PROVE  \E n : /\ request' = [request EXCEPT ![c] = n]
                /\ Moved(r, n) /\ n.job = r.job /\ n.pc = place
<1> DEFINE n == [r EXCEPT !.pc = place]
<1>1. request = [d \in Client |-> request[d]] /\ c \in Client /\ IsRequest(r)
  BY DEF ReqInv, ReqOK, Asking
<1>2. request' = [request EXCEPT ![c] = n]
  BY <1>1 DEF Goto
<1>3. Moved(r, n) /\ n.job = r.job /\ n.pc = place
  BY <1>1 DEF IsRequest, Fields, Moved
<1>4. QED
  BY <1>2, <1>3

\* What an answer makes of it.
LEMMA AnswerEffect ==
  ASSUME ReqInv, NEW c \in Asking, NEW code, NEW j, NEW status,
         Answer(c, code, j, status), NEW r, r = request[c]
  PROVE  \E n : /\ request' = [request EXCEPT ![c] = n]
                /\ IsRequest(n) /\ n.op = r.op /\ n.queue = r.queue /\ n.key = r.key
                /\ n.attempts = r.attempts /\ n.history = r.history
                /\ n.pc = "done" /\ n.code = code /\ n.job = j
<1> DEFINE n == [r EXCEPT !.pc = "done", !.code = code, !.job = j, !.status = status]
<1>1. request = [d \in Client |-> request[d]] /\ c \in Client /\ IsRequest(r)
  BY DEF ReqInv, ReqOK, Asking
<1>2. request' = [request EXCEPT ![c] = n]
  BY <1>1 DEF Answer
<1>3. /\ IsRequest(n) /\ n.op = r.op /\ n.queue = r.queue /\ n.key = r.key
      /\ n.attempts = r.attempts /\ n.history = r.history
      /\ n.pc = "done" /\ n.code = code /\ n.job = j
  BY <1>1 DEF IsRequest, Fields
<1>4. QED
  BY <1>2, <1>3

\* A request that only looks: what it may say now it may say afterwards.
LEMMA Looks ==
  ASSUME ReqInv, UNCHANGED vars, NEW c \in Client, NEW n,
         request' = [request EXCEPT ![c] = n], ReqOK(n),
         \A d \in Asking \ {c} : Exclusive(n, request[d])
  PROVE  ReqInv'
<1>1. ReqOK(n)'
  BY ReqKept DEF ReqInv
<1>2. QED
  BY <1>1, OneMoves

\* A step that wins its request nothing cannot collide with another one.
LEMMA MovesOnly ==
  ASSUME ReqInv, [Next]_vars, NEW c \in Client, NEW n,
         request' = [request EXCEPT ![c] = n], ReqOK(n)', ~Inserted(n), ~Won(n)
  PROVE  ReqInv'
<1>1. \A d \in Asking \ {c} : Exclusive(n, request[d])
  BY DEF Exclusive
<1>2. QED
  BY <1>1, OneMoves

\* A read disturbs no other request.
LEMMA LooksOnly ==
  ASSUME ReqInv, UNCHANGED vars, NEW c \in Client, NEW n,
         request' = [request EXCEPT ![c] = n], ReqOK(n), ~Inserted(n), ~Won(n)
  PROVE  ReqInv'
<1>1. ReqOK(n)'
  BY ReqKept DEF ReqInv
<1>2. QED
  BY <1>1, MovesOnly

\* A new request knows nothing.
LEMMA SendInv == ASSUME ReqInv, NEW c \in Client, Send(c) PROVE ReqInv'
<1>1. PICK op, j, q, k :
        /\ request' = [request EXCEPT ![c] = Sent(op, j, q, k)]
        /\ \/ op = "create" /\ q \in Queue /\ k \in Key \cup {NULL}
           \/ op # "create" /\ j \in issued
  BY DEF Send
<1>2. PICK n : n = Sent(op, j, q, k)
  OBVIOUS
<1>3. /\ IsRequest(n) /\ n.op = op /\ n.pc = "first" /\ n.job = j /\ n.queue = q
      /\ n.key = k /\ n.code = 0
  BY <1>2 DEF Sent, IsRequest, Fields
<1>4. ReqOK(n)
  BY <1>1, <1>3 DEF ReqOK, CreateOK, CancelOK, DeleteOK, DetailOK
<1>5. ~Inserted(n) /\ ~Won(n)
  BY <1>3 DEF Inserted, Won
<1>6. UNCHANGED vars
  BY DEF Send
<1>7. request' = [request EXCEPT ![c] = n]
  BY <1>1, <1>2
<1>8. QED
  BY <1>4, <1>5, <1>6, <1>7, LooksOnly

\* The INSERT conflicts: it has met the job that holds the key.
LEMMA InsertConflictsInv ==
  ASSUME ReqInv, NEW c \in Client, InsertConflicts(c)
  PROVE  ReqInv'
<1>1. PICK r : r = request[c]
  OBVIOUS
<1>2. /\ c \in Asking /\ ReqOK(r) /\ r.op = "create" /\ r.pc = "first"
      /\ KeyTaken(r.queue, r.key) /\ UNCHANGED vars
  BY <1>1, AtFacts DEF InsertConflicts
<1>3. PICK j \in Keyed(r.queue, r.key) :
        request' = [request EXCEPT ![c].pc = "lookup", ![c].job = j]
  BY <1>1 DEF InsertConflicts
<1>4. PICK n : /\ request' = [request EXCEPT ![c] = n]
               /\ Moved(r, n) /\ n.job = j /\ n.pc = "lookup"
  <2> DEFINE n == [r EXCEPT !.pc = "lookup", !.job = j]
  <2>1. request = [d \in Client |-> request[d]] /\ IsRequest(r)
    BY <1>2 DEF ReqInv, ReqOK
  <2>2. request' = [request EXCEPT ![c] = n]
    BY <1>1, <1>3, <2>1
  <2>3. Moved(r, n) /\ n.job = j /\ n.pc = "lookup"
    BY <2>1 DEF IsRequest, Fields, Moved
  <2>4. QED
    BY <2>2, <2>3
<1>5. n.key # NULL
  BY <1>2, <1>4 DEF KeyTaken, Moved
<1>6. NamesItsJob(n)
  BY <1>3, <1>4, RowFacts DEF NamesItsJob, Keyed, Moved, ReqInv
<1>7. ReqOK(n)
  BY <1>2, <1>4, <1>5, <1>6 DEF ReqOK, CreateOK, CancelOK, DeleteOK, DetailOK, Moved
<1>8. ~Inserted(n) /\ ~Won(n)
  BY <1>2, <1>4 DEF Inserted, Won, ReqOK, Moved
<1>9. QED
  BY <1>2, <1>4, <1>7, <1>8, LooksOnly

\* The row is read again: if it is gone, its job is.
LEMMA RefreshInv == ASSUME ReqInv, NEW c \in Client, Refresh(c) PROVE ReqInv'
<1>1. PICK r : r = request[c]
  OBVIOUS
<1>2. /\ c \in Asking /\ ReqOK(r) /\ r.op = "create" /\ r.pc = "refresh" /\ UNCHANGED vars
      /\ r.code = 0 /\ NamesItsJob(r)
  BY <1>1, AtFacts DEF Refresh, ReqOK, CreateOK
<1>3. CASE Exists(r.job)
  <2>1. PICK n : /\ request' = [request EXCEPT ![c] = n]
                 /\ IsRequest(n) /\ n.op = r.op /\ n.queue = r.queue /\ n.key = r.key
                 /\ n.pc = "done" /\ n.code = 201 /\ n.job = r.job
    BY <1>1, <1>2, <1>3, AnswerEffect DEF Refresh
  <2>2. ReqOK(n)
    BY <1>2, <2>1 DEF ReqOK, CreateOK, CancelOK, DeleteOK, DetailOK, NamesItsJob
  <2>3. \A d \in Asking \ {c} : Exclusive(r, request[d])
    BY <1>1, <1>2 DEF ReqInv
  <2>4. \A d \in Asking \ {c} : Exclusive(n, request[d])
    BY <1>2, <2>1, <2>3 DEF Exclusive, Inserted, Won
  <2>5. QED
    BY <1>2, <2>1, <2>2, <2>4, Looks
<1>4. CASE ~Exists(r.job)
  <2>1. PICK n : /\ request' = [request EXCEPT ![c] = n]
                 /\ IsRequest(n) /\ n.op = r.op /\ n.queue = r.queue /\ n.key = r.key
                 /\ n.pc = "done" /\ n.code = 500 /\ n.job = r.job
    BY <1>1, <1>2, <1>4, AnswerEffect DEF Refresh
  <2>2. ItsJobIsGone(n)
    BY <1>2, <1>4, <2>1 DEF NamesItsJob, ItsJobIsGone
  <2>3. ReqOK(n)
    BY <1>2, <2>1, <2>2 DEF ReqOK, CreateOK, CancelOK, DeleteOK, DetailOK
  <2>4. ~Inserted(n) /\ ~Won(n)
    BY <1>2, <2>1 DEF Inserted, Won
  <2>5. QED
    BY <1>2, <2>1, <2>3, <2>4, LooksOnly
<1>5. QED
  BY <1>3, <1>4

\* The row that was in the way is looked up: if none is there, that job is gone.
LEMMA LookupInv == ASSUME ReqInv, NEW c \in Client, Lookup(c) PROVE ReqInv'
<1>1. PICK r : r = request[c]
  OBVIOUS
<1>2. /\ c \in Asking /\ ReqOK(r) /\ r.op = "create" /\ r.pc = "lookup" /\ UNCHANGED vars
      /\ r.key # NULL /\ NamesItsJob(r)
  BY <1>1, AtFacts DEF Lookup, ReqOK, CreateOK
<1>3. CASE \E j \in Keyed(r.queue, r.key) : Answer(c, 200, j, Shown(j))
  <2>1. PICK j \in Keyed(r.queue, r.key) : Answer(c, 200, j, Shown(j))
    BY <1>3
  <2>2. PICK n : /\ request' = [request EXCEPT ![c] = n]
                 /\ IsRequest(n) /\ n.op = r.op /\ n.queue = r.queue /\ n.key = r.key
                 /\ n.pc = "done" /\ n.code = 200 /\ n.job = j
    BY <1>1, <1>2, <2>1, AnswerEffect
  <2>3. j \in issued
    BY <2>1, RowFacts DEF Keyed, ReqInv
  <2>4. NamesItsJob(n)
    BY <2>1, <2>2, <2>3 DEF NamesItsJob
  <2>5. ReqOK(n)
    BY <1>2, <2>2, <2>4 DEF ReqOK, CreateOK, CancelOK, DeleteOK, DetailOK
  <2>6. ~Inserted(n) /\ ~Won(n)
    BY <1>2, <2>2 DEF Inserted, Won
  <2>7. QED
    BY <1>2, <2>2, <2>5, <2>6, LooksOnly
<1>4. CASE Keyed(r.queue, r.key) = {} /\ Answer(c, 409, r.job, NULL)
  <2>1. PICK n : /\ request' = [request EXCEPT ![c] = n]
                 /\ IsRequest(n) /\ n.op = r.op /\ n.queue = r.queue /\ n.key = r.key
                 /\ n.pc = "done" /\ n.code = 409 /\ n.job = r.job
    BY <1>1, <1>2, <1>4, AnswerEffect
  <2>2. ItsJobIsGone(n)
    BY <1>2, <1>4, <2>1 DEF NamesItsJob, ItsJobIsGone
  <2>3. ReqOK(n)
    BY <1>2, <2>1, <2>2 DEF ReqOK, CreateOK, CancelOK, DeleteOK, DetailOK
  <2>4. ~Inserted(n) /\ ~Won(n)
    BY <1>2, <2>1 DEF Inserted, Won
  <2>5. QED
    BY <1>2, <2>1, <2>3, <2>4, LooksOnly
<1>5. QED
  BY <1>1, <1>3, <1>4 DEF Lookup

\* The INSERT: a row of the queue and the key, with an id of its own.
LEMMA InsertJobInv ==
  ASSUME ReqInv, NEW c \in Client, InsertJob(c)
  PROVE  ReqInv' /\ Next
<1>1. PICK r : r = request[c]
  OBVIOUS
<1>2. /\ c \in Asking /\ ReqOK(r) /\ r.op = "create" /\ r.pc = "first" /\ r.code = 0
      /\ r.queue \in Queue /\ r.key \in Key \cup {NULL}
  BY <1>1, AtFacts DEF InsertJob, ReqOK, CreateOK
<1>3. PICK j \in Job, retries \in MaxRetries, run_at \in RunAt \cup {NULL}, t \in TxNow :
        /\ CreateJob(j, r.queue, r.key, retries, run_at, t)
        /\ request' = [request EXCEPT ![c].pc = "refresh", ![c].job = j]
  BY <1>1 DEF InsertJob
<1>4. Next
  BY <1>2, <1>3 DEF Next, ApiNext
<1>5. PICK n : /\ request' = [request EXCEPT ![c] = n]
               /\ Moved(r, n) /\ n.job = j /\ n.pc = "refresh"
  <2> DEFINE n == [r EXCEPT !.pc = "refresh", !.job = j]
  <2>1. request = [d \in Client |-> request[d]] /\ IsRequest(r)
    BY <1>2 DEF ReqInv, ReqOK
  <2>2. request' = [request EXCEPT ![c] = n]
    BY <1>1, <1>3, <2>1
  <2>3. Moved(r, n) /\ n.job = j /\ n.pc = "refresh"
    BY <2>1 DEF IsRequest, Fields, Moved
  <2>4. QED
    BY <2>2, <2>3
<1>6. j \notin issued /\ j \in issued'
      /\ jobs' = [jobs EXCEPT ![j] = NewJob(r.queue, r.key, retries, run_at, t)]
  BY <1>3 DEF CreateJob
<1>7. jobs'[j] = NewJob(r.queue, r.key, retries, run_at, t)
  BY <1>6 DEF ReqInv, IInv, TypeOK
<1>8. NamesItsJob(n)'
  BY <1>3, <1>5, <1>6, <1>7 DEF NamesItsJob, Keyed, NewJob, Moved
<1>9. ReqOK(n)'
  BY <1>2, <1>5, <1>8 DEF ReqOK, CreateOK, CancelOK, DeleteOK, DetailOK, Moved
<1>10. ASSUME NEW d \in Asking \ {c} PROVE Exclusive(n, request[d])
  <2>1. Inserted(request[d]) => request[d].job \in issued
    BY DEF ReqInv, ReqOK, CreateOK, Inserted, NamesItsJob
  <2>2. QED
    BY <1>2, <1>5, <1>6, <2>1 DEF Exclusive, Won, Moved
<1>11. QED
  BY <1>4, <1>5, <1>9, <1>10, OneMoves

\* The first statement found no row to write.
LEMMA RefusedInv ==
  ASSUME ReqInv, NEW c \in Client, NEW op \in {"cancel", "retry", "retry_dead", "delete"},
         At(c, op, "first"), Refused(c)
  PROVE  ReqInv'
<1>1. PICK r : r = request[c]
  OBVIOUS
<1>2. /\ c \in Asking /\ ReqOK(r) /\ r.op = op /\ r.pc = "first"
      /\ Goto(c, "read") /\ UNCHANGED vars
  BY <1>1, AtFacts DEF Refused
<1>3. PICK n : /\ request' = [request EXCEPT ![c] = n]
               /\ Moved(r, n) /\ n.job = r.job /\ n.pc = "read"
  BY <1>1, <1>2, GotoEffect
<1>4. ReqOK(n)
  BY <1>2, <1>3 DEF ReqOK, CreateOK, CancelOK, DeleteOK, DetailOK, Moved
<1>5. ~Inserted(n) /\ ~Won(n)
  BY <1>2, <1>3 DEF Inserted, Won, ReqOK, Moved
<1>6. QED
  BY <1>2, <1>3, <1>4, <1>5, LooksOnly

\* A cancellation: nobody else has cancelled this job.
LEMMA CancelInv ==
  ASSUME ReqInv, NEW c \in Client, Cancel(c)
  PROVE  ReqInv' /\ [Next]_vars
<1>1. PICK r : r = request[c]
  OBVIOUS
<1>2. PICK j : j = r.job
  OBVIOUS
<1>3. c \in Asking /\ ReqOK(r) /\ r.op = "cancel" /\ r.pc = "first" /\ j \in issued /\ j \in Job
  BY <1>1, <1>2, AtFacts DEF Cancel, ReqOK, ReqInv, IInv, TypeOK
<1>4. CASE ~HasStatus(j, Cancellable)
  BY <1>1, <1>2, <1>4, RefusedInv DEF Cancel, Refused
<1>5. CASE HasStatus(j, Cancellable)
  <2>1. CancelJob(j) /\ Answer(c, 200, j, "cancelled")
    BY <1>1, <1>2, <1>5 DEF Cancel
  <2>2. Next
    BY <1>3, <2>1 DEF Next, ApiNext
  <2>3. PICK n : /\ request' = [request EXCEPT ![c] = n] /\ IsRequest(n)
                 /\ n.op = "cancel" /\ n.pc = "done" /\ n.code = 200 /\ n.job = j
    BY <1>1, <1>3, <2>1, AnswerEffect
  <2>4. jobs'[j] = Cancelled(jobs[j]) /\ jobs[j] \in JobRow /\ j \in issued'
    BY <1>3, <1>5, <2>1 DEF CancelJob, ReqInv, IInv, TypeOK, HasStatus, Exists
  <2>5. HasStatus(j, {"cancelled"})'
    <3>1. Cancelled(jobs[j]) \in JobRow /\ Cancelled(jobs[j]).status = "cancelled"
      BY <2>4, UpdatedRow DEF SameJob
    <3>2. QED
      BY <2>4, <3>1, NullIsDistinct DEF HasStatus, Exists
  <2>6. ReqOK(n)'
    BY <2>3, <2>4, <2>5 DEF ReqOK, CreateOK, CancelOK, DeleteOK, DetailOK
  <2>7. ASSUME NEW d \in Asking \ {c} PROVE Exclusive(n, request[d])
    <3>1. ReqOK(request[d])
      BY <2>7 DEF ReqInv
    <3>2. Won(request[d]) /\ request[d].op = "cancel" => HasStatus(request[d].job, {"cancelled"})
      BY <3>1 DEF ReqOK, CancelOK, Won
    <3>3. QED
      BY <1>5, <2>3, <3>2 DEF Exclusive, Inserted, HasStatus, Cancellable
  <2>8. request' = [request EXCEPT ![c] = n] /\ [Next]_vars
    BY <2>2, <2>3
  <2>9. ReqInv'
    BY <2>6, <2>7, <2>8, OneMoves
  <2>10. QED
    BY <2>2, <2>9
<1>6. UNCHANGED vars \/ Next
  BY <1>1, <1>2, <1>3 DEF Cancel, Refused, Next, ApiNext
<1>7. QED
  BY <1>4, <1>5, <1>6

\* A delete: nobody else has deleted this job, and nothing brings it back.
LEMMA DeleteInv ==
  ASSUME ReqInv, NEW c \in Client, DeleteDeadLetter(c)
  PROVE  ReqInv' /\ [Next]_vars
<1>1. PICK r : r = request[c]
  OBVIOUS
<1>2. PICK j : j = r.job
  OBVIOUS
<1>3. c \in Asking /\ ReqOK(r) /\ r.op = "delete" /\ r.pc = "first" /\ j \in issued /\ j \in Job
  BY <1>1, <1>2, AtFacts DEF DeleteDeadLetter, ReqOK, ReqInv, IInv, TypeOK
<1>4. CASE ~HasStatus(j, {"dead_letter"})
  BY <1>1, <1>2, <1>4, RefusedInv DEF DeleteDeadLetter, Refused
<1>5. CASE HasStatus(j, {"dead_letter"})
  <2>1. DeleteDeadLetterJob(j) /\ Answer(c, 204, j, NULL)
    BY <1>1, <1>2, <1>5 DEF DeleteDeadLetter
  <2>2. Next
    BY <1>3, <2>1 DEF Next, ApiNext
  <2>3. PICK n : /\ request' = [request EXCEPT ![c] = n] /\ IsRequest(n)
                 /\ n.op = "delete" /\ n.pc = "done" /\ n.code = 204 /\ n.job = j
    BY <1>1, <1>3, <2>1, AnswerEffect
  <2>4. jobs'[j] = NULL /\ j \in issued'
    BY <1>3, <2>1 DEF DeleteDeadLetterJob, ReqInv, IInv, TypeOK
  <2>5. ReqOK(n)'
    BY <2>3, <2>4 DEF ReqOK, CreateOK, CancelOK, DeleteOK, DetailOK, Exists
  <2>6. ASSUME NEW d \in Asking \ {c} PROVE Exclusive(n, request[d])
    <3>1. ReqOK(request[d])
      BY <2>6 DEF ReqInv
    <3>2. Won(request[d]) /\ request[d].op = "delete" => ~Exists(request[d].job)
      BY <3>1 DEF ReqOK, DeleteOK, Won
    <3>3. QED
      BY <1>5, <2>3, <3>2 DEF Exclusive, Inserted, HasStatus
  <2>7. request' = [request EXCEPT ![c] = n] /\ [Next]_vars
    BY <2>2, <2>3
  <2>8. ReqInv'
    BY <2>5, <2>6, <2>7, OneMoves
  <2>9. QED
    BY <2>2, <2>8
<1>6. UNCHANGED vars \/ Next
  BY <1>1, <1>2, <1>3 DEF DeleteDeadLetter, Refused, Next, ApiNext
<1>7. QED
  BY <1>4, <1>5, <1>6

\* A manual retry.
LEMMA RetryInv ==
  ASSUME ReqInv, NEW c \in Client, Retry(c) \/ RetryDeadLetter(c)
  PROVE  ReqInv' /\ [Next]_vars
<1>1. PICK r : r = request[c]
  OBVIOUS
<1>2. PICK j : j = r.job
  OBVIOUS
<1>3. PICK op : /\ op \in {"retry", "retry_dead"} /\ At(c, op, "first")
                /\ op = "retry" <=> Retry(c)
  BY DEF Retry, RetryDeadLetter, At
<1>4. c \in Asking /\ ReqOK(r) /\ r.op = op /\ r.pc = "first" /\ j \in issued /\ j \in Job
  BY <1>1, <1>2, <1>3, AtFacts DEF ReqOK, ReqInv, IInv, TypeOK
<1>5. \/ Refused(c)
      \/ \E t \in TxNow : (RetryJob(j, t) \/ RetryDeadLetterJob(j, t))
                          /\ Answer(c, 200, j, "queued")
  BY <1>1, <1>2 DEF Retry, RetryDeadLetter
<1>6. CASE Refused(c)
  <2>1. ReqInv'
    BY <1>3, <1>6, RefusedInv
  <2>2. QED
    BY <1>6, <2>1 DEF Refused
<1>7. CASE \E t \in TxNow : (RetryJob(j, t) \/ RetryDeadLetterJob(j, t))
                            /\ Answer(c, 200, j, "queued")
  <2>1. Next /\ Answer(c, 200, j, "queued")
    BY <1>4, <1>7 DEF Next, ApiNext
  <2>2. PICK n : /\ request' = [request EXCEPT ![c] = n] /\ IsRequest(n)
                 /\ n.op = op /\ n.pc = "done" /\ n.code = 200 /\ n.job = j
    BY <1>1, <1>4, <2>1, AnswerEffect
  <2>3. ReqOK(n)'
    BY <1>3, <2>2 DEF ReqOK, CreateOK, CancelOK, DeleteOK, DetailOK
  <2>4. ~Inserted(n) /\ ~Won(n)
    BY <1>3, <2>2 DEF Inserted, Won
  <2>5. QED
    BY <2>1, <2>2, <2>3, <2>4, MovesOnly
<1>8. QED
  BY <1>5, <1>6, <1>7

\* The row is read for the reply to a refusal.
LEMMA ReadRefusedInv == ASSUME ReqInv, NEW c \in Client, ReadRefused(c) PROVE ReqInv'
<1>1. PICK r : r = request[c]
  OBVIOUS
<1>2. PICK op \in {"cancel", "retry", "retry_dead", "delete"} : At(c, op, "read")
  BY DEF ReadRefused
<1>3. c \in Asking /\ ReqOK(r) /\ r.op = op /\ UNCHANGED vars
  BY <1>1, <1>2, AtFacts DEF ReadRefused
<1>4. \E code \in {404, 409} : \E j, status : Answer(c, code, j, status)
  BY DEF ReadRefused
<1>5. PICK n : /\ request' = [request EXCEPT ![c] = n] /\ IsRequest(n)
               /\ n.op = op /\ n.pc = "done" /\ n.code \in {404, 409}
  BY <1>1, <1>3, <1>4, AnswerEffect
<1>6. ReqOK(n)
  BY <1>5 DEF ReqOK, CreateOK, CancelOK, DeleteOK, DetailOK
<1>7. ~Inserted(n) /\ ~Won(n)
  BY <1>5 DEF Inserted, Won
<1>8. QED
  BY <1>3, <1>5, <1>6, <1>7, LooksOnly

\* The dead letter is read first: all its attempts are on record.
LEMMA ReadDeadLetterInv ==
  ASSUME ReqInv, NEW c \in Client, ReadDeadLetter(c)
  PROVE  ReqInv'
<1>1. PICK r : r = request[c]
  OBVIOUS
<1>2. PICK j : j = r.job
  OBVIOUS
<1>3. /\ c \in Asking /\ ReqOK(r) /\ r.op = "detail" /\ r.pc = "first" /\ r.code = 0
      /\ j \in issued /\ j \in Job /\ UNCHANGED vars
  BY <1>1, <1>2, AtFacts DEF ReadDeadLetter, ReqOK, ReqInv, IInv, TypeOK
<1>4. CASE Exists(j) /\ jobs[j].status = "dead_letter"
  <2> DEFINE n == [r EXCEPT !.pc = "history", !.status = "dead_letter",
                            !.attempts = jobs[j].attempts]
  <2>1. request' = [request EXCEPT ![c].pc = "history", ![c].status = "dead_letter",
                                   ![c].attempts = jobs[j].attempts]
    BY <1>1, <1>2, <1>4 DEF ReadDeadLetter
  <2>2. request = [d \in Client |-> request[d]] /\ IsRequest(r)
    BY <1>3 DEF ReqInv, ReqOK
  <2>3. request' = [request EXCEPT ![c] = n]
    BY <1>1, <2>1, <2>2
  <2>4. /\ IsRequest(n) /\ n.op = "detail" /\ n.pc = "history" /\ n.code = 0 /\ n.job = j
        /\ n.attempts = jobs[j].attempts
    BY <1>2, <1>3, <2>2 DEF IsRequest, Fields
  <2>5. \A i \in 1..jobs[j].attempts : AttemptRecorded(j, i)
    BY <1>3, <1>4 DEF ReqInv, IInv, AttemptHistory
  <2>6. ReqOK(n)
    BY <1>3, <2>4, <2>5 DEF ReqOK, CreateOK, CancelOK, DeleteOK, DetailOK
  <2>7. ~Inserted(n) /\ ~Won(n)
    BY <2>4 DEF Inserted, Won
  <2>8. QED
    BY <1>3, <2>3, <2>6, <2>7, LooksOnly
<1>5. CASE ~(Exists(j) /\ jobs[j].status = "dead_letter")
  <2>1. \E code \in {404, 409} : \E i, status : Answer(c, code, i, status)
    BY <1>1, <1>2, <1>5 DEF ReadDeadLetter
  <2>2. PICK n : /\ request' = [request EXCEPT ![c] = n] /\ IsRequest(n)
                 /\ n.op = "detail" /\ n.pc = "done" /\ n.code \in {404, 409}
    BY <1>1, <1>3, <2>1, AnswerEffect
  <2>3. ReqOK(n)
    BY <2>2 DEF ReqOK, CreateOK, CancelOK, DeleteOK, DetailOK
  <2>4. ~Inserted(n) /\ ~Won(n)
    BY <2>2 DEF Inserted, Won
  <2>5. QED
    BY <1>3, <2>2, <2>3, <2>4, LooksOnly
<1>6. QED
  BY <1>4, <1>5

\* Its attempts are read next: they are all there, or none is and the job neither.
LEMMA ReadHistoryInv == ASSUME ReqInv, NEW c \in Client, ReadHistory(c) PROVE ReqInv'
<1>1. PICK r : r = request[c]
  OBVIOUS
<1>2. PICK h : h = HistoryOf(r.job, r.attempts)
  OBVIOUS
<1>3. /\ c \in Asking /\ ReqOK(r) /\ r.op = "detail" /\ r.pc = "history"
      /\ r.job \in issued /\ UNCHANGED vars
  BY <1>1, AtFacts DEF ReadHistory, ReqOK
<1>4. \/ ~Exists(r.job)
      \/ \A i \in 1..r.attempts : AttemptRecorded(r.job, i)
  BY <1>3 DEF ReqOK, DetailOK
<1>5. 1..r.attempts \subseteq h \/ (h = {} /\ ~Exists(r.job))
  <2>1. CASE ~Exists(r.job)
    BY <1>2, <2>1 DEF HistoryOf, ReqInv, IInv, AttemptHistory
  <2>2. CASE \A i \in 1..r.attempts : AttemptRecorded(r.job, i)
    BY <1>2, <2>2 DEF HistoryOf, AttemptRecorded
  <2>3. QED
    BY <1>4, <2>1, <2>2
<1> DEFINE n == [r EXCEPT !.pc = "done", !.code = 200, !.history = h]
<1>6. request = [d \in Client |-> request[d]] /\ IsRequest(r)
  BY <1>3 DEF ReqInv, ReqOK
<1>7. request' = [request EXCEPT ![c] = n]
  BY <1>1, <1>2, <1>6 DEF ReadHistory
<1>8. /\ IsRequest(n) /\ n.op = "detail" /\ n.pc = "done" /\ n.code = 200 /\ n.job = r.job
      /\ n.attempts = r.attempts /\ n.history = h
  BY <1>3, <1>6 DEF IsRequest, Fields
<1>9. ReqOK(n)
  BY <1>3, <1>5, <1>8 DEF ReqOK, CreateOK, CancelOK, DeleteOK, DetailOK
<1>10. ~Inserted(n) /\ ~Won(n)
  BY <1>8 DEF Inserted, Won
<1>11. QED
  BY <1>3, <1>7, <1>9, <1>10, LooksOnly

------------------------------------------------------------------------------
(* ReqInv is an invariant, and a step of a handler a step of the tables. *)

\* At the start nobody has asked.
LEMMA RequestsInitInv == RequestsInit => ReqInv
<1>1. SUFFICES ASSUME RequestsInit PROVE ReqInv
  OBVIOUS
<1>2. IInv /\ request = [c \in Client |-> request[c]] /\ Asking = {}
  BY <1>1, InitInv DEF RequestsInit, Asking
<1>3. QED
  BY <1>2 DEF ReqInv

\* Every step keeps the invariant, and is one of JobStore or leaves the tables alone.
LEMMA RequestsNextInv == ReqInv /\ [RequestsNext]_apiVars => ReqInv' /\ [Next]_vars
<1>1. SUFFICES ASSUME ReqInv, [RequestsNext]_apiVars PROVE ReqInv' /\ [Next]_vars
  OBVIOUS
<1>2. ASSUME NEW c \in Client,
             \/ Send(c) \/ InsertConflicts(c) \/ Refresh(c) \/ Lookup(c)
             \/ ReadRefused(c) \/ ReadDeadLetter(c) \/ ReadHistory(c)
      PROVE  ReqInv' /\ [Next]_vars
  <2>1. UNCHANGED vars
    BY <1>2 DEF Send, InsertConflicts, Refresh, Lookup, ReadRefused, ReadDeadLetter,
                ReadHistory
  <2>2. ReqInv'
    BY <1>1, <1>2, SendInv, InsertConflictsInv, RefreshInv, LookupInv, ReadRefusedInv,
       ReadDeadLetterInv, ReadHistoryInv
  <2>3. QED
    BY <2>1, <2>2
<1>3. ASSUME NEW c \in Client,
             \/ InsertJob(c) \/ Cancel(c) \/ Retry(c) \/ RetryDeadLetter(c)
             \/ DeleteDeadLetter(c)
      PROVE  ReqInv' /\ [Next]_vars
  BY <1>1, <1>3, InsertJobInv, CancelInv, RetryInv, DeleteInv
<1>4. CASE [Next]_vars /\ UNCHANGED request
  BY <1>1, <1>4, OthersMove
<1>5. CASE UNCHANGED apiVars
  BY <1>4, <1>5 DEF apiVars
<1>6. QED
  BY <1>1, <1>2, <1>3, <1>4, <1>5 DEF RequestsNext, RequestStep

\* So it is invariant.
LEMMA ReqInvariance == RequestsSpec => []ReqInv
BY RequestsInitInv, RequestsNextInv, PTL DEF RequestsSpec

------------------------------------------------------------------------------
(* The theorems. *)

\* The writing statement of a handler is a transaction of JobStore: requests
\* in flight break nothing that is proved of the tables.
THEOREM RequestsAreTransactions == RequestsSpec => Spec
<1>1. RequestsInit => Init
  BY DEF RequestsInit
<1>2. QED
  BY <1>1, RequestsNextInv, ReqInvariance, PTL DEF RequestsSpec, Spec

\* The job a reply to POST /jobs names is the one the client asked for, no two
\* clients created the same one, and one fails only if the job it inserted or
\* met under its key is gone.
THEOREM CreatesAreIdempotent == RequestsSpec => []CreateIsIdempotent
<1>1. ASSUME ReqInv PROVE CreateIsIdempotent
  <2>1. ASSUME NEW c \in Client, NEW op, NEW codes, Reply(c, op, codes)
        PROVE  /\ c \in Asking /\ ReqOK(request[c])
               /\ request[c].op = op /\ request[c].code \in codes
    BY <1>1, <2>1 DEF Reply, Asking, ReqInv
  <2>2. ASSUME NEW c \in Client, Reply(c, "create", {200, 201}), Exists(request[c].job)
        PROVE  request[c].job \in Keyed(request[c].queue, request[c].key)
    BY <2>1, <2>2 DEF ReqOK, CreateOK, NamesItsJob
  <2>3. ASSUME NEW c \in Client, NEW d \in Client, c # d,
               Reply(c, "create", {201}), Reply(d, "create", {201})
        PROVE  request[c].job # request[d].job
    <3>1. Exclusive(request[c], request[d])
      BY <1>1, <2>1, <2>3 DEF ReqInv
    <3>2. QED
      BY <2>1, <2>3, <3>1 DEF Exclusive, Inserted
  <2>4. ASSUME NEW c \in Client, Reply(c, "create", {409, 500})
        PROVE  request[c].job \in issued /\ ~Exists(request[c].job)
    BY <2>1, <2>4 DEF ReqOK, CreateOK, ItsJobIsGone
  <2>5. ASSUME NEW c \in Client, Reply(c, "create", {200, 409})
        PROVE  request[c].key # NULL
    BY <2>1, <2>5 DEF ReqOK, CreateOK
  <2>6. QED
    BY <2>2, <2>3, <2>4, <2>5 DEF CreateIsIdempotent
<1>2. QED
  BY <1>1, ReqInvariance, PTL

\* A deletion and a cancellation are told to one client and stay true.
THEOREM WinnersStay == RequestsSpec => []OneWinner
<1>1. ASSUME ReqInv PROVE OneWinner
  <2>1. ASSUME NEW c \in Client, NEW op, NEW codes, Reply(c, op, codes)
        PROVE  /\ c \in Asking /\ ReqOK(request[c])
               /\ request[c].op = op /\ request[c].code \in codes
    BY <1>1, <2>1 DEF Reply, Asking, ReqInv
  <2>2. ASSUME NEW c \in Client, Reply(c, "delete", {204}) PROVE ~Exists(request[c].job)
    BY <2>1, <2>2 DEF ReqOK, DeleteOK
  <2>3. ASSUME NEW c \in Client, Reply(c, "cancel", {200})
        PROVE  HasStatus(request[c].job, {"cancelled"})
    BY <2>1, <2>3 DEF ReqOK, CancelOK
  <2>4. ASSUME NEW op \in {"cancel", "delete"}, NEW c \in Client, NEW d \in Client, c # d,
               Reply(c, op, {200, 204}), Reply(d, op, {200, 204})
        PROVE  request[c].job # request[d].job
    <3>1. Exclusive(request[c], request[d])
      BY <1>1, <2>1, <2>4 DEF ReqInv
    <3>2. QED
      BY <2>1, <2>4, <3>1 DEF Exclusive, Won
  <2>5. QED
    BY <2>2, <2>3, <2>4 DEF OneWinner
<1>2. QED
  BY <1>1, ReqInvariance, PTL

\* The detail of a dead letter is never half of one.
THEOREM DetailsAreWhole == RequestsSpec => []DetailIsWholeOrGone
<1>1. ReqInv => DetailIsWholeOrGone
  BY DEF ReqInv, Asking, DetailIsWholeOrGone, Reply, ReqOK, DetailOK
<1>2. QED
  BY <1>1, ReqInvariance, PTL

------------------------------------------------------------------------------
(* Ranks: P is an order, as a set of pairs, and L a finite set. *)

IsOrder(P, L) ==
  /\ \A x \in L : <<x, x>> \notin P
  /\ \A x, y \in L : x # y => <<x, y>> \in P \/ <<y, x>> \in P
  /\ \A x, y, z \in L : <<x, y>> \in P /\ <<y, z>> \in P => <<x, z>> \in P

Above(P, L, x) == {y \in L : <<y, x>> \in P}

Rank(P, L, x) == Cardinality(Above(P, L, x))

\* What LIMIT n shows of L in the order P.
Top(P, L, n) == {x \in L : Rank(P, L, x) < n}

\* Ranks order L as P does, and count from 0 to the number of its elements.
LEMMA RanksFollowOrder ==
  ASSUME NEW P, NEW L, IsFiniteSet(L), IsOrder(P, L), NEW x \in L
  PROVE  /\ Rank(P, L, x) \in 0..(Cardinality(L) - 1)
         /\ \A y \in L : <<x, y>> \in P <=> Rank(P, L, x) < Rank(P, L, y)
<1>1. \A y \in L : Rank(P, L, y) \in Nat /\ IsFiniteSet(Above(P, L, y))
  BY FS_Subset, FS_CardinalityType DEF Rank, Above
<1>2. Rank(P, L, x) < Cardinality(L)
  <2>1. /\ Above(P, L, x) \subseteq L /\ Above(P, L, x) # L
    BY DEF Above, IsOrder
  <2>2. Cardinality(L) \in Nat
    BY FS_CardinalityType
  <2>3. QED
    BY <1>1, <2>1, <2>2, FS_Subset DEF Rank
<1>3. ASSUME NEW u \in L, NEW v \in L, <<u, v>> \in P
      PROVE  Rank(P, L, u) < Rank(P, L, v)
  <2>1. Above(P, L, u) \subseteq Above(P, L, v) /\ Above(P, L, u) # Above(P, L, v)
    <3>1. u \in Above(P, L, v) /\ u \notin Above(P, L, u)
      BY <1>3 DEF Above, IsOrder
    <3>2. Above(P, L, u) \subseteq Above(P, L, v)
      BY <1>3 DEF Above, IsOrder
    <3>3. QED
      BY <3>1, <3>2
  <2>2. QED
    BY <1>1, <2>1, FS_Subset DEF Rank
<1>4. ASSUME NEW y \in L, Rank(P, L, x) < Rank(P, L, y) PROVE <<x, y>> \in P
  <2>1. ~(Rank(P, L, y) < Rank(P, L, x)) /\ x # y
    BY <1>1, <1>4
  <2>2. QED
    BY <1>3, <2>1 DEF IsOrder
<1>5. QED
  BY <1>1, <1>2, <1>3, <1>4, FS_CardinalityType

\* No rank is left out.
LEMMA RanksAreTaken ==
  ASSUME NEW P, NEW L, IsFiniteSet(L), IsOrder(P, L)
  PROVE  \A k \in 0..(Cardinality(L) - 1) : \E x \in L : Rank(P, L, x) = k
<1> DEFINE c == Cardinality(L)
           r == [x \in L |-> Rank(P, L, x)]
<1>1. c \in Nat
  BY FS_CardinalityType
<1>2. r \in Injection(L, 0..(c - 1))
  <2>1. r \in [L -> 0..(c - 1)]
    BY RanksFollowOrder
  <2>2. ASSUME NEW x \in L, NEW y \in L, r[x] = r[y] PROVE x = y
    <3>1. ~(Rank(P, L, x) < Rank(P, L, y)) /\ ~(Rank(P, L, y) < Rank(P, L, x))
      BY <1>1, <2>1, <2>2
    <3>2. QED
      BY <3>1, RanksFollowOrder DEF IsOrder
  <2>3. QED
    BY <2>1, <2>2 DEF Injection, IsInjective
<1>3. IsFiniteSet(0..(c - 1)) /\ Cardinality(0..(c - 1)) = c
  BY <1>1, FS_Interval
<1>4. r \in Surjection(L, 0..(c - 1))
  BY <1>2, <1>3, FS_Injection
<1>5. QED
  BY <1>4 DEF Surjection

\* A list that goes on is cut off at n, no earlier and no later.
LEMMA TopSize ==
  ASSUME NEW P, NEW L, IsFiniteSet(L), IsOrder(P, L), NEW n \in Nat
  PROVE  /\ Cardinality(Top(P, L, n)) <= n
         /\ Top(P, L, n) # L => Cardinality(Top(P, L, n)) = n
<1> DEFINE T == Top(P, L, n)
           r == [x \in T |-> Rank(P, L, x)]
<1>1. IsFiniteSet(0..(n - 1)) /\ Cardinality(0..(n - 1)) = n
  BY FS_Interval
<1>2. r \in Injection(T, 0..(n - 1))
  <2>1. \A x \in L : Rank(P, L, x) \in Nat
    BY RanksFollowOrder, FS_CardinalityType
  <2>2. r \in [T -> 0..(n - 1)]
    BY <2>1 DEF Top
  <2>3. ASSUME NEW x \in T, NEW y \in T, r[x] = r[y] PROVE x = y
    <3>1. /\ ~(Rank(P, L, x) < Rank(P, L, y)) /\ ~(Rank(P, L, y) < Rank(P, L, x))
          /\ x \in L /\ y \in L
      BY <2>1, <2>3 DEF Top
    <3>2. QED
      BY <3>1, RanksFollowOrder DEF IsOrder
  <2>4. QED
    BY <2>2, <2>3 DEF Injection, IsInjective
<1>3. Cardinality(T) <= n
  BY <1>1, <1>2, FS_Injection
<1>4. ASSUME T # L PROVE Cardinality(T) = n
  <2>1. PICK y \in L : ~(Rank(P, L, y) < n)
    BY <1>4 DEF Top
  <2>2. n <= Cardinality(L) - 1 /\ Cardinality(L) \in Nat
    BY <2>1, RanksFollowOrder, FS_CardinalityType
  <2>3. \A k \in 0..(n - 1) : \E x \in T : r[x] = k
    <3>1. SUFFICES ASSUME NEW k \in 0..(n - 1) PROVE \E x \in T : r[x] = k
      OBVIOUS
    <3>2. PICK x \in L : Rank(P, L, x) = k
      BY <2>2, RanksAreTaken
    <3>3. x \in T
      BY <3>2 DEF Top
    <3>4. QED
      BY <3>2, <3>3
  <2>4. r \in Surjection(T, 0..(n - 1))
    BY <1>2, <2>3 DEF Surjection, Injection
  <2>5. QED
    BY <1>1, <1>2, <2>4, FS_Injection
<1>5. QED
  BY <1>3, <1>4

\* An order on a finite set has a last element.
LEMMA LastExists ==
  ASSUME NEW P, NEW L, IsFiniteSet(L), IsOrder(P, L), L # {}
  PROVE  \E x \in L : \A y \in L \ {x} : <<y, x>> \in P
<1> DEFINE c == Cardinality(L)
<1>1. c \in Nat /\ c # 0
  BY FS_CardinalityType, FS_EmptySet
<1>2. PICK x \in L : Rank(P, L, x) = c - 1
  BY <1>1, RanksAreTaken
<1>3. ASSUME NEW y \in L \ {x} PROVE <<y, x>> \in P
  <2>1. ~(Rank(P, L, x) < Rank(P, L, y))
    BY <1>1, <1>2, RanksFollowOrder
  <2>2. QED
    BY <2>1, RanksFollowOrder DEF IsOrder
<1>4. QED
  BY <1>3

\* P and Q order the two lists alike where both have the rows.
Agree(P, L, Q, M) == \A x, y \in L \cap M : <<x, y>> \in P <=> <<x, y>> \in Q

\* Rows are pushed off the top only by rows that came in above them.
LEMMA PushedOff ==
  ASSUME NEW P, NEW L, IsFiniteSet(L), IsOrder(P, L),
         NEW Q, NEW M, IsFiniteSet(M), IsOrder(Q, M), Agree(P, L, Q, M), NEW n \in Nat
  PROVE  Cardinality((Top(P, L, n) \cap M) \ Top(Q, M, n)) <= Cardinality(Top(Q, M, n) \ L)
<1> DEFINE A == Top(P, L, n)
           B == Top(Q, M, n)
           X == (A \cap M) \ B
           Y == B \cap L
<1>1. /\ IsFiniteSet(A) /\ IsFiniteSet(B) /\ IsFiniteSet(X) /\ IsFiniteSet(Y)
      /\ IsFiniteSet(B \ L) /\ Cardinality(A) \in Nat /\ Cardinality(B) \in Nat
      /\ Cardinality(X) \in Nat /\ Cardinality(Y) \in Nat /\ Cardinality(B \ L) \in Nat
  <2>1. IsFiniteSet(A) /\ IsFiniteSet(B)
    BY FS_Subset DEF Top
  <2> HIDE DEF A, B
  <2>2. IsFiniteSet(X) /\ IsFiniteSet(Y) /\ IsFiniteSet(B \ L)
    BY <2>1, FS_Subset
  <2>3. QED
    BY <2>1, <2>2, FS_CardinalityType
<1>2. CASE X = {}
  BY <1>1, <1>2, FS_EmptySet
<1>3. CASE X # {}
  <2>1. PICK y \in X : TRUE
    BY <1>3
  <2>2. y \in L /\ y \in M /\ Rank(P, L, y) < n /\ ~(Rank(Q, M, y) < n)
    BY <2>1 DEF Top
  <2>3. Cardinality(B) = n /\ Cardinality(A) <= n
    BY <2>2, TopSize DEF Top
  <2>4. Y \subseteq A
    <3> SUFFICES ASSUME NEW z \in Y PROVE Rank(P, L, z) < n /\ z \in L
      BY DEF Top
    <3>1. z \in L /\ z \in M /\ Rank(Q, M, z) < n
      BY DEF Top
    <3>2. /\ Rank(Q, M, z) \in Int /\ Rank(Q, M, y) \in Int
          /\ Rank(P, L, z) \in Int /\ Rank(P, L, y) \in Int
      BY <2>2, <3>1, RanksFollowOrder, FS_CardinalityType
    <3>3. <<z, y>> \in Q
      BY <2>2, <3>1, <3>2, RanksFollowOrder
    <3>4. <<z, y>> \in P
      BY <2>2, <3>1, <3>3 DEF Agree
    <3>5. Rank(P, L, z) < Rank(P, L, y)
      BY <2>2, <3>1, <3>4, RanksFollowOrder
    <3>6. QED
      BY <2>2, <3>1, <3>2, <3>5
  <2> HIDE DEF A, B
  <2>5. Cardinality(X \cup Y) = Cardinality(X) + Cardinality(Y)
    <3>1. X \cap Y = {}
      OBVIOUS
    <3> HIDE DEF X, Y
    <3>2. Cardinality(X \cap Y) = 0
      BY <3>1, FS_EmptySet
    <3>3. Cardinality(X \cup Y) = Cardinality(X) + Cardinality(Y) - Cardinality(X \cap Y)
      BY <1>1, FS_Union
    <3>4. QED
      BY <1>1, <3>2, <3>3
  <2>6. Cardinality(X \cup Y) <= Cardinality(A) /\ Cardinality(X \cup Y) \in Nat
    BY <1>1, <2>4, FS_Subset, FS_CardinalityType
  <2>7. Cardinality(B \ L) = Cardinality(B) - Cardinality(Y)
    BY <1>1, FS_Difference
  <2>8. Cardinality(X) <= Cardinality(B \ L)
    <3> HIDE DEF X, Y
    <3>1. QED
      BY <1>1, <2>3, <2>5, <2>6, <2>7
  <2>9. QED
    BY <2>8 DEF A, B
<1>4. QED
  BY <1>2, <1>3

------------------------------------------------------------------------------
(* The lists. *)

Thing == Job \cup Queue

Order(view) == {p \in Thing \X Thing : Precedes(view, p[1], p[2])}

\* The rows before an offset.
First(view, n) == Top(Order(view), Listed(view), n)

StampsOK == created \in [Job -> Nat] /\ buried \in [Job -> Nat]

\* Jobs and queues are finitely many, and so is what is picked from them.
LEMMA ThingsAreFinite ==
  /\ IsFiniteSet(Thing)
  /\ \A S \in SUBSET Thing : IsFiniteSet(S) /\ Cardinality(S) \in Nat
<1>1. IsFiniteSet(Thing)
  BY ViewsAssumption, FS_Union DEF ViewsAssumption, Thing
<1>2. QED
  BY <1>1, FS_Subset, FS_CardinalityType

\* What the ORDER BY of a list orders.
LEMMA PairsInOrder ==
  ASSUME NEW view, NEW x \in Thing, NEW y \in Thing
  PROVE  <<x, y>> \in Order(view) <=> Precedes(view, x, y)
BY DEF Order

\* Ids tell jobs apart that were created or buried at one time, so ORDER BY
\* leaves nothing open.
LEMMA JobsAreOrdered ==
  ASSUME StampsOK, NEW view, view # "queues", NEW S \in SUBSET Job
  PROVE  IsOrder(Order(view), S)
<1>1. S \subseteq Nat /\ S \subseteq Thing
  BY ViewsAssumption DEF ViewsAssumption, Thing
<1>2. PICK at \in [Job -> Nat] :
        \A x, y \in S : Precedes(view, x, y) <=> at[x] > at[y] \/ (at[x] = at[y] /\ x > y)
  <2>1. CASE view = "dead_letters"
    BY <2>1 DEF Precedes, StampsOK
  <2>2. CASE view # "dead_letters"
    BY <2>2 DEF Precedes, StampsOK
  <2>3. QED
    BY <2>1, <2>2
<1>3. \A x, y \in S : <<x, y>> \in Order(view) <=> at[x] > at[y] \/ (at[x] = at[y] /\ x > y)
  BY <1>1, <1>2, PairsInOrder
<1>4. \A x \in S : at[x] \in Nat /\ x \in Nat
  BY <1>1
<1>5. QED
  BY <1>3, <1>4 DEF IsOrder

\* Every list is ordered.
LEMMA ListsAreOrdered ==
  ASSUME StampsOK, NEW view
  PROVE  /\ Listed(view) \subseteq Thing /\ IsFiniteSet(Listed(view))
         /\ view # "queues" => Listed(view) \subseteq Job
         /\ IsOrder(Order(view), Listed(view))
<1>1. /\ Listed(view) \subseteq Thing
      /\ view = "queues" => Listed(view) \subseteq Queue
      /\ view # "queues" => Listed(view) \subseteq Job
  <2>1. CASE view = "queues"
    BY <2>1 DEF Listed, Thing, JobStatus
  <2>2. CASE view # "queues" /\ view \in JobStatus
    BY <2>2 DEF Listed, Thing
  <2>3. CASE view # "queues" /\ view \notin JobStatus
    BY <2>3 DEF Listed, Thing
  <2>4. QED
    BY <2>1, <2>2, <2>3
<1>2. CASE view = "queues"
  <2>1. \A x, y \in Listed(view) : <<x, y>> \in Order(view) <=> x < y
    BY <1>1, <1>2, PairsInOrder DEF Precedes
  <2>2. Listed(view) \subseteq Nat
    BY <1>1, <1>2, ViewsAssumption DEF ViewsAssumption
  <2>3. QED
    BY <1>1, <1>2, <2>1, <2>2, ThingsAreFinite DEF IsOrder
<1>3. CASE view # "queues"
  BY <1>1, <1>3, JobsAreOrdered, ThingsAreFinite
<1>4. QED
  BY <1>2, <1>3

\* A page is what comes before its end and not before its offset.
LEMMA PageIsSlice ==
  ASSUME StampsOK, NEW view, NEW offset \in Nat
  PROVE  /\ Page(view, offset) = First(view, offset + Limit) \ First(view, offset)
         /\ First(view, offset) \subseteq First(view, offset + Limit)
<1> DEFINE before(x) == Cardinality({y \in Listed(view) : Precedes(view, y, x)})
<1>1. ASSUME NEW x \in Listed(view) PROVE before(x) = Rank(Order(view), Listed(view), x)
  <2>1. {y \in Listed(view) : Precedes(view, y, x)} = Above(Order(view), Listed(view), x)
    BY ListsAreOrdered, PairsInOrder DEF Above
  <2>2. QED
    BY <2>1 DEF Rank
<1>2. ASSUME NEW x \in Listed(view) PROVE before(x) \in Nat
  BY <1>1, ListsAreOrdered, RanksFollowOrder, FS_CardinalityType
<1>3. Limit \in Nat
  BY ViewsAssumption DEF ViewsAssumption
<1>4. /\ Page(view, offset) = {x \in Listed(view) : offset <= before(x) /\ before(x) < offset + Limit}
      /\ \A n : First(view, n) = {x \in Listed(view) : before(x) < n}
  BY <1>1 DEF Page, First, Top
<1> HIDE DEF before
<1>5. QED
  BY <1>2, <1>3, <1>4

\* A row keeps its time of creation for good, and that of its burial while it
\* is a dead letter.
LEMMA StampsAreKept ==
  ASSUME IInv, StampsOK, Write
  PROVE  /\ StampsOK'
         /\ \A j \in Job : j \in issued => created'[j] = created[j]
         /\ \A j \in Job : HasStatus(j, {"dead_letter"}) => buried'[j] = buried[j]
<1>1. PICK t \in TxNow :
        /\ created' = [j \in Job |-> IF j \in issued' \ issued THEN t ELSE created[j]]
        /\ buried' = [j \in Job |-> IF HasStatus(j, {"dead_letter"})' /\ ~HasStatus(j, {"dead_letter"})
                                    THEN t ELSE buried[j]]
  BY DEF Write
<1>2. t \in Nat
  BY TxNowIsTime
<1>3. QED
  BY <1>1, <1>2 DEF StampsOK

\* So the rows of a list that stay in it stay in order.
LEMMA OrderIsKept ==
  ASSUME IInv, StampsOK, Write, NEW view
  PROVE  /\ Agree(Order(view), Listed(view), Order(view)', Listed(view)')
         /\ Agree(Order(view)', Listed(view)', Order(view), Listed(view))
<1> SUFFICES ASSUME NEW x \in Listed(view), NEW y \in Listed(view)
             PROVE  <<x, y>> \in Order(view) <=> <<x, y>> \in Order(view)'
  BY DEF Agree
<1>1. x \in Thing /\ y \in Thing
  BY ListsAreOrdered
<1>2. Precedes(view, x, y) <=> Precedes(view, x, y)'
  <2>1. CASE view = "queues"
    BY <2>1 DEF Precedes
  <2>2. CASE view = "dead_letters"
    <3>1. \A z \in Listed(view) : z \in Job /\ HasStatus(z, {"dead_letter"})
      BY <2>2 DEF Listed, JobStatus
    <3>2. buried'[x] = buried[x] /\ buried'[y] = buried[y]
      BY <3>1, StampsAreKept
    <3>3. QED
      BY <2>2, <3>2 DEF Precedes
  <2>3. CASE view # "queues" /\ view # "dead_letters"
    <3>1. \A z \in Listed(view) : z \in Job /\ Exists(z)
      <4>1. CASE view \in JobStatus
        BY <2>3, <4>1 DEF Listed, HasStatus
      <4>2. CASE view \notin JobStatus
        BY <2>3, <4>2 DEF Listed
      <4>3. QED
        BY <4>1, <4>2
    <3>2. \A z \in Job : Exists(z) => z \in issued
      BY DEF IInv, IdsAreIssued
    <3>3. created'[x] = created[x] /\ created'[y] = created[y]
      BY <3>1, <3>2, StampsAreKept
    <3>4. QED
      BY <2>3, <3>3 DEF Precedes
  <2>4. QED
    BY <2>1, <2>2, <2>3
<1>3. QED
  BY <1>1, <1>2 DEF Order

\* ListsAreOrdered, after a step.
LEMMA ListsAreOrderedPrime ==
  StampsOK' => \A view : /\ Listed(view)' \subseteq Thing /\ IsFiniteSet(Listed(view)')
                         /\ IsOrder(Order(view)', Listed(view)')
<1> DEFINE Lists ==
      StampsOK => \A view : /\ Listed(view) \subseteq Thing /\ IsFiniteSet(Listed(view))
                            /\ IsOrder(Order(view), Listed(view))
<1>1. Lists
  BY ListsAreOrdered
<1>2. Lists'
  BY <1>1, PTL
<1>3. QED
  BY <1>2 DEF IsOrder

\* How far a write moves the rows of a list: off the top by the rows that come,
\* and up to it by the rows that leave.
LEMMA WriteMoves ==
  ASSUME IInv, StampsOK, Write, NEW view, NEW n \in Nat
  PROVE  /\ Cardinality((First(view, n) \cap Listed(view)') \ First(view, n)')
              <= Cardinality(First(view, n)' \ Listed(view))
         /\ Cardinality((First(view, n)' \cap Listed(view)) \ First(view, n))
              <= Cardinality(First(view, n) \ Listed(view)')
<1>1. /\ IsFiniteSet(Listed(view)) /\ IsOrder(Order(view), Listed(view))
      /\ IsFiniteSet(Listed(view)') /\ IsOrder(Order(view)', Listed(view)')
  BY ListsAreOrdered, ListsAreOrderedPrime, StampsAreKept
<1>2. First(view, n)' = Top(Order(view)', Listed(view)', n)
  BY DEF First, Top, Rank, Above
<1>3. QED
  BY <1>1, <1>2, OrderIsKept, PushedOff DEF First

------------------------------------------------------------------------------
(* The reader. *)

ReaderFields == {"view", "pc", "offset", "rows", "shown", "total", "counts", "oldest"}

ReaderOK ==
  /\ reader = [f \in ReaderFields |-> reader[f]]
  /\ reader.pc \in {"idle", "oldest", "stats", "not_found", "total", "rows", "walked"}
  /\ reader.offset \in Nat /\ reader.rows \in Nat /\ reader.shown \subseteq Thing

WatchOK == watch \in [steady : SUBSET Thing, departures : Nat, arrivals : Nat]

\* What stayed in view since the request or the walk began is in view.
SteadyOK == Watching => watch.steady \subseteq InView

ViewsTypeOK == StampsOK /\ ReaderOK /\ WatchOK /\ SteadyOK

\* The jobs of a queue are jobs.
LEMMA ViewsAreThings ==
  ASSUME StampsOK
  PROVE  InView \subseteq Thing /\ \A q, S : InQueue(q, S) \subseteq Job
BY ListsAreOrdered DEF InView, InQueue, Thing

\* Also after a step.
LEMMA ViewsAreThingsPrime == StampsOK' => (InView \subseteq Thing)'
<1>1. StampsOK => InView \subseteq Thing
  BY ViewsAreThings
<1>2. QED
  BY <1>1, PTL

\* What a write makes of the watch over what the reader reads.
LEMMA WriteWatch ==
  ASSUME IInv, ViewsTypeOK, Write
  PROVE  /\ reader' = reader /\ WatchOK'
         /\ Watching => /\ watch'.steady = watch.steady \cap InView'
                        /\ watch'.departures = watch.departures + Cardinality(InView \ InView')
                        /\ watch'.arrivals = watch.arrivals + Cardinality(InView' \ InView)
<1>1. /\ reader' = reader
      /\ watch' = IF Watching
                  THEN [steady     |-> watch.steady \cap InView',
                        departures |-> watch.departures + Cardinality(InView \ InView'),
                        arrivals   |-> watch.arrivals + Cardinality(InView' \ InView)]
                  ELSE watch
  BY DEF Write
<1>2. InView \subseteq Thing /\ InView' \subseteq Thing
  BY StampsAreKept, ViewsAreThings, ViewsAreThingsPrime DEF ViewsTypeOK
<1>3. Cardinality(InView \ InView') \in Nat /\ Cardinality(InView' \ InView) \in Nat
  BY <1>2, ThingsAreFinite
<1>4. QED
  BY <1>1, <1>3 DEF WatchOK, ViewsTypeOK

\* What reading the rows of a page makes of the reader.
LEMMA RowsEffect ==
  ASSUME ViewsTypeOK, ReadRows
  PROVE  LET P == Page(reader.view, reader.offset)
         IN  /\ reader.pc = "rows" /\ reader'.view = reader.view
             /\ reader'.pc = IF Cardinality(P) < Limit THEN "walked" ELSE "total"
             /\ reader' = [f \in ReaderFields |-> reader'[f]]
             /\ reader'.offset = reader.offset + Limit /\ reader'.offset \in Nat
             /\ reader'.rows = reader.rows + Cardinality(P)
             /\ reader'.shown = reader.shown \cup P
             /\ P \subseteq Listed(reader.view) /\ P \subseteq Thing /\ Cardinality(P) \in Nat
             /\ UNCHANGED <<vars, created, buried, watch>>
<1> DEFINE P == Page(reader.view, reader.offset)
<1>1. P \subseteq Listed(reader.view) /\ P \subseteq Thing /\ Cardinality(P) \in Nat
  BY ListsAreOrdered, ThingsAreFinite DEF Page, ViewsTypeOK
<1>2. reader.offset + Limit \in Nat
  BY ViewsAssumption DEF ViewsAssumption, ViewsTypeOK, ReaderOK
<1> HIDE DEF P
<1>3. /\ reader.pc = "rows"
      /\ reader' = [reader EXCEPT !.rows = @ + Cardinality(P), !.shown = @ \cup P,
                                  !.offset = @ + Limit,
                                  !.pc = IF Cardinality(P) < Limit THEN "walked" ELSE "total"]
      /\ UNCHANGED <<vars, created, buried, watch>>
  BY DEF ReadRows, P
<1>4. /\ reader'.view = reader.view
      /\ reader'.pc = IF Cardinality(P) < Limit THEN "walked" ELSE "total"
      /\ reader' = [f \in ReaderFields |-> reader'[f]]
      /\ reader'.offset = reader.offset + Limit
      /\ reader'.rows = reader.rows + Cardinality(P)
      /\ reader'.shown = reader.shown \cup P
  BY <1>3 DEF ViewsTypeOK, ReaderOK, ReaderFields
<1>5. QED
  BY <1>1, <1>2, <1>3, <1>4 DEF P

\* A read leaves the lists as they are.
LEMMA ListIsKept == ASSUME UNCHANGED vars, NEW view PROVE Listed(view)' = Listed(view)
<1>1. jobs' = jobs
  BY DEF vars
<1>2. /\ \A j, S : HasStatus(j, S)' = HasStatus(j, S) /\ Exists(j)' = Exists(j)
      /\ \A q : JobCount(q)' = JobCount(q)
  BY <1>1 DEF JobCount, InQueue, HasStatus, Exists
<1>3. QED
  BY <1>2 DEF Listed

\* The reader's types, and what it watches, are kept.
LEMMA ViewsTypeStep ==
  ASSUME IInv, ViewsTypeOK, [ViewsNext]_viewVars
  PROVE  ViewsTypeOK'
<1> USE DEF ReaderFields
<1>1. CASE ReadCounts
  <2>1. PICK q \in Queue :
          /\ reader' = [Idle EXCEPT !.view = q, !.counts = StatusCounts(q),
               !.pc = CASE JobCount(q) = 0                -> "not_found"
                        [] Depth(StatusCounts(q)) = 0     -> "stats"
                        [] OTHER                          -> "oldest"]
          /\ watch' = [Unwatched EXCEPT !.steady = InQueue(q, DepthStatuses)]
          /\ UNCHANGED <<vars, created, buried>>
    BY <1>1 DEF ReadCounts
  <2>2. StampsOK'
    BY <2>1 DEF StampsOK, ViewsTypeOK
  <2>3. /\ reader'.view = q /\ reader'.pc \in {"not_found", "stats", "oldest"}
        /\ reader' = [f \in ReaderFields |-> reader'[f]]
        /\ reader'.offset = 0 /\ reader'.rows = 0 /\ reader'.shown = {}
    <3> DEFINE pc == CASE JobCount(q) = 0                -> "not_found"
                       [] Depth(StatusCounts(q)) = 0     -> "stats"
                       [] OTHER                          -> "oldest"
    <3>1. pc \in {"not_found", "stats", "oldest"}
      OBVIOUS
    <3>2. reader' = [Idle EXCEPT !.view = q, !.counts = StatusCounts(q), !.pc = pc]
      BY <2>1
    <3> HIDE DEF pc
    <3>3. QED
      BY <3>1, <3>2 DEF Idle
  <2>4. watch' = [steady |-> InQueue(q, DepthStatuses), departures |-> 0, arrivals |-> 0]
    BY <2>1 DEF Unwatched
  <2>5. WatchOK'
    BY <2>4, ViewsAreThings DEF WatchOK, ViewsTypeOK, Thing
  <2>6. SteadyOK'
    BY <2>1, <2>3, <2>4 DEF SteadyOK, Watching, InView, InQueue, HasStatus, Exists, vars
  <2>7. QED
    BY <2>2, <2>3, <2>5, <2>6 DEF ViewsTypeOK, ReaderOK
<1>2. CASE ReadOldest
  <2>1. /\ reader'.pc = "stats" /\ reader.pc = "oldest" /\ reader'.view = reader.view
        /\ reader' = [f \in ReaderFields |-> reader'[f]]
        /\ reader'.offset = reader.offset /\ reader'.rows = reader.rows
        /\ reader'.shown = reader.shown
        /\ UNCHANGED <<vars, created, buried, watch>>
    BY <1>2 DEF ReadOldest, ViewsTypeOK, ReaderOK
  <2>2. SteadyOK'
    BY <2>1 DEF ViewsTypeOK, SteadyOK, Watching, InView, InQueue, HasStatus, Exists, vars
  <2>3. QED
    BY <2>1, <2>2 DEF ViewsTypeOK, StampsOK, ReaderOK, WatchOK
<1>3. CASE ReadTotal
  <2>1. CASE reader.pc = "idle"
    <3>1. PICK view \in Views \ {"stats"} :
            /\ reader' = [Idle EXCEPT !.view = view, !.pc = "rows",
                                      !.total = Cardinality(Listed(view))]
            /\ watch' = [Unwatched EXCEPT !.steady = Listed(view)]
            /\ UNCHANGED <<vars, created, buried>>
      BY <1>3, <2>1 DEF ReadTotal
    <3>2. /\ reader'.view = view /\ reader'.pc = "rows"
          /\ reader' = [f \in ReaderFields |-> reader'[f]]
          /\ reader'.offset = 0 /\ reader'.rows = 0 /\ reader'.shown = {}
      BY <3>1 DEF Idle
    <3>3. watch' = [steady |-> Listed(view), departures |-> 0, arrivals |-> 0]
      BY <3>1 DEF Unwatched
    <3>4. WatchOK'
      BY <3>3, ListsAreOrdered DEF WatchOK, ViewsTypeOK
    <3>5. SteadyOK'
      BY <3>1, <3>2, <3>3, ListIsKept DEF SteadyOK, InView
    <3>6. QED
      BY <3>1, <3>2, <3>4, <3>5 DEF ViewsTypeOK, StampsOK, ReaderOK
  <2>2. CASE reader.pc = "total"
    <3>1. /\ reader'.pc = "rows" /\ reader'.view = reader.view
          /\ reader' = [f \in ReaderFields |-> reader'[f]]
          /\ reader'.offset = reader.offset /\ reader'.rows = reader.rows
          /\ reader'.shown = reader.shown
          /\ UNCHANGED <<vars, created, buried, watch>>
      BY <1>3, <2>2 DEF ReadTotal, ViewsTypeOK, ReaderOK
    <3>2. SteadyOK'
      BY <2>2, <3>1, ListIsKept DEF ViewsTypeOK, SteadyOK, Watching, InView
    <3>3. QED
      BY <3>1, <3>2 DEF ViewsTypeOK, StampsOK, ReaderOK, WatchOK
  <2>3. QED
    BY <1>3, <2>1, <2>2 DEF ReadTotal
<1>4. CASE ReadRows
  <2> DEFINE P == Page(reader.view, reader.offset)
  <2>1. /\ reader.pc = "rows" /\ reader'.view = reader.view
        /\ reader'.pc \in {"walked", "total"}
        /\ reader' = [f \in ReaderFields |-> reader'[f]]
        /\ reader'.offset \in Nat /\ reader'.rows \in Nat /\ reader'.shown \subseteq Thing
        /\ UNCHANGED <<vars, created, buried, watch>>
    BY <1>4, RowsEffect DEF ViewsTypeOK, ReaderOK
  <2>2. InView' = Listed(reader.view)
    BY <2>1 DEF InView, Listed, JobCount, InQueue, HasStatus, Exists, vars
  <2>3. InView = Listed(reader.view) /\ Watching
    BY <2>1 DEF InView, Watching
  <2>4. SteadyOK'
    BY <2>1, <2>2, <2>3 DEF ViewsTypeOK, SteadyOK
  <2>5. QED
    BY <2>1, <2>4 DEF ViewsTypeOK, StampsOK, ReaderOK, WatchOK
<1>5. CASE Finish
  <2>1. reader' = Idle /\ watch' = Unwatched /\ UNCHANGED <<vars, created, buried>>
    BY <1>5 DEF Finish
  <2>2. QED
    BY <2>1 DEF Idle, Unwatched, ViewsTypeOK, StampsOK, ReaderOK, WatchOK, SteadyOK, Watching
<1>6. CASE Write
  <2>1. reader' = reader /\ WatchOK' /\ (Watching => watch'.steady = watch.steady \cap InView')
    BY <1>6, WriteWatch
  <2>2. SteadyOK'
    BY <2>1 DEF SteadyOK, Watching
  <2>3. QED
    BY <1>6, <2>1, <2>2, StampsAreKept DEF ViewsTypeOK, ReaderOK
<1>7. CASE UNCHANGED viewVars
  BY <1>7
  DEF viewVars, ViewsTypeOK, StampsOK, ReaderOK, WatchOK, SteadyOK, Watching, InView, Listed,
      JobCount, InQueue, HasStatus, Exists, vars
<1>8. QED
  BY <1>1, <1>2, <1>3, <1>4, <1>5, <1>6, <1>7 DEF ViewsNext

------------------------------------------------------------------------------
(* The statistics. *)

StatsOK ==
  /\ reader.pc = "oldest" =>
       /\ reader.oldest = NULL
       /\ \A j \in watch.steady : reader.counts[jobs[j].status] > 0
  /\ reader.pc = "stats" /\ reader.oldest # NULL =>
       reader.oldest.job \in Job /\ reader.oldest.job \in issued
  /\ StatsAreExplained

\* A job cannot leave a waiting status for another in one step.
LEMMA WaitingKeepsStatus ==
  ASSUME IInv, [Next]_vars, NEW j \in Job,
         HasStatus(j, DepthStatuses), HasStatus(j, DepthStatuses)'
  PROVE  jobs'[j].status = jobs[j].status
<1>1. RowOK(jobs[j]) /\ j \in issued /\ jobs[j].status \in DepthStatuses
  BY RowFacts DEF HasStatus
<1>2. jobs'[j] # NULL /\ jobs'[j].status \in {"queued", "scheduled", "retrying"}
  BY DEF HasStatus, Exists, DepthStatuses
<1>3. ~Created(j) /\ ~Deleted(j) /\ ~Rearmed(j) /\ ~Extended(j)
  BY <1>1 DEF Created, Deleted, Rearmed, Extended, HasStatus, DepthStatuses, Retryable
<1>4. ~Reaped(j) /\ ~GivenBack(j) /\ ~Reported(j)
  BY <1>1 DEF Reaped, GivenBack, Reported, HasStatus, DepthStatuses
<1>5. ~Withdrawn(j)
  BY <1>1, <1>2 DEF Withdrawn, Cancelled, RowOK, JobRow
<1>6. ~Started(j)
  BY <1>1, <1>2 DEF Started, Claimed, RowOK, JobRow
<1>7. QED
  BY <1>3, <1>4, <1>5, <1>6, RowSteps DEF RowStep, RowUnchanged

\* The counts count every waiting job.
LEMMA CountsSeeWaiting ==
  ASSUME NEW q
  PROVE  /\ \A j \in InQueue(q, DepthStatuses) : StatusCounts(q)[jobs[j].status] > 0
         /\ Depth(StatusCounts(q)) = 0 => InQueue(q, DepthStatuses) = {}
<1> DEFINE n == StatusCounts(q)
<1>1. \A s \in JobStatus : n[s] = Cardinality(InQueue(q, {s})) /\ n[s] \in Nat
  <2>1. \A s : InQueue(q, {s}) \in SUBSET Thing
    BY DEF InQueue, Thing
  <2>2. QED
    BY <2>1, ThingsAreFinite DEF StatusCounts
<1>2. ASSUME NEW j \in InQueue(q, DepthStatuses)
      PROVE  jobs[j].status \in DepthStatuses /\ n[jobs[j].status] > 0
  <2> DEFINE s == jobs[j].status
  <2>1. s \in DepthStatuses /\ s \in JobStatus /\ j \in InQueue(q, {s})
    BY DEF InQueue, HasStatus, DepthStatuses, JobStatus
  <2>2. IsFiniteSet(InQueue(q, {s}))
    BY ThingsAreFinite DEF InQueue, Thing
  <2>3. Cardinality(InQueue(q, {s})) # 0
    BY <2>1, <2>2, FS_EmptySet
  <2>4. QED
    BY <1>1, <2>1, <2>3
<1>3. Depth(n) = n["queued"] + n["scheduled"] + n["retrying"]
  BY DEF Depth
<1>4. n["queued"] \in Nat /\ n["scheduled"] \in Nat /\ n["retrying"] \in Nat
  BY <1>1 DEF JobStatus
<1>5. ASSUME Depth(n) = 0, NEW j \in InQueue(q, DepthStatuses) PROVE FALSE
  <2>1. jobs[j].status \in {"queued", "scheduled", "retrying"} /\ n[jobs[j].status] > 0
    BY <1>2, <1>5 DEF DepthStatuses
  <2> HIDE DEF n
  <2>2. n["queued"] + n["scheduled"] + n["retrying"] = 0
    BY <1>3, <1>5
  <2>3. n["queued"] = 0 /\ n["scheduled"] = 0 /\ n["retrying"] = 0
    BY <1>4, <2>2
  <2>4. QED
    BY <2>1, <2>3
<1>6. QED
  BY <1>2, <1>5

\* Of some waiting jobs one is the oldest.
LEMMA OldestExists ==
  ASSUME StampsOK, NEW q, InQueue(q, DepthStatuses) # {}
  PROVE  Oldest(InQueue(q, DepthStatuses)) # {}
<1> DEFINE S == InQueue(q, DepthStatuses)
<1>1. S \in SUBSET Job /\ S \subseteq Thing
  BY DEF InQueue, Thing
<1>2. IsOrder(Order("jobs"), S) /\ IsFiniteSet(S)
  BY <1>1, JobsAreOrdered, ThingsAreFinite
<1>3. PICK x \in S : \A y \in S \ {x} : <<y, x>> \in Order("jobs")
  BY <1>2, LastExists
<1>4. \A y \in S \ {x} : Precedes("jobs", y, x)
  BY <1>1, <1>3, PairsInOrder
<1>5. QED
  BY <1>4 DEF Oldest

\* The statistics stay explained.
LEMMA StatsStep ==
  ASSUME IInv, ViewsTypeOK, StatsOK, [ViewsNext]_viewVars
  PROVE  StatsOK'
<1> USE DEF ReaderFields
<1>1. CASE ReadCounts
  <2>1. PICK q \in Queue :
          /\ reader' = [Idle EXCEPT !.view = q, !.counts = StatusCounts(q),
               !.pc = CASE JobCount(q) = 0                -> "not_found"
                        [] Depth(StatusCounts(q)) = 0     -> "stats"
                        [] OTHER                          -> "oldest"]
          /\ watch' = [Unwatched EXCEPT !.steady = InQueue(q, DepthStatuses)]
          /\ UNCHANGED <<vars, created, buried>>
    BY <1>1 DEF ReadCounts
  <2>2. /\ reader'.counts = StatusCounts(q) /\ reader'.oldest = NULL
        /\ reader'.pc = "stats" => Depth(StatusCounts(q)) = 0
    <3> DEFINE pc == CASE JobCount(q) = 0                -> "not_found"
                       [] Depth(StatusCounts(q)) = 0     -> "stats"
                       [] OTHER                          -> "oldest"
    <3>1. pc = "stats" => Depth(StatusCounts(q)) = 0
      OBVIOUS
    <3>2. reader' = [Idle EXCEPT !.view = q, !.counts = StatusCounts(q), !.pc = pc]
      BY <2>1
    <3> HIDE DEF pc
    <3>3. QED
      BY <3>1, <3>2 DEF Idle
  <2>3. watch'.steady = InQueue(q, DepthStatuses) /\ jobs' = jobs
    BY <2>1 DEF Unwatched, vars
  <2>4. QED
    BY <2>2, <2>3, CountsSeeWaiting DEF StatsOK, StatsAreExplained
<1>2. CASE ReadOldest
  <2> DEFINE W == InQueue(reader.view, DepthStatuses)
  <2>1. /\ reader.pc = "oldest" /\ reader.oldest = NULL /\ watch.steady \subseteq W
        /\ \A j \in watch.steady : reader.counts[jobs[j].status] > 0
        /\ UNCHANGED <<vars, created, buried, watch>>
    BY <1>2 DEF ReadOldest, StatsOK, ViewsTypeOK, SteadyOK, Watching, InView
  <2>2. ASSUME NEW j \in Oldest(W),
               reader' = [reader EXCEPT !.pc = "stats",
                            !.oldest = [job |-> j, status |-> jobs[j].status]]
        PROVE  StatsOK'
    <3>1. j \in W /\ \A y \in W \ {j} : Precedes("jobs", y, j)
      BY <2>2 DEF Oldest
    <3>2. j \in Job /\ Exists(j) /\ jobs[j].status \in JobStatus
      BY <3>1 DEF InQueue, HasStatus, DepthStatuses, JobStatus
    <3>3. j \in issued
      BY <3>2, RowFacts
    <3>4. /\ reader'.counts = reader.counts /\ reader'.pc = "stats"
          /\ reader'.oldest = [job |-> j, status |-> jobs[j].status]
      BY <2>2 DEF ViewsTypeOK, ReaderOK
    <3>5. reader'.oldest # NULL
      BY <3>2, <3>4, ViewsAssumption DEF ViewsAssumption
    <3>6. \A y \in watch'.steady \ {j} : Precedes("jobs", y, j)'
      BY <2>1, <3>1 DEF Precedes
    <3>7. QED
      BY <2>1, <3>2, <3>3, <3>4, <3>5, <3>6 DEF StatsOK, StatsAreExplained, vars
  <2>3. ASSUME Oldest(W) = {}, reader' = [reader EXCEPT !.pc = "stats"]
        PROVE  StatsOK'
    <3>1. watch'.steady = {}
      BY <2>1, <2>3, OldestExists DEF ViewsTypeOK
    <3>2. reader'.pc = "stats" /\ reader'.oldest = NULL
      BY <2>1, <2>3 DEF ViewsTypeOK, ReaderOK
    <3>3. QED
      BY <3>1, <3>2 DEF StatsOK, StatsAreExplained
  <2>4. QED
    BY <1>2, <2>2, <2>3 DEF ReadOldest
<1>3. CASE ReadTotal \/ ReadRows \/ Finish
  <2>1. reader'.pc \notin {"oldest", "stats"}
    <3>1. CASE ReadRows
      BY <3>1, RowsEffect
    <3>2. CASE Finish
      BY <3>2 DEF Finish, Idle
    <3>3. CASE ReadTotal
      BY <3>3 DEF ReadTotal, Idle, ViewsTypeOK, ReaderOK
    <3>4. QED
      BY <1>3, <3>1, <3>2, <3>3
  <2>2. QED
    BY <2>1 DEF StatsOK, StatsAreExplained
<1>4. CASE Write
  <2>1. /\ reader' = reader /\ [Next]_vars
        /\ Watching => watch'.steady = watch.steady \cap InView' /\ watch.steady \subseteq InView
    BY <1>4, WriteWatch DEF Write, ViewsTypeOK, SteadyOK
  <2>2. CASE reader.pc = "oldest"
    <3>1. ASSUME NEW j \in watch'.steady PROVE reader'.counts[jobs'[j].status] > 0
      <4>1. /\ j \in watch.steady /\ j \in InQueue(reader.view, DepthStatuses)
            /\ j \in InQueue(reader.view, DepthStatuses)'
        BY <2>1, <2>2, <3>1 DEF Watching, InView
      <4>2. j \in Job /\ HasStatus(j, DepthStatuses) /\ HasStatus(j, DepthStatuses)'
        BY <4>1 DEF InQueue
      <4>3. jobs'[j].status = jobs[j].status
        BY <2>1, <4>2, WaitingKeepsStatus
      <4>4. QED
        BY <2>1, <2>2, <4>1, <4>3 DEF StatsOK
    <3>2. QED
      BY <2>1, <2>2, <3>1 DEF StatsOK, StatsAreExplained
  <2>3. CASE reader.pc = "stats"
    <3>1. watch'.steady \subseteq watch.steady /\ watch.steady \subseteq InQueue(reader.view, DepthStatuses)
      BY <2>1, <2>3 DEF Watching, InView
    <3>2. CASE reader.oldest = NULL
      BY <2>1, <2>3, <3>1, <3>2 DEF StatsOK, StatsAreExplained
    <3>3. CASE reader.oldest # NULL
      <4> DEFINE o == reader.oldest.job
      <4>1. /\ o \in Job /\ o \in issued /\ o \in issued'
            /\ \A j \in watch.steady \ {o} : Precedes("jobs", j, o)
            /\ o \in watch.steady => reader.counts[reader.oldest.status] > 0
        BY <2>1, <2>3, <3>3, JobIsKept DEF StatsOK, StatsAreExplained
      <4>2. \A j \in watch.steady : j \in Job /\ j \in issued
        BY <3>1, RowFacts DEF InQueue, HasStatus
      <4>3. created'[o] = created[o] /\ \A j \in watch.steady : created'[j] = created[j]
        BY <1>4, <4>1, <4>2, StampsAreKept DEF ViewsTypeOK
      <4>4. \A j \in watch'.steady \ {o} : Precedes("jobs", j, o)'
        BY <2>1, <3>1, <4>1, <4>3 DEF Precedes
      <4>5. QED
        BY <2>1, <2>3, <3>1, <3>3, <4>1, <4>4 DEF StatsOK, StatsAreExplained
    <3>4. QED
      BY <3>2, <3>3
  <2>4. CASE reader.pc \notin {"oldest", "stats"}
    BY <2>1, <2>4 DEF StatsOK, StatsAreExplained
  <2>5. QED
    BY <2>2, <2>3, <2>4
<1>5. CASE UNCHANGED viewVars
  BY <1>5 DEF viewVars, vars, StatsOK, StatsAreExplained, Precedes
<1>6. QED
  BY <1>1, <1>2, <1>3, <1>4, <1>5 DEF ViewsNext

------------------------------------------------------------------------------
(* Walks.  Before holds the rows the walk has behind it, whether it showed   *)
(* them or they moved there.                                                 *)

Rows == Listed(reader.view)

Before == First(reader.view, reader.offset)

\* A row that was there all along, is behind the walk and was not shown, has
\* been moved there by a departure.
LostOK ==
  /\ reader.pc \in {"total", "rows"} =>
       Cardinality((watch.steady \ reader.shown) \cap Before) <= watch.departures
  /\ WalkLosesAtMostDepartures

\* A row that was shown and is ahead of the walk will be shown again; an
\* arrival has moved it there, or had it shown again already.
RepeatOK ==
  reader.pc \in {"total", "rows", "walked"} =>
    reader.rows + Cardinality((Rows \cap reader.shown) \ Before)
      <= watch.arrivals + Cardinality(reader.shown)

\* Sets of jobs and queues have sizes that add up.
LEMMA SizesAddUp ==
  ASSUME NEW A \in SUBSET Thing, NEW B \in SUBSET Thing
  PROVE  /\ Cardinality(A \cup B) = Cardinality(A) + Cardinality(B) - Cardinality(A \cap B)
         /\ Cardinality(A \cup B) <= Cardinality(A) + Cardinality(B)
         /\ A \cap B = {} => Cardinality(A \cup B) = Cardinality(A) + Cardinality(B)
         /\ A \subseteq B => Cardinality(A) <= Cardinality(B)
<1>1. /\ IsFiniteSet(A) /\ IsFiniteSet(B)
      /\ Cardinality(A) \in Nat /\ Cardinality(B) \in Nat /\ Cardinality(A \cap B) \in Nat
  BY ThingsAreFinite
<1>2. Cardinality(A \cup B) = Cardinality(A) + Cardinality(B) - Cardinality(A \cap B)
  BY <1>1, FS_Union
<1>3. A \cap B = {} => Cardinality(A \cap B) = 0
  BY FS_EmptySet
<1>4. A \subseteq B => Cardinality(A) <= Cardinality(B)
  BY <1>1, FS_Subset
<1>5. QED
  BY <1>1, <1>2, <1>3, <1>4

\* The rows s that stay and the rows t that were shown, around an offset, when
\* L becomes M and the rows before the offset, F, become G.
LEMMA MovesAreCounted ==
  ASSUME NEW L \in SUBSET Thing, NEW M \in SUBSET Thing,
         NEW F \in SUBSET L, NEW G \in SUBSET M,
         NEW s \in SUBSET L, NEW t \in SUBSET Thing,
         Cardinality((F \cap M) \ G) <= Cardinality(G \ L),
         Cardinality((G \cap L) \ F) <= Cardinality(F \ M)
  PROVE  /\ Cardinality(((s \cap M) \ t) \cap G)
              <= Cardinality((s \ t) \cap F) + Cardinality(L \ M)
         /\ Cardinality((M \cap t) \ G) <= Cardinality((L \cap t) \ F) + Cardinality(M \ L)
<1> DEFINE lost == (s \ t) \cap F
           again == (L \cap t) \ F
           up == (G \cap L) \ F
           down == (F \cap M) \ G
<1>1. /\ lost \in SUBSET Thing /\ again \in SUBSET Thing /\ up \in SUBSET Thing
      /\ down \in SUBSET Thing /\ L \ M \in SUBSET Thing /\ M \ L \in SUBSET Thing
      /\ F \ M \in SUBSET Thing /\ G \ L \in SUBSET Thing /\ (M \ L) \ G \in SUBSET Thing
      /\ ((s \cap M) \ t) \cap G \in SUBSET Thing /\ (M \cap t) \ G \in SUBSET Thing
  OBVIOUS
<1>2. Cardinality(((s \cap M) \ t) \cap G) <= Cardinality(lost) + Cardinality(L \ M)
  <2> DEFINE X == ((s \cap M) \ t) \cap G
  <2>1. X \subseteq lost \cup up /\ F \ M \subseteq L \ M /\ lost \cup up \in SUBSET Thing
    BY <1>1
  <2>2. /\ Cardinality(X) <= Cardinality(lost \cup up)
        /\ Cardinality(lost \cup up) <= Cardinality(lost) + Cardinality(up)
        /\ Cardinality(up) <= Cardinality(F \ M)
        /\ Cardinality(F \ M) <= Cardinality(L \ M)
    BY <1>1, <2>1, SizesAddUp
  <2> HIDE DEF X, lost, up
  <2>3. /\ Cardinality(X) \in Nat /\ Cardinality(lost \cup up) \in Nat
        /\ Cardinality(lost) \in Nat /\ Cardinality(up) \in Nat
        /\ Cardinality(F \ M) \in Nat /\ Cardinality(L \ M) \in Nat
    BY <1>1, <2>1, ThingsAreFinite DEF X
  <2>4. Cardinality(X) <= Cardinality(lost) + Cardinality(L \ M)
    BY <2>2, <2>3
  <2>5. QED
    BY <2>4 DEF X
<1>3. Cardinality((M \cap t) \ G) <= Cardinality(again) + Cardinality(M \ L)
  <2> DEFINE X == (M \cap t) \ G
             in == G \ L
             new == (M \ L) \ G
  <2>1. /\ X \subseteq again \cup (down \cup new) /\ in \cup new = M \ L /\ in \cap new = {}
        /\ down \cup new \in SUBSET Thing /\ again \cup (down \cup new) \in SUBSET Thing
    BY <1>1
  <2>2. /\ Cardinality(X) <= Cardinality(again \cup (down \cup new))
        /\ Cardinality(again \cup (down \cup new)) <= Cardinality(again) + Cardinality(down \cup new)
        /\ Cardinality(down \cup new) <= Cardinality(down) + Cardinality(new)
        /\ Cardinality(down) <= Cardinality(in)
        /\ Cardinality(M \ L) = Cardinality(in) + Cardinality(new)
    BY <1>1, <2>1, SizesAddUp
  <2> HIDE DEF X, again, down, in, new
  <2>3. /\ Cardinality(X) \in Nat /\ Cardinality(again \cup (down \cup new)) \in Nat
        /\ Cardinality(again) \in Nat /\ Cardinality(down \cup new) \in Nat
        /\ Cardinality(down) \in Nat /\ Cardinality(new) \in Nat /\ Cardinality(in) \in Nat
    BY <1>1, <2>1, ThingsAreFinite DEF X, in, new
  <2>4. Cardinality(X) <= Cardinality(again) + Cardinality(M \ L)
    BY <2>2, <2>3
  <2>5. QED
    BY <2>4 DEF X
<1>4. QED
  BY <1>2, <1>3

\* What is behind a walk and what it walks over, after a write and after a read.
LEMMA BeforeNext ==
  /\ First(reader.view, reader.offset)' = Top(Order(reader.view)', Listed(reader.view)', reader.offset')
  /\ UNCHANGED <<vars, created, buried>> =>
       /\ Rows' = Listed(reader'.view)
       /\ Before' = First(reader'.view, reader'.offset)
<1>1. First(reader.view, reader.offset)' = Top(Order(reader.view)', Listed(reader.view)', reader.offset')
  BY DEF First, Top, Rank, Above
<1>2. ASSUME UNCHANGED <<vars, created, buried>>
      PROVE  Rows' = Listed(reader'.view) /\ Order(reader.view)' = Order(reader'.view)
  BY <1>2 DEF Rows, Listed, JobCount, InQueue, HasStatus, Exists, vars, Order, Precedes
<1>3. QED
  BY <1>1, <1>2 DEF Before, First, Rows

\* Behind the start of a list there is nothing.
LEMMA FirstFacts ==
  ASSUME StampsOK, NEW view
  PROVE  /\ First(view, 0) = {}
         /\ \A n : First(view, n) \subseteq Listed(view)
<1>1. \A x \in Listed(view) : Rank(Order(view), Listed(view), x) \in Nat
  BY ListsAreOrdered, RanksFollowOrder, FS_CardinalityType
<1>2. QED
  BY <1>1 DEF First, Top

\* A write loses and repeats no more than it counts.
LEMMA WalkWrite ==
  ASSUME IInv, ViewsTypeOK, LostOK, RepeatOK, Write
  PROVE  LostOK' /\ RepeatOK'
<1>1. reader' = reader /\ StampsOK /\ StampsOK' /\ WatchOK
  BY WriteWatch, StampsAreKept DEF ViewsTypeOK
<1>2. CASE reader.pc \notin {"total", "rows", "walked"}
  BY <1>1, <1>2 DEF LostOK, RepeatOK, WalkLosesAtMostDepartures
<1>3. CASE reader.pc \in {"total", "rows", "walked"}
  <2>0. PICK v : v = reader.view
    OBVIOUS
  <2>1. PICK n \in Nat, t \in SUBSET Thing :
          v = reader.view /\ n = reader.offset /\ t = reader.shown
    BY <2>0 DEF ViewsTypeOK, ReaderOK
  <2> DEFINE L == Listed(v)
             M == Listed(v)'
             F == First(v, n)
             G == First(v, n)'
             s == watch.steady
  <2>2. Rows = L /\ Before = F /\ InView = L
    BY <1>3, <2>1 DEF Rows, Before, InView
  <2>3. Rows' = M /\ Before' = G /\ InView' = M
    <3>1. Rows' = M /\ InView' = M
      BY <1>1, <1>3, <2>1
      DEF Rows, InView, Listed, JobCount, InQueue, HasStatus, Exists
    <3>2. Before' = G
      BY <1>1, <2>1 DEF Before, First, Top, Rank, Above, Order, Precedes, Listed, JobCount,
                        InQueue, HasStatus, Exists
    <3>3. QED
      BY <3>1, <3>2
  <2>4. /\ L \in SUBSET Thing /\ M \in SUBSET Thing /\ F \in SUBSET L /\ G \in SUBSET M
        /\ s \in SUBSET L
    <3>1. M \subseteq Thing
      BY <1>1, ListsAreOrderedPrime
    <3>2. G \subseteq M
      BY DEF First, Top
    <3>3. s \subseteq L
      BY <1>3, <2>2 DEF ViewsTypeOK, SteadyOK, Watching
    <3>4. QED
      BY <1>1, <3>1, <3>2, <3>3, ListsAreOrdered, FirstFacts
  <2>5. /\ watch'.steady = s \cap M
        /\ watch'.departures = watch.departures + Cardinality(L \ M)
        /\ watch'.arrivals = watch.arrivals + Cardinality(M \ L)
        /\ watch.departures \in Nat /\ watch.arrivals \in Nat /\ reader.rows \in Nat
    BY <1>1, <1>3, <2>2, <2>3, WriteWatch DEF Watching, WatchOK, ViewsTypeOK, ReaderOK
  <2>6. /\ Cardinality((F \cap M) \ G) <= Cardinality(G \ L)
        /\ Cardinality((G \cap L) \ F) <= Cardinality(F \ M)
    BY <2>1, WriteMoves DEF ViewsTypeOK
  <2> HIDE DEF L, M, F, G, s
  <2>7. /\ Cardinality(((s \cap M) \ t) \cap G) <= Cardinality((s \ t) \cap F) + Cardinality(L \ M)
        /\ Cardinality((M \cap t) \ G) <= Cardinality((L \cap t) \ F) + Cardinality(M \ L)
    BY <2>4, <2>6, MovesAreCounted
  <2>8. /\ Cardinality(L \ M) \in Nat /\ Cardinality(M \ L) \in Nat /\ Cardinality(t) \in Nat
        /\ Cardinality(((s \cap M) \ t) \cap G) \in Nat /\ Cardinality((s \ t) \cap F) \in Nat
        /\ Cardinality((M \cap t) \ G) \in Nat /\ Cardinality((L \cap t) \ F) \in Nat
        /\ Cardinality((s \cap M) \ t) <= Cardinality(s \ t)
        /\ Cardinality((s \cap M) \ t) \in Nat /\ Cardinality(s \ t) \in Nat
    <3>1. /\ L \ M \in SUBSET Thing /\ M \ L \in SUBSET Thing
          /\ ((s \cap M) \ t) \cap G \in SUBSET Thing /\ (s \ t) \cap F \in SUBSET Thing
          /\ (M \cap t) \ G \in SUBSET Thing /\ (L \cap t) \ F \in SUBSET Thing
          /\ (s \cap M) \ t \in SUBSET Thing /\ s \ t \in SUBSET Thing
          /\ (s \cap M) \ t \subseteq s \ t
      BY <2>4
    <3>2. QED
      BY <3>1, ThingsAreFinite, SizesAddUp
  <2>9. reader.pc \in {"total", "rows"} =>
          Cardinality(((s \cap M) \ t) \cap G) <= watch'.departures
    <3>1. reader.pc \in {"total", "rows"} => Cardinality((s \ t) \cap F) <= watch.departures
      BY <2>1, <2>2 DEF LostOK, s
    <3>2. QED
      BY <2>5, <2>7, <2>8, <3>1
  <2>10. reader.pc = "walked" => Cardinality((s \cap M) \ t) <= watch'.departures
    <3>1. reader.pc = "walked" => Cardinality(s \ t) <= watch.departures
      BY <2>1 DEF LostOK, WalkLosesAtMostDepartures, s
    <3>2. QED
      BY <2>5, <2>8, <3>1
  <2>11. reader.rows + Cardinality((M \cap t) \ G) <= watch'.arrivals + Cardinality(t)
    <3>1. reader.rows + Cardinality((L \cap t) \ F) <= watch.arrivals + Cardinality(t)
      BY <1>3, <2>1, <2>2 DEF RepeatOK
    <3>2. QED
      BY <2>5, <2>7, <2>8, <3>1
  <2>12. LostOK'
    BY <1>1, <2>1, <2>3, <2>5, <2>9, <2>10 DEF LostOK, WalkLosesAtMostDepartures
  <2>13. RepeatOK'
    BY <1>1, <2>1, <2>3, <2>11 DEF RepeatOK
  <2>14. QED
    BY <2>12, <2>13
<1>4. QED
  BY <1>2, <1>3

\* Nor does reading a page, and the page that ends a walk leaves nothing ahead.
LEMMA WalkReads ==
  ASSUME ViewsTypeOK, LostOK, RepeatOK, ReadRows
  PROVE  LostOK' /\ RepeatOK'
<1>0. PICK v : v = reader.view
  OBVIOUS
<1>1. PICK n \in Nat, t \in SUBSET Thing, s \in SUBSET Thing :
        v = reader.view /\ n = reader.offset /\ t = reader.shown /\ s = watch.steady
  BY <1>0 DEF ViewsTypeOK, ReaderOK, WatchOK
<1> DEFINE L == Listed(v)
           F == First(v, n)
           G == First(v, n + Limit)
           P == G \ F
<1>2. /\ L \in SUBSET Thing /\ F \in SUBSET Thing /\ G \in SUBSET L /\ F \subseteq G
      /\ P = Page(v, n) /\ P \in SUBSET Thing /\ s \subseteq L
  <2>1. StampsOK /\ (reader.pc = "rows" => s \subseteq L)
    BY <1>1 DEF ViewsTypeOK, SteadyOK, Watching, InView
  <2>2. reader.pc = "rows"
    BY DEF ReadRows
  <2>3. QED
    BY <2>1, <2>2, ListsAreOrdered, FirstFacts, PageIsSlice
<1>3. /\ reader.pc = "rows" /\ reader'.view = v /\ reader'.offset = n + Limit
      /\ reader'.pc = IF Cardinality(P) < Limit THEN "walked" ELSE "total"
      /\ reader'.rows = reader.rows + Cardinality(P) /\ reader.rows \in Nat
      /\ reader'.shown = t \cup P
      /\ watch' = watch /\ UNCHANGED <<vars, created, buried>>
  BY <1>1, <1>2, RowsEffect DEF ViewsTypeOK, ReaderOK
<1>4. Rows = L /\ Before = F /\ Rows' = L /\ Before' = G
  BY <1>1, <1>3, BeforeNext DEF Rows, Before
<1>5. watch.departures \in Nat /\ watch.arrivals \in Nat
  BY DEF ViewsTypeOK, WatchOK
<1>6. Cardinality(P) < Limit => G = L
  <2>1. /\ Cardinality(F) <= n /\ (G # L => Cardinality(G) = n + Limit) /\ Limit \in Nat
        /\ n + Limit \in Nat
    <3>1. IsFiniteSet(L) /\ IsOrder(Order(v), L)
      BY ListsAreOrdered DEF ViewsTypeOK
    <3>2. Limit \in Nat /\ n + Limit \in Nat
      BY ViewsAssumption DEF ViewsAssumption
    <3>3. QED
      BY <3>1, <3>2, TopSize DEF First
  <2> HIDE DEF L, F, G
  <2>2. /\ IsFiniteSet(G) /\ IsFiniteSet(F) /\ Cardinality(G) \in Nat /\ Cardinality(F) \in Nat
        /\ G \cap F = F
    BY <1>2, ThingsAreFinite
  <2>3. Cardinality(G \ F) = Cardinality(G) - Cardinality(G \cap F)
    BY <2>2, FS_Difference
  <2>4. Cardinality(P) = Cardinality(G) - Cardinality(F)
    BY <2>2, <2>3
  <2> HIDE DEF P
  <2>5. CASE G # L
    <3>1. Cardinality(G) = n + Limit
      BY <2>1, <2>5
    <3>2. Cardinality(P) >= Limit
      BY <1>1, <2>1, <2>2, <2>4, <3>1
    <3>3. QED
      BY <2>1, <2>2, <2>4, <3>2
  <2>6. QED
    BY <2>5
<1> HIDE DEF L, F, G, P
<1>7. /\ (s \ (t \cup P)) \cap G \subseteq (s \ t) \cap F
      /\ (L \cap t) \ F = ((L \cap (t \cup P)) \ G) \cup (t \cap P)
      /\ ((L \cap (t \cup P)) \ G) \cap (t \cap P) = {}
  BY <1>2 DEF P
<1>8. /\ (s \ t) \cap F \in SUBSET Thing /\ (s \ (t \cup P)) \cap G \in SUBSET Thing
      /\ (L \cap (t \cup P)) \ G \in SUBSET Thing /\ t \cap P \in SUBSET Thing
      /\ (L \cap t) \ F \in SUBSET Thing /\ t \cup P \in SUBSET Thing
  BY <1>2
<1>9. LostOK'
  <2>1. Cardinality((s \ t) \cap F) <= watch.departures
    BY <1>1, <1>3, <1>4 DEF LostOK
  <2>2. Cardinality((s \ (t \cup P)) \cap G) <= Cardinality((s \ t) \cap F)
    BY <1>7, <1>8, SizesAddUp
  <2>3. Cardinality((s \ (t \cup P)) \cap G) \in Nat /\ Cardinality((s \ t) \cap F) \in Nat
    BY <1>8, ThingsAreFinite
  <2>4. Cardinality((s \ (t \cup P)) \cap G) <= watch.departures
    BY <1>5, <2>1, <2>2, <2>3
  <2>5. G = L => s \ (t \cup P) = (s \ (t \cup P)) \cap G
    BY <1>2
  <2>6. reader'.pc = "walked" => G = L
    BY <1>3, <1>6
  <2>7. QED
    BY <1>1, <1>3, <1>4, <2>4, <2>5, <2>6 DEF LostOK, WalkLosesAtMostDepartures
<1>10. RepeatOK'
  <2>1. reader.rows + Cardinality((L \cap t) \ F) <= watch.arrivals + Cardinality(t)
    BY <1>1, <1>3, <1>4 DEF RepeatOK
  <2>2. /\ Cardinality((L \cap t) \ F)
             = Cardinality((L \cap (t \cup P)) \ G) + Cardinality(t \cap P)
        /\ Cardinality(t \cup P) = Cardinality(t) + Cardinality(P) - Cardinality(t \cap P)
    <3> DEFINE ahead == (L \cap (t \cup P)) \ G
    <3>1. /\ ahead \in SUBSET Thing /\ ahead \cap (t \cap P) = {}
          /\ (L \cap t) \ F = ahead \cup (t \cap P)
      BY <1>7, <1>8
    <3> HIDE DEF ahead
    <3>2. Cardinality(ahead \cup (t \cap P)) = Cardinality(ahead) + Cardinality(t \cap P)
      BY <1>8, <3>1, SizesAddUp
    <3>3. Cardinality(t \cup P) = Cardinality(t) + Cardinality(P) - Cardinality(t \cap P)
      BY <1>2, SizesAddUp
    <3>4. QED
      BY <3>1, <3>2, <3>3 DEF ahead
  <2>3. /\ Cardinality((L \cap t) \ F) \in Nat /\ Cardinality((L \cap (t \cup P)) \ G) \in Nat
        /\ Cardinality(t \cap P) \in Nat /\ Cardinality(t) \in Nat /\ Cardinality(P) \in Nat
        /\ Cardinality(t \cup P) \in Nat
    BY <1>2, <1>8, ThingsAreFinite
  <2>4. (reader.rows + Cardinality(P)) + Cardinality((L \cap (t \cup P)) \ G)
          <= watch.arrivals + Cardinality(t \cup P)
    BY <1>3, <1>5, <2>1, <2>2, <2>3
  <2>5. QED
    BY <1>1, <1>3, <1>4, <2>4 DEF RepeatOK
<1>11. QED
  BY <1>9, <1>10

\* A walk stays within what its watch counts.
LEMMA WalkStep ==
  ASSUME IInv, ViewsTypeOK, LostOK, RepeatOK, [ViewsNext]_viewVars
  PROVE  LostOK' /\ RepeatOK'
<1>1. CASE ReadCounts
  <2>1. reader'.pc \in {"not_found", "stats", "oldest"}
    <3>1. PICK q \in Queue :
            reader' = [Idle EXCEPT !.view = q, !.counts = StatusCounts(q),
               !.pc = CASE JobCount(q) = 0                -> "not_found"
                        [] Depth(StatusCounts(q)) = 0     -> "stats"
                        [] OTHER                          -> "oldest"]
      BY <1>1 DEF ReadCounts
    <3> DEFINE pc == CASE JobCount(q) = 0                -> "not_found"
                       [] Depth(StatusCounts(q)) = 0     -> "stats"
                       [] OTHER                          -> "oldest"
    <3>2. pc \in {"not_found", "stats", "oldest"}
      OBVIOUS
    <3>3. reader' = [Idle EXCEPT !.view = q, !.counts = StatusCounts(q), !.pc = pc]
      BY <3>1
    <3> HIDE DEF pc
    <3>4. QED
      BY <3>2, <3>3 DEF Idle
  <2>2. QED
    BY <2>1 DEF LostOK, RepeatOK, WalkLosesAtMostDepartures
<1>2. CASE ReadOldest \/ Finish
  <2>1. reader'.pc \in {"stats", "idle"}
    <3>1. ReadOldest => reader'.pc = "stats"
      BY DEF ReadOldest, ViewsTypeOK, ReaderOK, ReaderFields
    <3>2. Finish => reader'.pc = "idle"
      BY DEF Finish, Idle
    <3>3. QED
      BY <1>2, <3>1, <3>2
  <2>2. QED
    BY <2>1 DEF LostOK, RepeatOK, WalkLosesAtMostDepartures
<1>3. CASE ReadTotal /\ reader.pc = "idle"
  <2>1. PICK view \in Views \ {"stats"} :
          /\ reader' = [Idle EXCEPT !.view = view, !.pc = "rows",
                                    !.total = Cardinality(Listed(view))]
          /\ watch' = [Unwatched EXCEPT !.steady = Listed(view)]
          /\ UNCHANGED <<vars, created, buried>>
    BY <1>3 DEF ReadTotal
  <2>2. /\ reader'.view = view /\ reader'.pc = "rows" /\ reader'.offset = 0
        /\ reader'.rows = 0 /\ reader'.shown = {}
        /\ watch'.departures = 0 /\ watch'.arrivals = 0
    BY <2>1 DEF Idle, Unwatched
  <2>3. Before' = {}
    BY <2>1, <2>2, BeforeNext, FirstFacts DEF ViewsTypeOK
  <2>4. /\ (watch'.steady \ reader'.shown) \cap Before' = {}
        /\ (Rows' \cap reader'.shown) \ Before' = {}
    BY <2>2, <2>3
  <2>5. QED
    BY <2>2, <2>4, FS_EmptySet DEF LostOK, RepeatOK, WalkLosesAtMostDepartures
<1>4. CASE ReadTotal /\ reader.pc = "total"
  <2>1. /\ reader'.pc = "rows" /\ reader'.view = reader.view /\ reader'.offset = reader.offset
        /\ reader'.rows = reader.rows /\ reader'.shown = reader.shown /\ watch' = watch
        /\ UNCHANGED <<vars, created, buried>>
    BY <1>4 DEF ReadTotal, ViewsTypeOK, ReaderOK, ReaderFields
  <2>2. Rows' = Rows /\ Before' = Before
    BY <2>1, BeforeNext DEF Rows, Before
  <2>3. QED
    BY <1>4, <2>1, <2>2 DEF LostOK, RepeatOK, WalkLosesAtMostDepartures
<1>5. CASE UNCHANGED viewVars
  <2>1. reader' = reader /\ watch' = watch /\ UNCHANGED <<vars, created, buried>>
    BY <1>5 DEF viewVars
  <2>2. Rows' = Rows /\ Before' = Before
    BY <2>1, BeforeNext DEF Rows, Before
  <2>3. QED
    BY <2>1, <2>2 DEF LostOK, RepeatOK, WalkLosesAtMostDepartures
<1>6. QED
  BY <1>1, <1>2, <1>3, <1>4, <1>5, WalkWrite, WalkReads DEF ViewsNext, ReadTotal

------------------------------------------------------------------------------
(* The theorems. *)

ViewsInv == IInv /\ ViewsTypeOK /\ StatsOK /\ LostOK /\ RepeatOK

\* It holds at the start.
LEMMA ViewsInitInv == ViewsInit => ViewsInv
<1> SUFFICES ASSUME ViewsInit PROVE ViewsInv
  OBVIOUS
<1>1. IInv
  BY InitInv DEF ViewsInit
<1>2. /\ reader = Idle /\ watch = Unwatched
      /\ created = [j \in Job |-> 0] /\ buried = [j \in Job |-> 0]
  BY DEF ViewsInit
<1>3. ViewsTypeOK
  BY <1>2 DEF ViewsTypeOK, StampsOK, ReaderOK, ReaderFields, WatchOK, SteadyOK, Watching, Idle,
              Unwatched
<1>4. StatsOK /\ LostOK /\ RepeatOK
  BY <1>2 DEF StatsOK, StatsAreExplained, LostOK, WalkLosesAtMostDepartures, RepeatOK, Idle
<1>5. QED
  BY <1>1, <1>3, <1>4 DEF ViewsInv

\* Reading writes nothing, so the tables keep what JobStore says of them.
LEMMA ViewsNextInv == ViewsInv /\ [ViewsNext]_viewVars => ViewsInv'
<1> SUFFICES ASSUME ViewsInv, [ViewsNext]_viewVars PROVE ViewsInv'
  OBVIOUS
<1>1. [Next]_vars
  BY DEF ViewsNext, viewVars, ReadCounts, ReadOldest, ReadTotal, ReadRows, Finish, Write
<1>2. IInv'
  BY <1>1, NextInv DEF ViewsInv
<1>3. QED
  BY <1>2, ViewsTypeStep, StatsStep, WalkStep DEF ViewsInv

\* So it is invariant.
LEMMA ViewsInvariance == ViewsSpec => []ViewsInv
BY ViewsInitInv, ViewsNextInv, PTL DEF ViewsSpec

\* The two snapshots of the statistics never contradict each other but for
\* what was written between them (api/queues.py, queue_stats).
THEOREM StatsStayExplained == ViewsSpec => []StatsAreExplained
<1>1. ViewsInv => StatsAreExplained
  BY DEF ViewsInv, StatsOK
<1>2. QED
  BY <1>1, ViewsInvariance, PTL

\* A walk over a list by LIMIT and OFFSET, whatever its length, loses at most
\* as many of the rows that stay as leave.
THEOREM WalksLoseOnlyToDepartures == ViewsSpec => []WalkLosesAtMostDepartures
<1>1. ViewsInv => WalkLosesAtMostDepartures
  BY DEF ViewsInv, LostOK
<1>2. QED
  BY <1>1, ViewsInvariance, PTL

\* And it repeats at most as many as come.
THEOREM WalksRepeatOnlyForArrivals == ViewsSpec => []WalkRepeatsAtMostArrivals
<1>1. ASSUME ViewsInv, reader.pc = "walked"
      PROVE  reader.rows - Cardinality(reader.shown) <= watch.arrivals
  <2> DEFINE again == (Rows \cap reader.shown) \ Before
  <2>1. /\ reader.rows \in Nat /\ reader.shown \subseteq Thing /\ watch.arrivals \in Nat
    BY <1>1 DEF ViewsInv, ViewsTypeOK, ReaderOK, WatchOK
  <2>2. again \in SUBSET Thing
    BY <2>1
  <2>3. Cardinality(again) \in Nat /\ Cardinality(reader.shown) \in Nat
    BY <2>1, <2>2, ThingsAreFinite
  <2>4. reader.rows + Cardinality(again) <= watch.arrivals + Cardinality(reader.shown)
    BY <1>1 DEF ViewsInv, RepeatOK
  <2> HIDE DEF again
  <2>5. QED
    BY <2>1, <2>3, <2>4
<1>2. ViewsInv => WalkRepeatsAtMostArrivals
  BY <1>1 DEF WalkRepeatsAtMostArrivals
<1>3. QED
  BY <1>2, ViewsInvariance, PTL
==============================================================================
