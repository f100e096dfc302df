------------------------ MODULE Transactions_proofs ------------------------
(***************************************************************************)
(* Theorems about Transactions, for every value of its constants: whatever *)
(* statements interleave, a COMMIT is a step of JobStore, the rows of a    *)
(* claim or a reap stay put between its statements, and no circle of       *)
(* transactions waits for one another.                                     *)
(*                                                                         *)
(* TxInv says of each open transaction what its statements know of the     *)
(* rows it holds (TxOK), of each two what keeps them apart (Apart), and of *)
(* the releases that they wait in the order of their scans.  A row a       *)
(* transaction holds changes only by its own commit, so what TxOK says of  *)
(* it lasts.                                                               *)
(***************************************************************************)
EXTENDS Transactions, JobStore_proofs, FiniteSetTheorems

Kind == {"claim", "reap", "release", "extend", "succeed", "fail",
         "cancel", "retry", "retry_dead", "delete", "create"}

\* Whose WHERE clause names one row.
OneRow == {"extend", "succeed", "fail", "cancel", "retry", "retry_dead", "delete"}

\* Those of the run loop and the shutdown, which one worker runs in turn.
Looping(o) == o.kind \in {"claim", "release"}

Outcome(o) == o.kind \in {"succeed", "fail"}

SnapshotOf(o) == [worker |-> o.worker, job |-> o.job, attempts |-> o.attempts]

------------------------------------------------------------------------------
(* One transaction. *)

Fields == {"kind", "worker", "job", "attempts", "now",
           "stmt", "todo", "seen", "locked", "new"}

IsTx(o) == o = [f \in Fields |-> o[f]]

Shape(o) ==
  /\ IsTx(o) /\ o.kind \in Kind /\ o.stmt \in {"begin", "select", "update"}
  /\ o.now \in TxNow
  /\ o.todo \subseteq Job /\ o.locked \subseteq Job
  /\ DOMAIN o.seen \subseteq Job /\ DOMAIN o.new \subseteq o.locked
  /\ o.stmt = "begin" => o.todo = {} /\ o.locked = {} /\ DOMAIN o.seen = {}

\* Whom it acts for.
Party(o) ==
  /\ Looping(o) \/ Outcome(o) \/ o.kind = "extend" => o.worker \in Worker
  /\ o.kind \in OneRow => o.job \in Job
  /\ Outcome(o) => SnapshotOf(o) \in snapshots

\* The SELECT FOR UPDATE of a claim or a reap holds what it returned.
SelectOK(o) ==
  Selects(o) =>
    /\ o.locked = DOMAIN o.seen
    /\ \A j \in DOMAIN o.seen : Hits(o, j) /\ o.seen[j] = jobs[j].attempts
    /\ o.stmt = "select" => DOMAIN o.new = {}
    /\ o.stmt = "update" => o.todo \subseteq DOMAIN o.seen

LimitOK(o) ==
  o.kind = "reap" => IsFiniteSet(DOMAIN o.seen) /\ Cardinality(DOMAIN o.seen) <= ReapLimit

\* The others hold what they wrote.
WriteOK(o) ==
  ~Selects(o) =>
    /\ o.stmt # "select" /\ o.locked = DOMAIN o.new
    /\ o.kind \in OneRow => /\ o.todo \subseteq {o.job} /\ o.locked \subseteq {o.job}
                            /\ o.todo = {} \/ o.locked = {}
    /\ o.kind = "create" => o.todo = {}

\* A row is written as the latest commit left it.
VersionOK(o) ==
  o.kind # "create" => \A j \in DOMAIN o.new : Hits(o, j) /\ o.new[j] \in Versions(o, j)

InsertOK(o) ==
  o.kind = "create" =>
    /\ \A i, j \in DOMAIN o.new : i = j
    /\ \A j \in DOMAIN o.new :
         /\ j \notin issued
         /\ \E q \in Queue, k \in Key \cup {NULL}, retries \in MaxRetries,
               run_at \in RunAt \cup {NULL} :
              o.new[j] = NewJob(q, k, retries, run_at, o.now) /\ ~KeyTaken(q, k)

\* A release has every job of its worker before it: the worker claims nothing
\* in the meantime.
ReleaseOK(o) ==
  o.kind = "release" /\ o.stmt = "update" => InFlight(o.worker) \subseteq o.todo \cup DOMAIN o.new

TxOK(o) ==
  /\ Shape(o) /\ Party(o) /\ SelectOK(o) /\ LimitOK(o) /\ WriteOK(o)
  /\ VersionOK(o) /\ InsertOK(o) /\ ReleaseOK(o)

------------------------------------------------------------------------------
(* Two transactions, and the releases together. *)

SameKey(r, s) ==
  r.idempotency_key # NULL /\ r.queue = s.queue /\ r.idempotency_key = s.idempotency_key

Apart(o, p) ==
  /\ o.locked \cap p.locked = {}
  /\ Looping(o) /\ Looping(p) => o.worker # p.worker
  /\ Outcome(o) /\ Outcome(p) => SnapshotOf(o) # SnapshotOf(p)
  /\ o.kind = "create" /\ p.kind = "create" =>
       \A i \in DOMAIN o.new, j \in DOMAIN p.new : ~SameKey(o.new[i], p.new[j])

Releasing == {c \in Open : tx[c].kind = "release" /\ tx[c].stmt = "update"}

\* A row that c found as its worker's and that has become d's: d scanned later.
Overtaken(c, d) == \E j \in tx[c].todo : HoldsLock(tx[d].worker, j)

\* So nobody overtook the release that scanned last.
ReleasesInOrder ==
  \A S \in SUBSET Releasing : S # {} => \E c \in S : \A d \in S \ {c} : ~Overtaken(c, d)

TxInv ==
  /\ IInv
  /\ tx = [c \in Conn |-> tx[c]]
  /\ \A c \in Open : TxOK(tx[c])
  /\ \A c, d \in Open : c # d => Apart(tx[c], tx[d])
  /\ ReleasesInOrder

------------------------------------------------------------------------------
(* Hits and Versions look at one row. *)

\* Which statements a row satisfies is decided by the row alone.
LEMMA HitsLocal ==
  ASSUME NEW o, NEW j \in Job, jobs'[j] = jobs[j]
  PROVE  Hits(o, j)' <=> Hits(o, j)
BY DEF Hits, Claimable, Expired, HoldsLock, HasStatus, Exists

\* So is what a statement writes.
LEMMA VersionsLocal ==
  ASSUME NEW o, NEW j, jobs'[j] = jobs[j]
  PROVE  Versions(o, j)' = Versions(o, j)
BY DEF Versions

\* What TxOK says outlasts a step that leaves the tables alone.
LEMMA TxOKFrame ==
  ASSUME NEW o, UNCHANGED vars, TxOK(o)
  PROVE  TxOK(o)'
<1> USE DEF vars
<1>1. Shape(o)' /\ Party(o)'
  BY DEF TxOK, Shape, Party, TxNow
<1>2. DOMAIN o.seen \subseteq Job \/ ~Selects(o)
  BY DEF TxOK, Shape, SelectOK
<1>3. SelectOK(o)'
  BY <1>2, HitsLocal DEF TxOK, SelectOK, Selects
<1>4. LimitOK(o)' /\ WriteOK(o)'
  BY DEF TxOK, LimitOK, WriteOK, Selects
<1>5. DOMAIN o.new \subseteq Job
  BY DEF TxOK, Shape
<1>6. VersionOK(o)'
  BY <1>5, HitsLocal, VersionsLocal DEF TxOK, VersionOK
<1>7. InsertOK(o)'
  BY DEF TxOK, InsertOK, KeyTaken, Exists
<1>8. ReleaseOK(o)'
  BY DEF TxOK, ReleaseOK, InFlight, HoldsLock, HasStatus, Exists
<1>9. QED
  BY <1>1, <1>3, <1>4, <1>6, <1>7, <1>8 DEF TxOK

------------------------------------------------------------------------------
(* Steps of one transaction. *)

\* n is o after a statement: the same request.
Moved(o, n) ==
  /\ IsTx(n) /\ n.kind = o.kind /\ n.worker = o.worker /\ n.job = o.job
  /\ n.attempts = o.attempts /\ n.now = o.now

Becomes(c, n) == tx' = [tx EXCEPT ![c] = n] /\ UNCHANGED vars

\* What a request asks of rows, and writes, is a matter of the request alone.
LEMMA MovedFacts ==
  ASSUME NEW o, NEW n, Moved(o, n)
  PROVE  /\ Selects(n) <=> Selects(o)
         /\ Looping(n) <=> Looping(o)
         /\ Outcome(n) <=> Outcome(o)
         /\ SnapshotOf(n) = SnapshotOf(o)
         /\ \A j : Hits(n, j) <=> Hits(o, j)
         /\ n.seen = o.seen => \A j : Versions(n, j) = Versions(o, j)
BY DEF Moved, Selects, Looping, Outcome, SnapshotOf, Hits, Versions

\* An open transaction has all its fields.
LEMMA OpenFacts ==
  ASSUME TxInv, NEW c \in Open
  PROVE  /\ c \in Conn /\ IsTx(tx[c]) /\ TxOK(tx[c])
         /\ tx = [d \in Conn |-> tx[d]]
BY DEF TxInv, TxOK, Shape, Open

\* The first statement finds its rows.
LEMMA ScanEffect ==
  ASSUME TxInv, NEW c \in Conn, Scan(c), NEW o, o = tx[c]
  PROVE  \E n : /\ Becomes(c, n) /\ Moved(o, n)
                /\ n.stmt = IF Selects(o) THEN "select" ELSE "update"
                /\ n.todo = {j \in Job : Hits(o, j)}
                /\ n.seen = o.seen /\ n.locked = o.locked /\ n.new = o.new
<1> DEFINE n == [o EXCEPT !.stmt = IF Selects(o) THEN "select" ELSE "update",
                          !.todo = {j \in Job : Hits(o, j)}]
<1>1. tx = [d \in Conn |-> tx[d]] /\ IsTx(o)
  BY OpenFacts DEF Scan
<1>2. Becomes(c, n)
  BY <1>1 DEF Scan, Becomes
<1>3. /\ Moved(o, n)
      /\ n.stmt = IF Selects(o) THEN "select" ELSE "update"
      /\ n.todo = {j \in Job : Hits(o, j)}
      /\ n.seen = o.seen /\ n.locked = o.locked /\ n.new = o.new
  BY <1>1 DEF IsTx, Fields, Moved
<1>4. QED
  BY <1>2, <1>3

\* A SELECT locks a row and remembers its attempts.
LEMMA SelectRowEffect ==
  ASSUME TxInv, NEW c \in Conn, NEW j \in Job, SelectRow(c, j), NEW o, o = tx[c]
  PROVE  \E n : /\ Becomes(c, n) /\ Moved(o, n)
                /\ n.stmt = o.stmt /\ n.todo = o.todo \ {j}
                /\ n.seen = With(o.seen, j, jobs[j].attempts)
                /\ n.locked = o.locked \cup {j} /\ n.new = o.new
<1> DEFINE n == [o EXCEPT !.todo = @ \ {j}, !.locked = @ \cup {j},
                          !.seen = With(@, j, jobs[j].attempts)]
<1>1. tx = [d \in Conn |-> tx[d]] /\ IsTx(o)
  BY OpenFacts DEF SelectRow, Visits
<1>2. Becomes(c, n)
  BY <1>1 DEF SelectRow, Becomes
<1>3. /\ Moved(o, n)
      /\ n.stmt = o.stmt /\ n.todo = o.todo \ {j}
      /\ n.seen = With(o.seen, j, jobs[j].attempts)
      /\ n.locked = o.locked \cup {j} /\ n.new = o.new
  BY <1>1 DEF IsTx, Fields, Moved
<1>4. QED
  BY <1>2, <1>3

\* A row passed over leaves nothing behind.
LEMMA PassEffect ==
  ASSUME TxInv, NEW c \in Conn, NEW j \in Job, SkipRow(c, j) \/ PassRow(c, j),
         NEW o, o = tx[c]
  PROVE  \E n : /\ Becomes(c, n) /\ Moved(o, n)
                /\ n.stmt = o.stmt /\ n.todo = o.todo \ {j}
                /\ n.seen = o.seen /\ n.locked = o.locked /\ n.new = o.new
<1> DEFINE n == [o EXCEPT !.todo = @ \ {j}]
<1>1. tx = [d \in Conn |-> tx[d]] /\ IsTx(o)
  BY OpenFacts DEF SkipRow, PassRow, Visits
<1>2. Becomes(c, n)
  BY <1>1 DEF SkipRow, PassRow, Becomes
<1>3. /\ Moved(o, n)
      /\ n.stmt = o.stmt /\ n.todo = o.todo \ {j}
      /\ n.seen = o.seen /\ n.locked = o.locked /\ n.new = o.new
  BY <1>1 DEF IsTx, Fields, Moved
<1>4. QED
  BY <1>2, <1>3

\* The UPDATE starts on the rows of the SELECT.
LEMMA SelectDoneEffect ==
  ASSUME TxInv, NEW c \in Conn, SelectDone(c), NEW o, o = tx[c]
  PROVE  \E n : /\ Becomes(c, n) /\ Moved(o, n)
                /\ n.stmt = "update" /\ n.todo = DOMAIN o.seen
                /\ n.seen = o.seen /\ n.locked = o.locked /\ n.new = o.new
<1> DEFINE n == [o EXCEPT !.stmt = "update", !.todo = DOMAIN o.seen]
<1>1. tx = [d \in Conn |-> tx[d]] /\ IsTx(o)
  BY OpenFacts DEF SelectDone
<1>2. Becomes(c, n)
  BY <1>1 DEF SelectDone, Becomes
<1>3. /\ Moved(o, n)
      /\ n.stmt = "update" /\ n.todo = DOMAIN o.seen
      /\ n.seen = o.seen /\ n.locked = o.locked /\ n.new = o.new
  BY <1>1 DEF IsTx, Fields, Moved
<1>4. QED
  BY <1>2, <1>3

\* A write locks its row.
LEMMA WriteRowEffect ==
  ASSUME TxInv, NEW c \in Conn, NEW j \in Job, WriteRow(c, j), NEW o, o = tx[c]
  PROVE  \E n : /\ Becomes(c, n) /\ Moved(o, n)
                /\ n.stmt = o.stmt /\ n.todo = o.todo \ {j}
                /\ n.seen = o.seen /\ n.locked = o.locked \cup {j}
                /\ \E v \in Versions(o, j) : n.new = With(o.new, j, v)
<1>1. tx = [d \in Conn |-> tx[d]] /\ IsTx(o)
  BY OpenFacts DEF WriteRow, Visits
<1>2. PICK v \in Versions(o, j) :
        tx' = [tx EXCEPT ![c].todo = @ \ {j}, ![c].locked = @ \cup {j},
                         ![c].new = With(@, j, v)]
  BY DEF WriteRow
<1> DEFINE n == [o EXCEPT !.todo = @ \ {j}, !.locked = @ \cup {j},
                          !.new = With(@, j, v)]
<1>3. Becomes(c, n)
  BY <1>1, <1>2 DEF WriteRow, Becomes
<1>4. /\ Moved(o, n)
      /\ n.stmt = o.stmt /\ n.todo = o.todo \ {j}
      /\ n.seen = o.seen /\ n.locked = o.locked \cup {j} /\ n.new = With(o.new, j, v)
  BY <1>1 DEF IsTx, Fields, Moved
<1>5. QED
  BY <1>3, <1>4

\* An INSERT takes its row and writes it at once.
LEMMA InsertEffect ==
  ASSUME TxInv, NEW c \in Conn, NEW j \in Job, Insert(c, j), NEW o, o = tx[c]
  PROVE  \E n : /\ Becomes(c, n) /\ Moved(o, n)
                /\ n.stmt = "update" /\ n.todo = o.todo
                /\ n.seen = o.seen /\ n.locked = {j}
                /\ \E q \in Queue, k \in Key \cup {NULL}, retries \in MaxRetries,
                      run_at \in RunAt \cup {NULL} :
                     /\ ~KeyTaken(q, k) /\ ~KeyInDoubt(q, k)
                     /\ n.new = With(o.new, j, NewJob(q, k, retries, run_at, o.now))
<1>1. tx = [d \in Conn |-> tx[d]] /\ IsTx(o)
  BY OpenFacts DEF Insert
<1>2. PICK q \in Queue, k \in Key \cup {NULL}, retries \in MaxRetries,
           run_at \in RunAt \cup {NULL} :
        /\ ~KeyTaken(q, k) /\ ~KeyInDoubt(q, k)
        /\ tx' = [tx EXCEPT ![c].stmt = "update", ![c].locked = {j},
                    ![c].new = With(@, j, NewJob(q, k, retries, run_at, o.now))]
  BY DEF Insert
<1> DEFINE n == [o EXCEPT !.stmt = "update", !.locked = {j},
                          !.new = With(@, j, NewJob(q, k, retries, run_at, o.now))]
<1>3. Becomes(c, n)
  BY <1>1, <1>2 DEF Insert, Becomes
<1>4. /\ Moved(o, n)
      /\ n.stmt = "update" /\ n.todo = o.todo
      /\ n.seen = o.seen /\ n.locked = {j}
      /\ n.new = With(o.new, j, NewJob(q, k, retries, run_at, o.now))
  BY <1>1 DEF IsTx, Fields, Moved
<1>5. QED
  BY <1>2, <1>3, <1>4

------------------------------------------------------------------------------
(* One record changes, the tables do not. *)

\* What keeps two transactions apart has no direction.
LEMMA ApartSymmetric == ASSUME NEW o, NEW p, Apart(o, p) PROVE Apart(p, o)
BY DEF Apart, SameKey

\* The others stay as they are.
LEMMA OthersStay ==
  ASSUME tx = [d \in Conn |-> tx[d]], NEW c \in Conn, NEW n, tx' = [tx EXCEPT ![c] = n]
  PROVE  /\ tx' = [d \in Conn |-> tx'[d]] /\ tx'[c] = n
         /\ Open' \subseteq Open \cup {c} /\ c \in Open' => n # NULL
         /\ \A d \in Open' \ {c} : d \in Open /\ tx'[d] = tx[d]
BY DEF Open

\* Releases stay in order while nobody gains a row that another one waits for
\* and every new one, of set N, starts with rows that are its worker's.
LEMMA OrderKept ==
  ASSUME ReleasesInOrder, NEW N,
         \A c \in Releasing' \ N : c \in Releasing,
         \A c, d \in Releasing' \ N : Overtaken(c, d)' => Overtaken(c, d),
         \A c \in N \cap Releasing' : \A d \in Releasing' \ {c} : ~Overtaken(c, d)'
  PROVE  ReleasesInOrder'
<1>1. SUFFICES ASSUME NEW S \in SUBSET Releasing', S # {}
               PROVE  \E c \in S : \A d \in S \ {c} : ~Overtaken(c, d)'
  BY DEF ReleasesInOrder
<1>2. CASE S \cap N # {}
  BY <1>2
<1>3. CASE S \cap N = {}
  <2>1. S \in SUBSET Releasing
    BY <1>3
  <2>2. PICK c \in S : \A d \in S \ {c} : ~Overtaken(c, d)
    BY <1>1, <2>1 DEF ReleasesInOrder
  <2>3. QED
    BY <1>3, <2>2
<1>4. QED
  BY <1>2, <1>3

\* What is left to show when one transaction changes.
LEMMA Replaced ==
  ASSUME TxInv, NEW c \in Conn, NEW n, Becomes(c, n), TxOK(n),
         \A d \in Open \ {c} : Apart(n, tx[d]), ReleasesInOrder'
  PROVE  TxInv'
<1>1. IInv'
  BY NextInv DEF TxInv, Becomes
<1>2. /\ tx' = [d \in Conn |-> tx'[d]] /\ tx'[c] = n
      /\ \A d \in Open' \ {c} : d \in Open /\ tx'[d] = tx[d]
  BY OthersStay DEF TxInv, Becomes
<1>3. ASSUME NEW d \in Open' PROVE TxOK(tx[d])'
  <2>1. CASE d = c
    BY <1>2, <2>1, TxOKFrame DEF Becomes
  <2>2. CASE d # c
    <3>1. d \in Open /\ tx'[d] = tx[d]
      BY <1>2, <1>3, <2>2
    <3>2. TxOK(tx[d])
      BY <3>1 DEF TxInv
    <3>3. QED
      BY <3>1, <3>2, TxOKFrame DEF Becomes
  <2>3. QED
    BY <2>1, <2>2
<1>4. ASSUME NEW d \in Open', NEW e \in Open', d # e PROVE Apart(tx'[d], tx'[e])
  <2>1. CASE d = c
    BY <1>2, <1>4, <2>1
  <2>2. CASE e = c
    BY <1>2, <1>4, <2>2, ApartSymmetric
  <2>3. CASE d # c /\ e # c
    BY <1>2, <1>4, <2>3 DEF TxInv
  <2>4. QED
    BY <2>1, <2>2, <2>3
<1>5. QED
  BY <1>1, <1>2, <1>3, <1>4 DEF TxInv

\* A statement keeps its transaction apart from the others if the rows it
\* takes and the keys it inserts are its own.
LEMMA MovedInv ==
  ASSUME TxInv, NEW c \in Open, NEW o, o = tx[c], NEW n,
         Becomes(c, n), Moved(o, n), TxOK(n),
         \A d \in Open \ {c} : n.locked \cap tx[d].locked = {},
         n.kind = "create" =>
           \A d \in Open \ {c} : tx[d].kind = "create" =>
             \A i \in DOMAIN n.new, j \in DOMAIN tx[d].new : ~SameKey(n.new[i], tx[d].new[j]),
         n.kind = "release" /\ n.stmt = "update" =>
           \/ o.stmt = "update" /\ n.todo \subseteq o.todo
           \/ n.todo \subseteq InFlight(n.worker)
  PROVE  TxInv'
<1>1. /\ tx' = [d \in Conn |-> tx'[d]] /\ tx'[c] = n
      /\ \A d \in Open' \ {c} : d \in Open /\ tx'[d] = tx[d]
  BY OthersStay, OpenFacts DEF Becomes
<1>2. ASSUME NEW d \in Open \ {c} PROVE Apart(n, tx[d])
  <2>1. Apart(o, tx[d])
    BY <1>2 DEF TxInv
  <2>2. QED
    BY <1>2, <2>1, MovedFacts DEF Apart, Moved
<1>3. ReleasesInOrder'
  <2>1. \A w, j : HoldsLock(w, j)' <=> HoldsLock(w, j)
    BY DEF Becomes, vars, HoldsLock, HasStatus, Exists
  <2>2. \A d \in Releasing' \ {c} : d \in Releasing /\ tx'[d] = tx[d]
    BY <1>1 DEF Releasing
  <2>3. \A d, e \in Releasing' \ {c} : Overtaken(d, e)' => Overtaken(d, e)
    BY <2>1, <2>2 DEF Overtaken
  <2>4. ReleasesInOrder
    BY DEF TxInv
  <2>5. CASE c \in Releasing' /\ o.stmt = "update" /\ n.todo \subseteq o.todo
    <3>1. c \in Releasing
      BY <1>1, <2>5 DEF Releasing, Moved
    <3>2. \A d, e \in Releasing' : Overtaken(d, e)' => Overtaken(d, e)
      BY <1>1, <2>1, <2>2, <2>5 DEF Overtaken, Moved
    <3>3. Releasing' \subseteq Releasing
      BY <2>2, <3>1
    <3>4. QED
      BY <2>4, <3>2, <3>3 DEF ReleasesInOrder
  <2>6. CASE c \in Releasing' /\ n.todo \subseteq InFlight(n.worker)
    <3>1. ASSUME NEW d \in Releasing' \ {c} PROVE ~Overtaken(c, d)'
      <4>1. tx'[d].worker # n.worker
        BY <1>1, <1>2, <2>2, <2>6 DEF Apart, Looping, Releasing
      <4>2. \A j \in n.todo : HoldsLock(n.worker, j)
        BY <2>6 DEF InFlight
      <4>3. QED
        BY <1>1, <2>1, <4>1, <4>2 DEF Overtaken, HoldsLock
    <3>2. \A d \in {c} \cap Releasing' : \A e \in Releasing' \ {d} : ~Overtaken(d, e)'
      BY <3>1
    <3>3. QED
      BY <2>2, <2>3, <2>4, <3>2, OrderKept
  <2>7. CASE c \notin Releasing'
    <3>1. \A d \in {c} \cap Releasing' : \A e \in Releasing' \ {d} : ~Overtaken(d, e)'
      BY <2>7
    <3>2. QED
      BY <2>2, <2>3, <2>4, <3>1, OrderKept
  <2>8. QED
    BY <1>1, <2>5, <2>6, <2>7 DEF Releasing
<1>4. QED
  BY <1>2, <1>3, Replaced, OpenFacts

------------------------------------------------------------------------------
(* The statements keep the invariant. *)

\* A row nobody else holds is disjoint from what the others hold.
LEMMA NotTaken ==
  ASSUME NEW c, NEW j, ~TakenByOther(c, j)
  PROVE  \A d \in Open \ {c} : j \notin tx[d].locked
BY DEF TakenByOther, Holders

\* The snapshot of the first statement.
LEMMA ScanInv == ASSUME TxInv, NEW c \in Conn, Scan(c) PROVE TxInv'
<1>1. c \in Open
  BY DEF Scan
<1>2. PICK o : o = tx[c]
  OBVIOUS
<1>3. PICK n : /\ Becomes(c, n) /\ Moved(o, n)
               /\ n.stmt = IF Selects(o) THEN "select" ELSE "update"
               /\ n.todo = {j \in Job : Hits(o, j)}
               /\ n.seen = o.seen /\ n.locked = o.locked /\ n.new = o.new
  BY <1>2, ScanEffect
<1>4. TxOK(o) /\ o.stmt = "begin" /\ o.kind # "create"
  BY <1>1, <1>2 DEF TxInv, Scan
<1>5. o.locked = {} /\ DOMAIN o.seen = {} /\ DOMAIN o.new = {}
  BY <1>4 DEF TxOK, Shape
<1>6. TxOK(n)
  <2>1. Shape(n) /\ Party(n)
    BY <1>3, <1>4, <1>5, MovedFacts DEF TxOK, Shape, Party, Moved
  <2>2. SelectOK(n) /\ LimitOK(n) /\ VersionOK(n) /\ InsertOK(n)
    BY <1>3, <1>4, <1>5, MovedFacts DEF TxOK, SelectOK, LimitOK, VersionOK, InsertOK, Moved
  <2>3. o.kind \in OneRow => n.todo \subseteq {o.job}
    BY <1>3 DEF OneRow, Hits
  <2>4. WriteOK(n)
    BY <1>3, <1>4, <1>5, <2>3, MovedFacts DEF WriteOK, Moved
  <2>5. ReleaseOK(n)
    BY <1>3 DEF ReleaseOK, Moved, InFlight, Hits
  <2>6. QED
    BY <2>1, <2>2, <2>4, <2>5 DEF TxOK
<1>7. n.kind = "release" => n.todo \subseteq InFlight(n.worker)
  BY <1>3 DEF Moved, InFlight, Hits
<1>8. n.locked = {} /\ n.kind # "create"
  BY <1>3, <1>4, <1>5 DEF Moved
<1>9. QED
  BY <1>1, <1>2, <1>3, <1>6, <1>7, <1>8, MovedInv

\* SELECT ... FOR UPDATE takes a row.
LEMMA SelectRowInv ==
  ASSUME TxInv, NEW c \in Conn, NEW j \in Job, SelectRow(c, j)
  PROVE  TxInv'
<1>1. c \in Open
  BY DEF SelectRow, Visits
<1>2. PICK o : o = tx[c]
  OBVIOUS
<1>3. PICK n : /\ Becomes(c, n) /\ Moved(o, n)
               /\ n.stmt = o.stmt /\ n.todo = o.todo \ {j}
               /\ n.seen = With(o.seen, j, jobs[j].attempts)
               /\ n.locked = o.locked \cup {j} /\ n.new = o.new
  BY <1>2, SelectRowEffect
<1>4. /\ TxOK(o) /\ o.stmt = "select" /\ Hits(o, j)
      /\ ~MustStop(o) /\ ~TakenByOther(c, j)
  BY <1>1, <1>2 DEF TxInv, SelectRow, Visits
<1>5. Selects(o) /\ DOMAIN o.new = {} /\ o.kind # "create" /\ o.locked = DOMAIN o.seen
  BY <1>4 DEF TxOK, WriteOK, SelectOK, Selects
<1>6. /\ DOMAIN n.seen = DOMAIN o.seen \cup {j} /\ n.seen[j] = jobs[j].attempts
      /\ \A i \in DOMAIN o.seen \ {j} : n.seen[i] = o.seen[i]
  BY <1>3 DEF With
<1>7. TxOK(n)
  <2>1. Shape(n) /\ Party(n)
    BY <1>3, <1>4, <1>5, <1>6, MovedFacts DEF TxOK, Shape, Party, Moved
  <2>2. SelectOK(n)
    BY <1>3, <1>4, <1>5, <1>6, MovedFacts DEF TxOK, SelectOK, Moved
  <2>3. LimitOK(n)
    <3>1. SUFFICES ASSUME o.kind = "reap"
                   PROVE  IsFiniteSet(DOMAIN n.seen) /\ Cardinality(DOMAIN n.seen) <= ReapLimit
      BY <1>3 DEF LimitOK, Moved
    <3>2. /\ IsFiniteSet(DOMAIN o.seen) /\ Cardinality(DOMAIN o.seen) <= ReapLimit
          /\ Cardinality(DOMAIN o.seen) # ReapLimit
      BY <1>4, <3>1 DEF TxOK, LimitOK, MustStop
    <3>3. Cardinality(DOMAIN o.seen) \in Nat /\ ReapLimit \in Nat
      BY <3>2, FS_CardinalityType, StoreAssumption DEF StoreAssumption
    <3>4. /\ IsFiniteSet(DOMAIN o.seen \cup {j})
          /\ Cardinality(DOMAIN o.seen \cup {j}) \in
               {Cardinality(DOMAIN o.seen), Cardinality(DOMAIN o.seen) + 1}
      BY <3>2, FS_AddElement
    <3>5. QED
      BY <1>6, <3>2, <3>3, <3>4
  <2>4. WriteOK(n) /\ VersionOK(n) /\ InsertOK(n) /\ ReleaseOK(n)
    BY <1>3, <1>4, <1>5, MovedFacts DEF WriteOK, VersionOK, InsertOK, ReleaseOK, Moved
  <2>5. QED
    BY <2>1, <2>2, <2>3, <2>4 DEF TxOK
<1>8. \A d \in Open \ {c} : n.locked \cap tx[d].locked = {}
  BY <1>1, <1>2, <1>3, <1>4, NotTaken DEF TxInv, Apart
<1>9. n.kind # "create" /\ n.stmt # "update"
  BY <1>3, <1>4, <1>5 DEF Moved
<1>10. QED
  BY <1>1, <1>2, <1>3, <1>7, <1>8, <1>9, MovedInv

\* A row passed over: locked by another, or changed since the snapshot.
LEMMA PassInv ==
  ASSUME TxInv, NEW c \in Conn, NEW j \in Job, SkipRow(c, j) \/ PassRow(c, j)
  PROVE  TxInv'
<1>1. c \in Open
  BY DEF SkipRow, PassRow, Visits
<1>2. PICK o : o = tx[c]
  OBVIOUS
<1>3. PICK n : /\ Becomes(c, n) /\ Moved(o, n)
               /\ n.stmt = o.stmt /\ n.todo = o.todo \ {j}
               /\ n.seen = o.seen /\ n.locked = o.locked /\ n.new = o.new
  BY <1>2, PassEffect
<1>4. TxOK(o) /\ o.stmt # "begin" /\ j \in o.todo
  BY <1>1, <1>2 DEF TxInv, SkipRow, PassRow, Visits
<1>5. o.kind # "create"
  BY <1>4 DEF TxOK, WriteOK, Selects
<1>6. TxOK(n)
  <2>1. Shape(n) /\ Party(n)
    BY <1>3, <1>4, MovedFacts DEF TxOK, Shape, Party, Moved
  <2>2. SelectOK(n) /\ LimitOK(n)
    BY <1>3, <1>4, MovedFacts DEF TxOK, SelectOK, LimitOK, Moved
  <2>3. WriteOK(n) /\ VersionOK(n) /\ InsertOK(n)
    BY <1>3, <1>4, <1>5, MovedFacts DEF TxOK, WriteOK, VersionOK, InsertOK, Moved
  <2>4. o.kind = "release" /\ o.stmt = "update" => j \notin InFlight(o.worker)
    BY <1>2 DEF SkipRow, PassRow, Visits, StillHits, Hits, InFlight
  <2>5. ReleaseOK(n)
    BY <1>3, <1>4, <2>4 DEF TxOK, ReleaseOK, Moved
  <2>6. QED
    BY <2>1, <2>2, <2>3, <2>5 DEF TxOK
<1>7. \A d \in Open \ {c} : n.locked \cap tx[d].locked = {}
  BY <1>1, <1>2, <1>3 DEF TxInv, Apart
<1>8. n.kind # "create" /\ n.stmt = o.stmt /\ n.todo \subseteq o.todo
  BY <1>3, <1>5 DEF Moved
<1>9. QED
  BY <1>1, <1>2, <1>3, <1>6, <1>7, <1>8, MovedInv

\* The UPDATE of a claim or a reap begins with all its rows in hand.
LEMMA SelectDoneInv == ASSUME TxInv, NEW c \in Conn, SelectDone(c) PROVE TxInv'
<1>1. c \in Open
  BY DEF SelectDone
<1>2. PICK o : o = tx[c]
  OBVIOUS
<1>3. PICK n : /\ Becomes(c, n) /\ Moved(o, n)
               /\ n.stmt = "update" /\ n.todo = DOMAIN o.seen
               /\ n.seen = o.seen /\ n.locked = o.locked /\ n.new = o.new
  BY <1>2, SelectDoneEffect
<1>4. TxOK(o) /\ o.stmt = "select"
  BY <1>1, <1>2 DEF TxInv, SelectDone
<1>5. /\ Selects(o) /\ DOMAIN o.new = {} /\ o.kind \notin {"create", "release"}
      /\ o.locked = DOMAIN o.seen
  BY <1>4 DEF TxOK, WriteOK, SelectOK, Selects
<1>6. TxOK(n)
  <2>1. Shape(n) /\ Party(n)
    BY <1>3, <1>4, <1>5, MovedFacts DEF TxOK, Shape, Party, Moved
  <2>2. SelectOK(n) /\ LimitOK(n)
    BY <1>3, <1>4, <1>5, MovedFacts DEF TxOK, SelectOK, LimitOK, Moved
  <2>3. WriteOK(n) /\ VersionOK(n) /\ InsertOK(n) /\ ReleaseOK(n)
    BY <1>3, <1>5, MovedFacts DEF WriteOK, VersionOK, InsertOK, ReleaseOK, Moved
  <2>4. QED
    BY <2>1, <2>2, <2>3 DEF TxOK
<1>7. \A d \in Open \ {c} : n.locked \cap tx[d].locked = {}
  BY <1>1, <1>2, <1>3 DEF TxInv, Apart
<1>8. n.kind # "create" /\ n.kind # "release"
  BY <1>3, <1>5 DEF Moved
<1>9. QED
  BY <1>1, <1>2, <1>3, <1>6, <1>7, <1>8, MovedInv

\* A row is written as it is now, and held until the commit.
LEMMA WriteRowInv ==
  ASSUME TxInv, NEW c \in Conn, NEW j \in Job, WriteRow(c, j)
  PROVE  TxInv'
<1>1. c \in Open
  BY DEF WriteRow, Visits
<1>2. PICK o : o = tx[c]
  OBVIOUS
<1>3. PICK n : /\ Becomes(c, n) /\ Moved(o, n)
               /\ n.stmt = o.stmt /\ n.todo = o.todo \ {j}
               /\ n.seen = o.seen /\ n.locked = o.locked \cup {j}
               /\ \E v \in Versions(o, j) : n.new = With(o.new, j, v)
  BY <1>2, WriteRowEffect
<1>4. /\ TxOK(o) /\ o.stmt = "update" /\ j \in o.todo
      /\ StillHits(o, j) /\ ~TakenByOther(c, j)
  BY <1>1, <1>2 DEF TxInv, WriteRow, Visits
<1>5. Hits(o, j)
  BY <1>4 DEF TxOK, SelectOK, Selects, StillHits
<1>6. o.kind # "create"
  BY <1>4 DEF TxOK, WriteOK, Selects
<1>7. /\ DOMAIN n.new = DOMAIN o.new \cup {j} /\ n.new[j] \in Versions(o, j)
      /\ \A i \in DOMAIN o.new \ {j} : n.new[i] = o.new[i]
  BY <1>3 DEF With
<1>8. TxOK(n)
  <2>1. Shape(n) /\ Party(n)
    BY <1>3, <1>4, <1>7, MovedFacts DEF TxOK, Shape, Party, Moved
  <2>2. SelectOK(n) /\ LimitOK(n)
    BY <1>3, <1>4, <1>7, MovedFacts DEF TxOK, SelectOK, LimitOK, Moved
  <2>3. WriteOK(n)
    BY <1>3, <1>4, <1>6, <1>7, MovedFacts DEF TxOK, WriteOK, Moved
  <2>4. VersionOK(n)
    <3>1. \A i \in DOMAIN n.new : Hits(o, i) /\ n.new[i] \in Versions(o, i)
      BY <1>4, <1>5, <1>6, <1>7 DEF TxOK, VersionOK
    <3>2. QED
      BY <1>3, <3>1, MovedFacts DEF VersionOK
  <2>5. InsertOK(n)
    BY <1>3, <1>6 DEF InsertOK, Moved
  <2>6. ReleaseOK(n)
    BY <1>3, <1>4, <1>7 DEF TxOK, ReleaseOK, Moved
  <2>7. QED
    BY <2>1, <2>2, <2>3, <2>4, <2>5, <2>6 DEF TxOK
<1>9. \A d \in Open \ {c} : n.locked \cap tx[d].locked = {}
  BY <1>1, <1>2, <1>3, <1>4, NotTaken DEF TxInv, Apart
<1>10. n.kind # "create" /\ n.stmt = o.stmt /\ n.todo \subseteq o.todo
  BY <1>3, <1>6 DEF Moved
<1>11. QED
  BY <1>1, <1>2, <1>3, <1>8, <1>9, <1>10, MovedInv

\* An INSERT waits for whoever has written its key, so no two have.
LEMMA InsertInv ==
  ASSUME TxInv, NEW c \in Conn, NEW j \in Job, Insert(c, j)
  PROVE  TxInv'
<1>1. c \in Open
  BY DEF Insert
<1>2. PICK o : o = tx[c]
  OBVIOUS
<1>3. PICK n : /\ Becomes(c, n) /\ Moved(o, n)
               /\ n.stmt = "update" /\ n.todo = o.todo
               /\ n.seen = o.seen /\ n.locked = {j}
               /\ \E q \in Queue, k \in Key \cup {NULL}, retries \in MaxRetries,
                     run_at \in RunAt \cup {NULL} :
                    /\ ~KeyTaken(q, k) /\ ~KeyInDoubt(q, k)
                    /\ n.new = With(o.new, j, NewJob(q, k, retries, run_at, o.now))
  BY <1>2, InsertEffect
<1>4. PICK q \in Queue, k \in Key \cup {NULL}, retries \in MaxRetries,
           run_at \in RunAt \cup {NULL} :
        /\ ~KeyTaken(q, k) /\ ~KeyInDoubt(q, k)
        /\ n.new = With(o.new, j, NewJob(q, k, retries, run_at, o.now))
  BY <1>3
<1>5. /\ TxOK(o) /\ o.stmt = "begin" /\ o.kind = "create"
      /\ j \notin issued /\ ~TakenByOther(c, j)
  BY <1>1, <1>2 DEF TxInv, Insert
<1>6. o.locked = {} /\ DOMAIN o.new = {} /\ o.todo = {}
  BY <1>5 DEF TxOK, Shape
<1>7. DOMAIN n.new = {j} /\ n.new[j] = NewJob(q, k, retries, run_at, o.now)
  BY <1>4, <1>6 DEF With
<1>8. TxOK(n)
  <2>1. Shape(n) /\ Party(n)
    BY <1>3, <1>5, <1>6, <1>7, MovedFacts DEF TxOK, Shape, Party, Moved
  <2>2. SelectOK(n) /\ LimitOK(n) /\ VersionOK(n) /\ ReleaseOK(n)
    BY <1>3, <1>5, MovedFacts
    DEF SelectOK, LimitOK, VersionOK, ReleaseOK, Selects, Moved
  <2>3. WriteOK(n)
    BY <1>3, <1>5, <1>6, <1>7 DEF WriteOK, OneRow, Moved
  <2>4. InsertOK(n)
    BY <1>3, <1>4, <1>5, <1>7 DEF InsertOK, Moved
  <2>5. QED
    BY <2>1, <2>2, <2>3, <2>4 DEF TxOK
<1>9. \A d \in Open \ {c} : n.locked \cap tx[d].locked = {}
  BY <1>3, <1>5, NotTaken
<1>10. ASSUME NEW d \in Open \ {c}, tx[d].kind = "create", NEW i \in DOMAIN tx[d].new
       PROVE  ~SameKey(n.new[j], tx[d].new[i])
  <2>1. n.new[j].queue = q /\ n.new[j].idempotency_key = k
    BY <1>7 DEF NewJob
  <2>2. tx[d].new[i] \in Doubtful(tx[d])
    BY <1>10 DEF Doubtful
  <2>3. QED
    BY <1>4, <1>10, <2>1, <2>2 DEF KeyInDoubt, SameKey
<1>11. n.kind # "release"
  BY <1>3, <1>5 DEF Moved
<1>12. QED
  BY <1>1, <1>2, <1>3, <1>7, <1>8, <1>9, <1>10, <1>11, MovedInv

------------------------------------------------------------------------------
(* BEGIN, ROLLBACK, and what happens outside of the transactions. *)

\* A transaction that has just begun has nothing in hand.
LEMMA BegunFacts ==
  ASSUME TxInv, NEW kind \in Kind, NEW w, NEW j, NEW a, NEW n, n = Begun(kind, w, j, a)
  PROVE  /\ n.kind = kind /\ n.worker = w /\ n.job = j /\ n.attempts = a
         /\ n.locked = {} /\ DOMAIN n.new = {} /\ n.stmt = "begin"
         /\ Party(n) => TxOK(n)
<1>1. /\ n.kind = kind /\ n.worker = w /\ n.job = j /\ n.attempts = a /\ n.now = now
      /\ n.stmt = "begin" /\ n.todo = {} /\ n.locked = {}
      /\ n.seen = <<>> /\ n.new = <<>>
  BY DEF Begun
<1>2. DOMAIN n.seen = {} /\ DOMAIN n.new = {}
  BY <1>1
<1>3. now \in TxNow
  BY StoreAssumption DEF StoreAssumption, TxNow, TxInv, IInv, TypeOK
<1>4. IsTx(n)
  BY DEF Begun, IsTx, Fields
<1>5. Shape(n)
  BY <1>1, <1>2, <1>3, <1>4 DEF Shape
<1>6. SelectOK(n) /\ WriteOK(n) /\ VersionOK(n) /\ InsertOK(n) /\ ReleaseOK(n)
  BY <1>1, <1>2 DEF SelectOK, WriteOK, VersionOK, InsertOK, ReleaseOK
<1>7. LimitOK(n)
  BY <1>2, FS_EmptySet, StoreAssumption DEF LimitOK, StoreAssumption
<1>8. QED
  BY <1>1, <1>2, <1>5, <1>6, <1>7 DEF TxOK

\* It may begin if its worker's other transactions and its outcome allow.
LEMMA OpensInv ==
  ASSUME TxInv, NEW c \in Conn, NEW kind \in Kind, NEW w, NEW j, NEW a,
         NEW n, n = Begun(kind, w, j, a), Opens(c, n), Party(n),
         \A d \in Open : Looping(n) /\ Looping(tx[d]) => n.worker # tx[d].worker,
         \A d \in Open : Outcome(n) /\ Outcome(tx[d]) => SnapshotOf(n) # SnapshotOf(tx[d])
  PROVE  TxInv'
<1>1. Becomes(c, n)
  BY DEF Opens, Becomes
<1>2. /\ n.kind = kind /\ n.locked = {} /\ DOMAIN n.new = {} /\ n.stmt = "begin"
      /\ TxOK(n)
  BY BegunFacts
<1>3. \A d \in Open \ {c} : Apart(n, tx[d])
  BY <1>2 DEF Apart
<1>4. ReleasesInOrder'
  <2>1. /\ tx'[c] = n
        /\ \A d \in Open' \ {c} : d \in Open /\ tx'[d] = tx[d]
    BY <1>1, OthersStay DEF TxInv, Becomes
  <2>2. \A d \in Releasing' : d \in Releasing /\ tx'[d] = tx[d]
    BY <1>2, <2>1 DEF Releasing
  <2>3. \A d, e \in Releasing' : Overtaken(d, e)' => Overtaken(d, e)
    BY <1>1, <2>2 DEF Overtaken, Becomes, vars, HoldsLock, HasStatus, Exists
  <2>4. Releasing' \subseteq Releasing /\ ReleasesInOrder
    BY <2>2 DEF TxInv
  <2>5. QED
    BY <2>3, <2>4 DEF ReleasesInOrder
<1>5. QED
  BY <1>1, <1>2, <1>3, <1>4, Replaced

\* BEGIN keeps the invariant.
LEMMA BeginInv == ASSUME TxInv, NEW c \in Conn, Begin(c) PROVE TxInv'
<1>1. CASE BeginLoop(c)
  <2>1. PICK w \in Worker, kind \in {"claim", "release"} :
          /\ \A d \in Open : ~(tx[d].kind \in {"claim", "release"} /\ tx[d].worker = w)
          /\ Opens(c, Begun(kind, w, NULL, NULL))
    BY <1>1 DEF BeginLoop
  <2>2. PICK n : n = Begun(kind, w, NULL, NULL)
    OBVIOUS
  <2>3. kind \in Kind /\ n.kind = kind /\ n.worker = w
    BY <2>2, BegunFacts DEF Kind
  <2>4. Party(n) /\ ~Outcome(n)
    BY <2>3 DEF Party, Looping, Outcome, OneRow
  <2>5. QED
    BY <2>1, <2>2, <2>3, <2>4, OpensInv DEF Looping
<1>2. CASE BeginReap(c) \/ BeginCreate(c)
  <2>1. PICK kind \in {"reap", "create"} : Opens(c, Begun(kind, NULL, NULL, NULL))
    BY <1>2 DEF BeginReap, BeginCreate
  <2>2. PICK n : n = Begun(kind, NULL, NULL, NULL)
    OBVIOUS
  <2>3. kind \in Kind /\ n.kind = kind
    BY <2>2, BegunFacts DEF Kind
  <2>4. Party(n) /\ ~Outcome(n) /\ ~Looping(n)
    BY <2>3 DEF Party, Looping, Outcome, OneRow
  <2>5. QED
    BY <2>1, <2>2, <2>3, <2>4, OpensInv
<1>3. CASE BeginExtend(c)
  <2>1. PICK w \in Worker, j \in Job : Opens(c, Begun("extend", w, j, NULL))
    BY <1>3 DEF BeginExtend
  <2>2. PICK n : n = Begun("extend", w, j, NULL)
    OBVIOUS
  <2>3. "extend" \in Kind /\ n.kind = "extend" /\ n.worker = w /\ n.job = j
    BY <2>2, BegunFacts DEF Kind
  <2>4. Party(n) /\ ~Outcome(n) /\ ~Looping(n)
    BY <2>3 DEF Party, Looping, Outcome, OneRow
  <2>5. QED
    BY <2>1, <2>2, <2>3, <2>4, OpensInv
<1>4. CASE BeginOutcome(c)
  <2>1. PICK s \in snapshots, kind \in {"succeed", "fail"} :
          /\ \A d \in Open : ~Reports(tx[d], s)
          /\ Opens(c, Begun(kind, s.worker, s.job, s.attempts))
    BY <1>4 DEF BeginOutcome
  <2>2. PICK n : n = Begun(kind, s.worker, s.job, s.attempts)
    OBVIOUS
  <2>3. /\ kind \in Kind /\ n.kind = kind
        /\ n.worker = s.worker /\ n.job = s.job /\ n.attempts = s.attempts
    BY <2>2, BegunFacts DEF Kind
  <2>4. s \in Snapshot
    BY DEF TxInv, IInv, TypeOK
  <2>5. SnapshotOf(n) = s
    BY <2>3, <2>4 DEF SnapshotOf, Snapshot
  <2>6. Party(n) /\ ~Looping(n)
    BY <2>3, <2>4, <2>5 DEF Party, Looping, Outcome, OneRow, Snapshot
  <2>7. \A d \in Open : Outcome(tx[d]) => SnapshotOf(tx[d]) # SnapshotOf(n)
    BY <2>1, <2>3 DEF Reports, Outcome, SnapshotOf
  <2>8. QED
    BY <2>1, <2>2, <2>3, <2>6, <2>7, OpensInv
<1>5. CASE BeginRequest(c)
  <2>1. PICK j \in Job, kind \in {"cancel", "retry", "retry_dead", "delete"} :
          Opens(c, Begun(kind, NULL, j, NULL))
    BY <1>5 DEF BeginRequest
  <2>2. PICK n : n = Begun(kind, NULL, j, NULL)
    OBVIOUS
  <2>3. kind \in Kind /\ n.kind = kind /\ n.job = j
    BY <2>2, BegunFacts DEF Kind
  <2>4. Party(n) /\ ~Outcome(n) /\ ~Looping(n)
    BY <2>3 DEF Party, Looping, Outcome, OneRow
  <2>5. QED
    BY <2>1, <2>2, <2>3, <2>4, OpensInv
<1>6. QED
  BY <1>1, <1>2, <1>3, <1>4, <1>5 DEF Begin

\* The transactions and the releases left when some end.
LEMMA FewerOpen ==
  ASSUME TxInv, tx' = [d \in Conn |-> tx'[d]],
         \A d \in Open' : d \in Open /\ tx'[d] = tx[d],
         IInv', \A d \in Open' : TxOK(tx[d])',
         \A d, e \in Releasing' : Overtaken(d, e)' => Overtaken(d, e)
  PROVE  TxInv'
<1>1. \A d, e \in Open' : d # e => Apart(tx[d], tx[e])'
  <2>1. SUFFICES ASSUME NEW d \in Open', NEW e \in Open', d # e
                 PROVE  Apart(tx'[d], tx'[e])
    OBVIOUS
  <2>2. QED
    BY <2>1 DEF TxInv
<1>2. Releasing' \subseteq Releasing
  BY DEF Releasing
<1>3. ReleasesInOrder'
  BY <1>2 DEF TxInv, ReleasesInOrder
<1>4. QED
  BY <1>1, <1>3 DEF TxInv

\* A rollback leaves nothing behind.
LEMMA AbortInv == ASSUME TxInv, NEW c \in Conn, Abort(c) PROVE TxInv'
<1>1. /\ tx' = [d \in Conn |-> tx'[d]]
      /\ \A d \in Open' : d \in Open /\ tx'[d] = tx[d]
  BY OthersStay DEF Abort, TxInv
<1>2. IInv'
  BY NextInv DEF Abort, TxInv
<1>3. ASSUME NEW d \in Open' PROVE TxOK(tx[d])'
  <2>1. TxOK(tx[d]) /\ tx'[d] = tx[d]
    BY <1>1, <1>3 DEF TxInv
  <2>2. QED
    BY <2>1, TxOKFrame DEF Abort
<1>4. \A d, e \in Releasing' : Overtaken(d, e)' => Overtaken(d, e)
  BY <1>1 DEF Releasing, Overtaken, Abort, vars, HoldsLock, HasStatus, Exists
<1>5. QED
  BY <1>1, <1>2, <1>3, <1>4, FewerOpen

\* Snapshots that no open transaction reports may be lost, and time may pass
\* while every open transaction is young enough.
LEMMA OutsideInv ==
  ASSUME TxInv, UNCHANGED <<jobs, issued, job_attempts, tx>>, now' \in Nat,
         snapshots' \subseteq snapshots,
         \A c \in Open : Outcome(tx[c]) => SnapshotOf(tx[c]) \in snapshots',
         \A c \in Open : tx[c].now \in TxNow'
  PROVE  TxInv'
<1>1. IInv'
  BY DropInv DEF TxInv
<1>2. Open' = Open
  BY DEF Open
<1>3. ASSUME NEW c \in Open PROVE TxOK(tx[c])'
  <2>1. PICK o : o = tx[c] /\ o = tx'[c]
    OBVIOUS
  <2>2. TxOK(o)
    BY <1>3, <2>1 DEF TxInv
  <2>3. Shape(o)' /\ Party(o)'
    BY <1>3, <2>1, <2>2 DEF TxOK, Shape, Party
  <2>4. DOMAIN o.seen \subseteq Job \/ ~Selects(o)
    BY <2>2 DEF TxOK, Shape, SelectOK
  <2>5. SelectOK(o)'
    BY <2>2, <2>4, HitsLocal DEF TxOK, SelectOK, Selects
  <2>6. LimitOK(o)' /\ WriteOK(o)'
    BY <2>2 DEF TxOK, LimitOK, WriteOK, Selects
  <2>7. DOMAIN o.new \subseteq Job
    BY <2>2 DEF TxOK, Shape
  <2>8. VersionOK(o)'
    BY <2>2, <2>7, HitsLocal, VersionsLocal DEF TxOK, VersionOK
  <2>9. InsertOK(o)' /\ ReleaseOK(o)'
    BY <2>2 DEF TxOK, InsertOK, KeyTaken, ReleaseOK, InFlight, HoldsLock, HasStatus, Exists
  <2>10. TxOK(o)'
    BY <2>3, <2>5, <2>6, <2>8, <2>9 DEF TxOK
  <2>11. QED
    BY <2>1, <2>10
<1>4. \A c, d \in Releasing' : Overtaken(c, d)' => Overtaken(c, d)
  BY DEF Overtaken, HoldsLock, HasStatus, Exists
<1>5. QED
  BY <1>1, <1>2, <1>3, <1>4, FewerOpen DEF TxInv

\* One Job object is dropped.
LEMMA DropOne ==
  ASSUME TypeOK, NEW s \in snapshots, LoseSnapshots({s})
  PROVE  Next
<1>1. s.worker \in Worker
  BY DEF TypeOK, Snapshot
<1>2. {s} \in SUBSET {r \in snapshots : r.worker = s.worker}
  OBVIOUS
<1>3. QED
  BY <1>1, <1>2 DEF Next, WorkerNext

\* A lost snapshot.
LEMMA ForgetInv == ASSUME TxInv, Forget PROVE TxInv' /\ [Next]_vars
<1>1. PICK s \in snapshots : (\A c \in Open : ~Reports(tx[c], s)) /\ LoseSnapshots({s})
  BY DEF Forget
<1>2. \A c \in Open : Outcome(tx[c]) => SnapshotOf(tx[c]) \in snapshots'
  <2>1. SUFFICES ASSUME NEW c \in Open, Outcome(tx[c])
                 PROVE  SnapshotOf(tx[c]) \in snapshots \ {s}
    BY <1>1 DEF LoseSnapshots
  <2>2. SnapshotOf(tx[c]) \in snapshots
    BY <2>1 DEF TxInv, TxOK, Party
  <2>3. QED
    BY <1>1, <2>1, <2>2 DEF Reports, Outcome, SnapshotOf
<1>3. \A c \in Open : tx[c].now \in TxNow /\ TxNow' = TxNow
  BY <1>1 DEF TxInv, TxOK, Shape, LoseSnapshots, TxNow
<1>4. /\ UNCHANGED <<jobs, issued, job_attempts, tx>> /\ now' \in Nat
      /\ snapshots' \subseteq snapshots
  BY <1>1 DEF Forget, LoseSnapshots, TxInv, IInv, TypeOK
<1>5. Next
  BY <1>1, DropOne DEF TxInv, IInv
<1>6. QED
  BY <1>2, <1>3, <1>4, <1>5, OutsideInv

\* A tick.
LEMMA TicksInv == ASSUME TxInv, TxClockTicks PROVE TxInv' /\ [Next]_vars
<1>1. /\ UNCHANGED <<jobs, issued, job_attempts, snapshots, tx>>
      /\ now \in Nat /\ now' = now + 1
  BY DEF TxClockTicks, Tick, TxInv, IInv, TypeOK
<1>2. ASSUME NEW c \in Open PROVE tx[c].now \in TxNow'
  <2>1. tx[c].now \in TxNow /\ now < tx[c].now + MaxTxLag
    BY DEF TxClockTicks, TxInv, TxOK, Shape
  <2>2. QED
    BY <1>1, <2>1, StoreAssumption DEF TxNow, StoreAssumption
<1>3. \A c \in Open : Outcome(tx[c]) => SnapshotOf(tx[c]) \in snapshots'
  BY <1>1 DEF TxInv, TxOK, Party
<1>4. Next
  BY DEF TxClockTicks, Next
<1>5. QED
  BY <1>1, <1>2, <1>3, <1>4, OutsideInv

------------------------------------------------------------------------------
(* What a statement makes of its rows. *)

\* Statements other than INSERT concern rows that exist.
LEMMA HitsExisting ==
  ASSUME IInv, NEW o, NEW j \in Job, Hits(o, j)
  PROVE  Exists(j) /\ RowOK(jobs[j]) /\ j \in issued
<1>1. Exists(j)
  BY DEF Hits, Claimable, Expired, HoldsLock, HasStatus
<1>2. QED
  BY <1>1, PerJob DEF AllJobs, JobInv, IssuedInv

\* What a row may become is still the same job, and runs only if a claim took
\* it or it ran before, for the same worker.
LEMMA VersionFacts ==
  ASSUME TxInv, NEW c \in Open, NEW o, o = tx[c], o.kind # "create",
         NEW j \in DOMAIN o.new
  PROVE  /\ j \in Job /\ Hits(o, j) /\ o.new[j] \in Versions(o, j)
         /\ Exists(j) /\ RowOK(jobs[j]) /\ j \in issued
         /\ o.kind = "delete" => o.new[j] = NULL
         /\ o.kind # "delete" =>
              /\ SameJob(jobs[j], o.new[j])
              /\ o.new[j].status = "running" =>
                   \/ o.kind = "claim" /\ o.new[j].locked_by = o.worker
                   \/ jobs[j].status = "running" /\ o.new[j].locked_by = jobs[j].locked_by
<1> DEFINE r == jobs[j]
           v == o.new[j]
<1>1. TxOK(o) /\ IInv
  BY DEF TxInv
<1>2. j \in Job /\ Hits(o, j) /\ v \in Versions(o, j)
  BY <1>1 DEF TxOK, Shape, VersionOK
<1>3. Exists(j) /\ RowOK(r) /\ j \in issued
  BY <1>1, <1>2, HitsExisting
<1>4. r \in JobRow /\ o.now \in Nat /\ o.kind \in Kind
  BY <1>1, <1>3, TxNowIsTime DEF RowOK, TxOK, Shape
<1>5. \A n : RetryDelays(n) \subseteq Nat
  BY BackoffAssumption DEF BackoffAssumption, RetryDelays
<1>6. o.kind = "delete" => v = NULL
  BY <1>2 DEF Versions
<1>7. ASSUME o.kind = "claim" PROVE SameJob(r, v) /\ v.locked_by = o.worker
  <2>1. o.worker \in Worker /\ v = Claimed(r, o.worker, o.now)
    BY <1>1, <1>2, <1>7 DEF TxOK, Party, Looping, Versions
  <2>2. QED
    BY <1>4, <2>1, UpdatedRow
<1>8. ASSUME o.kind = "release" PROVE SameJob(r, v) /\ v.status # "running"
  <2>1. r.attempts >= 1 /\ v = Released(r)
    BY <1>2, <1>3, <1>8 DEF RowOK, Versions, Hits, HoldsLock, HasStatus
  <2>2. QED
    BY <1>4, <2>1, UpdatedRow
<1>9. ASSUME o.kind = "extend"
      PROVE  SameJob(r, v) /\ v.status = r.status /\ v.locked_by = r.locked_by
  <2>1. v = [r EXCEPT !.lease_expires_at = o.now + LeaseTTL]
    BY <1>2, <1>9 DEF Versions
  <2>2. QED
    BY <1>4, <2>1, UpdatedRow
<1>10. ASSUME o.kind \in {"reap", "fail"} PROVE SameJob(r, v) /\ v.status # "running"
  <2>1. PICK n, d : d \in RetryDelays(n) /\ v = FailedOnce(r, n, o.now, d)
    BY <1>2, <1>10 DEF Versions
  <2>2. QED
    BY <1>4, <1>5, <2>1, UpdatedRow
<1>11. ASSUME o.kind \in {"succeed", "cancel", "retry", "retry_dead"}
       PROVE  SameJob(r, v) /\ v.status # "running"
  <2>1. v \in {Succeeded(r), Cancelled(r), Requeued(r, o.now)}
    BY <1>2, <1>11 DEF Versions
  <2>2. QED
    BY <1>4, <2>1, UpdatedRow
<1>12. o.kind # "delete" =>
         /\ SameJob(r, v)
         /\ v.status = "running" => \/ o.kind = "claim" /\ v.locked_by = o.worker
                                    \/ r.status = "running" /\ v.locked_by = r.locked_by
  BY <1>4, <1>7, <1>8, <1>9, <1>10, <1>11 DEF Kind
<1>13. QED
  BY <1>2, <1>3, <1>6, <1>12

\* What is written is a row.
LEMMA VersionIsRow ==
  ASSUME TxInv, NEW c \in Open, NEW o, o = tx[c], NEW j \in DOMAIN o.new
  PROVE  IF o.kind = "delete" THEN o.new[j] = NULL ELSE o.new[j] \in JobRow
<1>1. CASE o.kind = "create"
  <2>1. TxOK(o) /\ IInv
    BY DEF TxInv
  <2>2. PICK q \in Queue, k \in Key \cup {NULL}, retries \in MaxRetries,
             run_at \in RunAt \cup {NULL} :
          o.new[j] = NewJob(q, k, retries, run_at, o.now)
    BY <1>1, <2>1 DEF TxOK, InsertOK
  <2>3. retries \in Nat /\ run_at \in Nat \cup {NULL} /\ o.now \in Nat
    BY <2>1, StoreAssumption, TxNowIsTime DEF StoreAssumption, TxOK, Shape
  <2>4. NewJob(q, k, retries, run_at, o.now) \in JobRow
    BY <2>3, NewJobRow DEF RowOK
  <2>5. QED
    BY <1>1, <2>2, <2>4
<1>2. CASE o.kind # "create"
  BY <1>2, VersionFacts DEF SameJob
<1>3. QED
  BY <1>1, <1>2

------------------------------------------------------------------------------
(* COMMIT is a step of JobStore. *)

\* The row of every attempt exists.
LEMMA AttemptsHaveJobs ==
  ASSUME IInv, NEW a \in job_attempts
  PROVE  a.job \in Job /\ Exists(a.job)
BY DEF IInv, TypeOK, JobAttempt, AttemptHistory

\* The effect of a commit, but for what its kind adds.
LEMMA CommitEffect ==
  ASSUME TxInv, NEW c \in Conn, Commit(c), NEW o, o = tx[c]
  PROVE  /\ c \in Open /\ TxOK(o) /\ o.stmt = "update" /\ o.todo = {}
         /\ \A a \in NewAttempts(o) : ~AttemptRecorded(a.job, a.attempt_number)
         /\ DOMAIN o.new \subseteq Job /\ o.now \in TxNow
         /\ jobs' = [j \in Job |-> IF j \in DOMAIN o.new THEN o.new[j] ELSE jobs[j]]
         /\ issued' = issued \cup DOMAIN o.new
         /\ o.kind # "create" => issued' = issued
         /\ o.kind # "delete" => job_attempts' = job_attempts \cup NewAttempts(o)
         /\ snapshots' = SnapshotsAfter(o) /\ now' = now
<1>1. /\ c \in Open /\ o.stmt = "update" /\ o.todo = {}
      /\ \A a \in NewAttempts(o) : ~AttemptRecorded(a.job, a.attempt_number)
      /\ jobs' = [j \in Job |-> IF j \in DOMAIN o.new THEN o.new[j] ELSE jobs[j]]
      /\ issued' = issued \cup DOMAIN o.new
      /\ job_attempts' = {a \in job_attempts \cup NewAttempts(o) : jobs'[a.job] # NULL}
      /\ snapshots' = SnapshotsAfter(o) /\ now' = now
  BY DEF Commit
<1>2. TxOK(o) /\ DOMAIN o.new \subseteq Job /\ o.now \in TxNow
  BY <1>1 DEF TxInv, TxOK, Shape
<1>3. o.kind # "create" => DOMAIN o.new \subseteq issued
  BY <1>1, VersionFacts
<1>4. o.kind # "delete" => \A j \in DOMAIN o.new : o.new[j] # NULL
  BY <1>1, VersionIsRow, NullIsDistinct
<1>5. \A a \in NewAttempts(o) : a.job \in DOMAIN o.new
  BY DEF NewAttempts, Attempt
<1>6. o.kind # "delete" => job_attempts' = job_attempts \cup NewAttempts(o)
  <2>1. \A a \in job_attempts : a.job \in Job /\ jobs[a.job] # NULL
    BY AttemptsHaveJobs DEF TxInv, Exists
  <2>2. QED
    BY <1>1, <1>2, <1>4, <1>5, <2>1
<1>7. QED
  BY <1>1, <1>2, <1>3, <1>6

\* The commit of a claim.
LEMMA ClaimCommits ==
  ASSUME TxInv, NEW c \in Conn, Commit(c), tx[c].kind = "claim"
  PROVE  [Next]_vars
<1>1. PICK o : o = tx[c]
  OBVIOUS
<1>2. PICK S : S = DOMAIN o.new
  OBVIOUS
<1>3. /\ c \in Open /\ TxOK(o) /\ S \subseteq Job /\ o.now \in TxNow
      /\ jobs' = [j \in Job |-> IF j \in S THEN o.new[j] ELSE jobs[j]]
      /\ issued' = issued /\ job_attempts' = job_attempts \cup NewAttempts(o)
      /\ snapshots' = SnapshotsAfter(o) /\ now' = now
  BY <1>1, <1>2, CommitEffect
<1>4. NewAttempts(o) = {}
  BY <1>1 DEF NewAttempts
<1>5. o.worker \in Worker
  BY <1>1, <1>3 DEF TxOK, Party, Looping
<1>6. ASSUME NEW j \in S
      PROVE  /\ j \in Claimable(o.worker, o.now)
             /\ o.new[j] = Claimed(jobs[j], o.worker, o.now)
             /\ o.new[j].attempts = jobs[j].attempts + 1
  <2>1. /\ Hits(o, j) /\ o.new[j] \in Versions(o, j) /\ RowOK(jobs[j])
    BY <1>1, <1>2, <1>3, VersionFacts
  <2>2. /\ j \in Claimable(o.worker, o.now)
        /\ o.new[j] = Claimed(jobs[j], o.worker, o.now)
    BY <1>1, <2>1 DEF Hits, Versions
  <2>3. o.now \in Nat
    BY <1>3, TxNowIsTime DEF TxInv
  <2>4. jobs[j].status \in {"queued", "scheduled", "retrying"}
    BY <2>2 DEF Claimable, HasStatus
  <2>5. o.new[j].attempts = jobs[j].attempts + 1
    BY <1>5, <2>1, <2>2, <2>3, <2>4, ClaimedRow
  <2>6. QED
    BY <2>2, <2>5
<1>7. snapshots' = snapshots \cup
        {[worker |-> o.worker, job |-> j, attempts |-> jobs[j].attempts + 1] : j \in S}
  BY <1>1, <1>2, <1>3, <1>6 DEF SnapshotsAfter
<1>8. CASE S = {}
  <2>1. jobs' = jobs
    BY <1>3, <1>8 DEF TxInv, IInv, TypeOK
  <2>2. QED
    BY <1>3, <1>4, <1>7, <1>8, <2>1 DEF vars
<1>9. CASE S # {}
  <2>1. jobs' = [j \in Job |-> IF j \in S THEN Claimed(jobs[j], o.worker, o.now) ELSE jobs[j]]
    BY <1>3, <1>6
  <2>2. ClaimJobs(o.worker, S, o.now)
    BY <1>3, <1>4, <1>6, <1>7, <1>9, <2>1 DEF ClaimJobs
  <2>3. QED
    BY <1>3, <1>5, <2>2 DEF Next, WorkerNext
<1>10. QED
  BY <1>8, <1>9

\* The commit of a reap.
LEMMA ReapCommits ==
  ASSUME TxInv, NEW c \in Conn, Commit(c), tx[c].kind = "reap"
  PROVE  [Next]_vars
<1>1. PICK o : o = tx[c]
  OBVIOUS
<1>2. PICK S : S = DOMAIN o.new
  OBVIOUS
<1>3. /\ c \in Open /\ TxOK(o) /\ S \subseteq Job /\ o.now \in TxNow /\ o.stmt = "update"
      /\ \A a \in NewAttempts(o) : ~AttemptRecorded(a.job, a.attempt_number)
      /\ jobs' = [j \in Job |-> IF j \in S THEN o.new[j] ELSE jobs[j]]
      /\ issued' = issued /\ job_attempts' = job_attempts \cup NewAttempts(o)
      /\ snapshots' = SnapshotsAfter(o) /\ now' = now
  BY <1>1, <1>2, CommitEffect
<1>4. S \subseteq DOMAIN o.seen /\ \A j \in DOMAIN o.seen : o.seen[j] = jobs[j].attempts
  BY <1>1, <1>2, <1>3 DEF TxOK, Shape, SelectOK, Selects
<1>5. Cardinality(S) <= ReapLimit
  <2>1. IsFiniteSet(DOMAIN o.seen) /\ Cardinality(DOMAIN o.seen) <= ReapLimit
    BY <1>1, <1>3 DEF TxOK, LimitOK
  <2>2. Cardinality(S) <= Cardinality(DOMAIN o.seen) /\ IsFiniteSet(S)
    BY <1>4, <2>1, FS_Subset
  <2>3. Cardinality(S) \in Nat /\ Cardinality(DOMAIN o.seen) \in Nat /\ ReapLimit \in Nat
    BY <2>1, <2>2, FS_CardinalityType, StoreAssumption DEF StoreAssumption
  <2>4. QED
    BY <2>1, <2>2, <2>3
<1>6. ASSUME NEW j \in S
      PROVE  /\ j \in Expired(o.now)
             /\ \E d \in RetryDelays(jobs[j].attempts) :
                  o.new[j] = FailedOnce(jobs[j], jobs[j].attempts, o.now, d)
             /\ ~AttemptRecorded(j, jobs[j].attempts)
  <2>1. Hits(o, j) /\ o.new[j] \in Versions(o, j)
    BY <1>1, <1>2, <1>3, VersionFacts
  <2>2. j \in Expired(o.now)
    BY <1>1, <2>1 DEF Hits
  <2>3. o.seen[j] = jobs[j].attempts
    BY <1>4
  <2>4. \E d \in RetryDelays(jobs[j].attempts) :
          o.new[j] = FailedOnce(jobs[j], jobs[j].attempts, o.now, d)
    BY <1>1, <2>1, <2>3 DEF Versions
  <2>5. Attempt(j, jobs[j].attempts, "failed") \in NewAttempts(o)
    BY <1>1, <1>2, <2>3 DEF NewAttempts
  <2>6. ~AttemptRecorded(j, jobs[j].attempts)
    BY <1>3, <2>5 DEF Attempt
  <2>7. QED
    BY <2>2, <2>4, <2>6
<1> DEFINE D(j) == CHOOSE d \in RetryDelays(jobs[j].attempts) :
                     o.new[j] = FailedOnce(jobs[j], jobs[j].attempts, o.now, d)
<1>7. PICK delay : delay = [j \in S |-> D(j)]
  OBVIOUS
<1>8. ASSUME NEW j \in S
      PROVE  /\ delay[j] \in RetryDelays(jobs[j].attempts) /\ delay[j] \in 0..RetryMax
             /\ o.new[j] = FailedOnce(jobs[j], jobs[j].attempts, o.now, delay[j])
  <2>1. /\ D(j) \in RetryDelays(jobs[j].attempts)
        /\ o.new[j] = FailedOnce(jobs[j], jobs[j].attempts, o.now, D(j))
    BY <1>6
  <2>2. delay[j] = D(j)
    BY <1>7
  <2> HIDE DEF D
  <2>3. delay[j] \in 0..RetryMax
    BY <2>1, <2>2 DEF RetryDelays
  <2>4. QED
    BY <2>1, <2>2, <2>3
<1>9. NewAttempts(o) = {Attempt(j, jobs[j].attempts, "failed") : j \in S}
  BY <1>1, <1>2, <1>4 DEF NewAttempts
<1>10. snapshots' = snapshots
  BY <1>1, <1>3 DEF SnapshotsAfter
<1>11. CASE S = {}
  <2>1. jobs' = jobs
    BY <1>3, <1>11 DEF TxInv, IInv, TypeOK
  <2>2. QED
    BY <1>3, <1>9, <1>10, <1>11, <2>1 DEF vars
<1>12. CASE S # {}
  <2> HIDE DEF D
  <2>1. jobs' = [j \in Job |->
                   IF j \in S THEN FailedOnce(jobs[j], jobs[j].attempts, o.now, delay[j])
                              ELSE jobs[j]]
    BY <1>3, <1>8
  <2>2. delay \in [S -> 0..RetryMax]
    BY <1>7, <1>8
  <2>3. S \subseteq Expired(o.now)
    BY <1>6
  <2>4. ReapExpiredJobs(S, delay, o.now)
    BY <1>3, <1>5, <1>6, <1>8, <1>9, <1>10, <1>12, <2>1, <2>3 DEF ReapExpiredJobs
  <2>5. QED
    BY <1>3, <2>2, <2>4 DEF Next, WorkerNext
<1>13. QED
  BY <1>11, <1>12

\* The commit of a release.
LEMMA ReleaseCommits ==
  ASSUME TxInv, NEW c \in Conn, Commit(c), tx[c].kind = "release"
  PROVE  [Next]_vars
<1>1. PICK o : o = tx[c]
  OBVIOUS
<1>2. PICK S : S = DOMAIN o.new
  OBVIOUS
<1>3. /\ c \in Open /\ TxOK(o) /\ S \subseteq Job /\ o.stmt = "update" /\ o.todo = {}
      /\ \A a \in NewAttempts(o) : ~AttemptRecorded(a.job, a.attempt_number)
      /\ jobs' = [j \in Job |-> IF j \in S THEN o.new[j] ELSE jobs[j]]
      /\ issued' = issued /\ job_attempts' = job_attempts \cup NewAttempts(o)
      /\ snapshots' = SnapshotsAfter(o) /\ now' = now
  BY <1>1, <1>2, CommitEffect
<1>4. o.worker \in Worker
  BY <1>1, <1>3 DEF TxOK, Party, Looping
<1>5. ASSUME NEW j \in S
      PROVE  /\ HoldsLock(o.worker, j) /\ o.new[j] = Released(jobs[j])
             /\ o.new[j].attempts + 1 = jobs[j].attempts
             /\ ~AttemptRecorded(j, jobs[j].attempts)
  <2>1. Hits(o, j) /\ o.new[j] \in Versions(o, j) /\ RowOK(jobs[j])
    BY <1>1, <1>2, <1>3, VersionFacts
  <2>2. HoldsLock(o.worker, j) /\ o.new[j] = Released(jobs[j])
    BY <1>1, <2>1 DEF Hits, Versions
  <2>3. jobs[j].status = "running" /\ jobs[j].attempts \in Nat
    BY <2>1, <2>2 DEF HoldsLock, HasStatus, RowOK, JobRow
  <2>4. o.new[j].attempts + 1 = jobs[j].attempts
    BY <2>1, <2>2, <2>3, ReleasedRow
  <2>5. Attempt(j, jobs[j].attempts, "cancelled") \in NewAttempts(o)
    BY <1>1, <1>2, <2>4 DEF NewAttempts
  <2>6. ~AttemptRecorded(j, jobs[j].attempts)
    BY <1>3, <2>5 DEF Attempt
  <2>7. QED
    BY <2>2, <2>4, <2>6
<1>6. S = InFlight(o.worker)
  BY <1>1, <1>2, <1>3, <1>5 DEF TxOK, ReleaseOK, InFlight
<1>7. NewAttempts(o) = {Attempt(j, jobs[j].attempts, "cancelled") : j \in S}
  BY <1>1, <1>2, <1>5 DEF NewAttempts
<1>8. snapshots' = snapshots
  BY <1>1, <1>3 DEF SnapshotsAfter
<1>9. CASE S = {}
  <2>1. jobs' = jobs
    BY <1>3, <1>9 DEF TxInv, IInv, TypeOK
  <2>2. QED
    BY <1>3, <1>7, <1>8, <1>9, <2>1 DEF vars
<1>10. CASE S # {}
  <2>1. jobs' = [j \in Job |-> IF j \in S THEN Released(jobs[j]) ELSE jobs[j]]
    BY <1>3, <1>5
  <2>2. ReleaseInFlightJobs(o.worker)
    BY <1>3, <1>5, <1>6, <1>7, <1>8, <1>10, <2>1 DEF ReleaseInFlightJobs
  <2>3. QED
    BY <1>4, <2>2 DEF Next, WorkerNext
<1>11. QED
  BY <1>9, <1>10

\* The commit of a request for one row: it wrote that row or none.
LEMMA OneRowEffect ==
  ASSUME TxInv, NEW c \in Conn, Commit(c), NEW o, o = tx[c], o.kind \in OneRow
  PROVE  /\ o.job \in Job
         /\ \/ DOMAIN o.new = {} /\ jobs' = jobs /\ NewAttempts(o) = {}
            \/ /\ DOMAIN o.new = {o.job}
               /\ Hits(o, o.job) /\ Exists(o.job)
               /\ \E v \in Versions(o, o.job) : jobs' = [jobs EXCEPT ![o.job] = v]
<1>1. /\ c \in Open /\ TxOK(o)
      /\ jobs' = [j \in Job |-> IF j \in DOMAIN o.new THEN o.new[j] ELSE jobs[j]]
  BY CommitEffect
<1>2. o.job \in Job
  BY <1>1 DEF TxOK, Party
<1>3. DOMAIN o.new \subseteq {o.job}
  BY <1>1 DEF TxOK, WriteOK, Selects, OneRow
<1>4. jobs = [j \in Job |-> jobs[j]]
  BY DEF TxInv, IInv, TypeOK
<1>5. CASE DOMAIN o.new = {}
  BY <1>1, <1>2, <1>4, <1>5 DEF NewAttempts
<1>6. CASE DOMAIN o.new = {o.job}
  <2>1. Hits(o, o.job) /\ Exists(o.job) /\ o.new[o.job] \in Versions(o, o.job)
    BY <1>1, <1>6, VersionFacts DEF OneRow
  <2>2. jobs' = [jobs EXCEPT ![o.job] = o.new[o.job]]
    BY <1>1, <1>4, <1>6
  <2>3. QED
    BY <1>2, <1>6, <2>1, <2>2
<1>7. QED
  BY <1>3, <1>5, <1>6

\* The commit of a heartbeat.
LEMMA ExtendCommits ==
  ASSUME TxInv, NEW c \in Conn, Commit(c), tx[c].kind = "extend"
  PROVE  [Next]_vars
<1>1. PICK o : o = tx[c]
  OBVIOUS
<1>2. /\ TxOK(o) /\ o.now \in TxNow
      /\ issued' = issued /\ job_attempts' = job_attempts \cup NewAttempts(o)
      /\ snapshots' = SnapshotsAfter(o) /\ now' = now
  BY <1>1, CommitEffect
<1>3. o.worker \in Worker
  BY <1>1, <1>2 DEF TxOK, Party
<1>4. NewAttempts(o) = {} /\ SnapshotsAfter(o) = snapshots
  BY <1>1 DEF NewAttempts, SnapshotsAfter
<1>5. UNCHANGED <<issued, job_attempts, snapshots, now>>
  BY <1>2, <1>4
<1>6. /\ o.job \in Job
      /\ \/ jobs' = jobs
         \/ /\ Hits(o, o.job)
            /\ \E v \in Versions(o, o.job) : jobs' = [jobs EXCEPT ![o.job] = v]
  BY <1>1, OneRowEffect DEF OneRow
<1>7. CASE jobs' = jobs
  BY <1>5, <1>7 DEF vars
<1>8. CASE /\ Hits(o, o.job)
           /\ \E v \in Versions(o, o.job) : jobs' = [jobs EXCEPT ![o.job] = v]
  <2>1. HoldsLock(o.worker, o.job) /\ jobs[o.job].lease_expires_at > o.now
    BY <1>1, <1>8 DEF Hits
  <2>2. jobs' = [jobs EXCEPT ![o.job] = [jobs[o.job] EXCEPT !.lease_expires_at = o.now + LeaseTTL]]
    BY <1>1, <1>8 DEF Versions
  <2>3. ExtendLease(o.worker, o.job, o.now)
    BY <1>5, <2>1, <2>2 DEF ExtendLease
  <2>4. QED
    BY <1>2, <1>3, <1>6, <2>3 DEF Next, WorkerNext
<1>9. QED
  BY <1>6, <1>7, <1>8

\* The commit of an outcome.  If it found no row, either nobody has the job
\* any more for whom it was reported, or the transaction is a lost report.
LEMMA OutcomeCommits ==
  ASSUME TxInv, NEW c \in Conn, Commit(c), Outcome(tx[c])
  PROVE  [Next]_vars
<1>1. PICK o : o = tx[c]
  OBVIOUS
<1>2. PICK s : s = SnapshotOf(o)
  OBVIOUS
<1>3. /\ TxOK(o) /\ o.now \in TxNow
      /\ \A a \in NewAttempts(o) : ~AttemptRecorded(a.job, a.attempt_number)
      /\ issued' = issued /\ job_attempts' = job_attempts \cup NewAttempts(o)
      /\ snapshots' = SnapshotsAfter(o) /\ now' = now
  BY <1>1, CommitEffect DEF Outcome
<1>4. s \in snapshots /\ s.worker = o.worker /\ s.job = o.job /\ s.attempts = o.attempts
  BY <1>1, <1>2, <1>3 DEF TxOK, Party, SnapshotOf
<1>5. snapshots' = snapshots \ {s}
  BY <1>1, <1>2, <1>3 DEF SnapshotsAfter, SnapshotOf, Outcome
<1>6. /\ o.job \in Job
      /\ \/ DOMAIN o.new = {} /\ jobs' = jobs /\ NewAttempts(o) = {}
         \/ /\ DOMAIN o.new = {o.job}
            /\ Hits(o, o.job) /\ Exists(o.job)
            /\ \E v \in Versions(o, o.job) : jobs' = [jobs EXCEPT ![o.job] = v]
  BY <1>1, OneRowEffect DEF OneRow, Outcome
<1>7. CASE DOMAIN o.new = {} /\ jobs' = jobs /\ NewAttempts(o) = {}
  <2>1. LoseSnapshots({s})
    BY <1>3, <1>4, <1>5, <1>7 DEF LoseSnapshots
  <2>2. QED
    BY <1>4, <2>1, DropOne DEF TxInv, IInv
<1>8. CASE /\ DOMAIN o.new = {o.job}
           /\ Hits(o, o.job) /\ Exists(o.job)
           /\ \E v \in Versions(o, o.job) : jobs' = [jobs EXCEPT ![o.job] = v]
  <2>1. StillLocked(s)
    BY <1>1, <1>4, <1>8 DEF Hits, StillLocked, Outcome
  <2>2. CASE o.kind = "succeed"
    <3>1. NewAttempts(o) = {Attempt(s.job, s.attempts, "succeeded")}
      BY <1>4, <1>8, <2>2 DEF NewAttempts
    <3>2. ~AttemptRecorded(s.job, s.attempts)
      BY <1>3, <3>1 DEF Attempt
    <3>3. jobs' = [jobs EXCEPT ![s.job] = Succeeded(@)]
      BY <1>4, <1>8, <2>2 DEF Versions
    <3>4. MarkJobSucceeded(s)
      BY <1>3, <1>5, <2>1, <3>1, <3>2, <3>3 DEF MarkJobSucceeded
    <3>5. QED
      BY <1>4, <3>4 DEF Next, WorkerNext
  <2>3. CASE o.kind = "fail"
    <3>1. NewAttempts(o) = {Attempt(s.job, s.attempts, "failed")}
      BY <1>4, <1>8, <2>3 DEF NewAttempts
    <3>2. ~AttemptRecorded(s.job, s.attempts)
      BY <1>3, <3>1 DEF Attempt
    <3>3. PICK d \in RetryDelays(s.attempts) :
            jobs' = [jobs EXCEPT ![s.job] = FailedOnce(@, s.attempts, o.now, d)]
      <4>1. PICK v \in Versions(o, o.job) : jobs' = [jobs EXCEPT ![o.job] = v]
        BY <1>8
      <4>2. PICK d \in RetryDelays(s.attempts) :
              v = FailedOnce(jobs[s.job], s.attempts, o.now, d)
        BY <1>4, <2>3, <4>1 DEF Versions
      <4>3. QED
        BY <1>4, <4>1, <4>2
    <3>4. MarkJobFailed(s, d, o.now)
      BY <1>3, <1>5, <2>1, <3>1, <3>2, <3>3 DEF MarkJobFailed
    <3>5. d \in 0..RetryMax
      BY <3>3 DEF RetryDelays
    <3>6. QED
      BY <1>3, <1>4, <3>4, <3>5 DEF Next, WorkerNext
  <2>4. QED
    BY <1>1, <2>2, <2>3 DEF Outcome
<1>9. QED
  BY <1>6, <1>7, <1>8

\* The commit of a cancel or of a manual retry.
LEMMA RequestCommits ==
  ASSUME TxInv, NEW c \in Conn, Commit(c), tx[c].kind \in {"cancel", "retry", "retry_dead"}
  PROVE  [Next]_vars
<1>1. PICK o : o = tx[c]
  OBVIOUS
<1>2. /\ TxOK(o) /\ o.now \in TxNow
      /\ issued' = issued /\ job_attempts' = job_attempts \cup NewAttempts(o)
      /\ snapshots' = SnapshotsAfter(o) /\ now' = now
  BY <1>1, CommitEffect
<1>3. NewAttempts(o) = {} /\ SnapshotsAfter(o) = snapshots
  BY <1>1 DEF NewAttempts, SnapshotsAfter
<1>4. UNCHANGED <<issued, job_attempts, snapshots, now>>
  BY <1>2, <1>3
<1>5. /\ o.job \in Job
      /\ \/ jobs' = jobs
         \/ /\ Hits(o, o.job)
            /\ \E v \in Versions(o, o.job) : jobs' = [jobs EXCEPT ![o.job] = v]
  BY <1>1, OneRowEffect DEF OneRow
<1>6. CASE jobs' = jobs
  BY <1>4, <1>6 DEF vars
<1>7. CASE /\ Hits(o, o.job)
           /\ \E v \in Versions(o, o.job) : jobs' = [jobs EXCEPT ![o.job] = v]
  <2>1. CASE o.kind = "cancel"
    <3>1. HasStatus(o.job, Cancellable) /\ jobs' = [jobs EXCEPT ![o.job] = Cancelled(@)]
      BY <1>7, <2>1 DEF Hits, Versions
    <3>2. QED
      BY <1>4, <1>5, <3>1 DEF CancelJob, Next, ApiNext
  <2>2. CASE o.kind = "retry"
    <3>1. HasStatus(o.job, Retryable) /\ jobs' = [jobs EXCEPT ![o.job] = Requeued(@, o.now)]
      BY <1>7, <2>2 DEF Hits, Versions
    <3>2. RetryJob(o.job, o.now)
      BY <1>4, <3>1 DEF RetryJob
    <3>3. QED
      BY <1>2, <1>5, <3>2 DEF Next, ApiNext
  <2>3. CASE o.kind = "retry_dead"
    <3>1. /\ HasStatus(o.job, {"dead_letter"})
          /\ jobs' = [jobs EXCEPT ![o.job] = Requeued(@, o.now)]
      BY <1>7, <2>3 DEF Hits, Versions
    <3>2. RetryDeadLetterJob(o.job, o.now)
      BY <1>4, <3>1 DEF RetryDeadLetterJob
    <3>3. QED
      BY <1>2, <1>5, <3>2 DEF Next, ApiNext
  <2>4. QED
    BY <1>1, <2>1, <2>2, <2>3
<1>8. QED
  BY <1>5, <1>6, <1>7

\* The commit of a delete: the cascade takes the attempts of its row.
LEMMA DeleteCommits ==
  ASSUME TxInv, NEW c \in Conn, Commit(c), tx[c].kind = "delete"
  PROVE  [Next]_vars
<1>1. PICK o : o = tx[c]
  OBVIOUS
<1>2. issued' = issued /\ snapshots' = SnapshotsAfter(o) /\ now' = now
  BY <1>1, CommitEffect
<1>3. NewAttempts(o) = {} /\ SnapshotsAfter(o) = snapshots
  BY <1>1 DEF NewAttempts, SnapshotsAfter
<1>4. job_attempts' = {a \in job_attempts : jobs'[a.job] # NULL}
  BY <1>1, <1>3 DEF Commit
<1>5. \A a \in job_attempts : a.job \in Job /\ jobs[a.job] # NULL
  BY AttemptsHaveJobs DEF TxInv, Exists
<1>6. /\ o.job \in Job
      /\ \/ jobs' = jobs
         \/ /\ Hits(o, o.job)
            /\ \E v \in Versions(o, o.job) : jobs' = [jobs EXCEPT ![o.job] = v]
  BY <1>1, OneRowEffect DEF OneRow
<1>7. CASE jobs' = jobs
  <2>1. job_attempts' = job_attempts
    BY <1>4, <1>5, <1>7
  <2>2. QED
    BY <1>2, <1>3, <1>7, <2>1 DEF vars
<1>8. CASE /\ Hits(o, o.job)
           /\ \E v \in Versions(o, o.job) : jobs' = [jobs EXCEPT ![o.job] = v]
  <2>1. HasStatus(o.job, {"dead_letter"}) /\ jobs' = [jobs EXCEPT ![o.job] = NULL]
    BY <1>1, <1>8 DEF Hits, Versions
  <2>2. jobs = [j \in Job |-> jobs[j]]
    BY DEF TxInv, IInv, TypeOK
  <2>3. job_attempts' = WithoutAttemptsOf(o.job)
    BY <1>4, <1>5, <1>6, <2>1, <2>2 DEF WithoutAttemptsOf
  <2>4. DeleteDeadLetterJob(o.job)
    BY <1>2, <1>3, <2>1, <2>3 DEF DeleteDeadLetterJob
  <2>5. QED
    BY <1>6, <2>4 DEF Next, ApiNext
<1>9. QED
  BY <1>6, <1>7, <1>8

\* The commit of a create.
LEMMA CreateCommits ==
  ASSUME TxInv, NEW c \in Conn, Commit(c), tx[c].kind = "create"
  PROVE  [Next]_vars
<1>1. PICK o : o = tx[c]
  OBVIOUS
<1>2. /\ TxOK(o) /\ o.now \in TxNow /\ DOMAIN o.new \subseteq Job
      /\ jobs' = [j \in Job |-> IF j \in DOMAIN o.new THEN o.new[j] ELSE jobs[j]]
      /\ issued' = issued \cup DOMAIN o.new /\ job_attempts' = job_attempts \cup NewAttempts(o)
      /\ snapshots' = SnapshotsAfter(o) /\ now' = now
  BY <1>1, CommitEffect
<1>3. NewAttempts(o) = {} /\ SnapshotsAfter(o) = snapshots
  BY <1>1 DEF NewAttempts, SnapshotsAfter
<1>4. jobs = [j \in Job |-> jobs[j]]
  BY DEF TxInv, IInv, TypeOK
<1>5. CASE DOMAIN o.new = {}
  BY <1>2, <1>3, <1>4, <1>5 DEF vars
<1>6. CASE DOMAIN o.new # {}
  <2>1. PICK j \in DOMAIN o.new : TRUE
    BY <1>6
  <2>2. DOMAIN o.new = {j}
    BY <1>1, <1>2, <2>1 DEF TxOK, InsertOK
  <2>3. PICK q \in Queue, k \in Key \cup {NULL}, retries \in MaxRetries,
             run_at \in RunAt \cup {NULL} :
          o.new[j] = NewJob(q, k, retries, run_at, o.now) /\ ~KeyTaken(q, k)
    BY <1>1, <1>2, <2>1 DEF TxOK, InsertOK
  <2>4. j \notin issued
    BY <1>1, <1>2, <2>1 DEF TxOK, InsertOK
  <2>5. jobs' = [jobs EXCEPT ![j] = NewJob(q, k, retries, run_at, o.now)]
    BY <1>2, <1>4, <2>2, <2>3
  <2>6. CreateJob(j, q, k, retries, run_at, o.now)
    BY <1>2, <1>3, <2>2, <2>3, <2>4, <2>5 DEF CreateJob
  <2>7. ApiNext
    BY <1>2, <2>1, <2>6 DEF ApiNext
  <2>8. QED
    BY <2>7 DEF Next
<1>7. QED
  BY <1>5, <1>6

\* Whatever is committed is a step of JobStore, or leaves the tables alone.
LEMMA CommitIsNext ==
  ASSUME TxInv, NEW c \in Conn, Commit(c)
  PROVE  [Next]_vars
<1>1. tx[c].kind \in Kind
  BY CommitEffect DEF TxOK, Shape
<1>2. QED
  BY <1>1, ClaimCommits, ReapCommits, ReleaseCommits, ExtendCommits, OutcomeCommits,
     RequestCommits, DeleteCommits, CreateCommits DEF Kind, Outcome

\* Only a claim gives a worker a job.
LEMMA LockedAfter ==
  ASSUME TxInv, NEW c \in Conn, Commit(c), NEW o, o = tx[c],
         NEW w, NEW j \in Job, HoldsLock(w, j)'
  PROVE  HoldsLock(w, j) \/ (o.kind = "claim" /\ o.worker = w)
<1>1. /\ c \in Open /\ TxOK(o)
      /\ jobs' = [i \in Job |-> IF i \in DOMAIN o.new THEN o.new[i] ELSE jobs[i]]
  BY CommitEffect
<1>2. jobs'[j] # NULL /\ jobs'[j].status = "running" /\ jobs'[j].locked_by = w
  BY DEF HoldsLock, HasStatus, Exists
<1>3. CASE j \notin DOMAIN o.new
  BY <1>1, <1>2, <1>3 DEF HoldsLock, HasStatus, Exists
<1>4. CASE j \in DOMAIN o.new
  <2>1. jobs'[j] = o.new[j]
    BY <1>1, <1>4
  <2>2. o.kind # "create"
    <3>1. SUFFICES ASSUME o.kind = "create" PROVE FALSE
      OBVIOUS
    <3>2. PICK q \in Queue, k \in Key \cup {NULL}, retries \in MaxRetries,
               run_at \in RunAt \cup {NULL} :
            o.new[j] = NewJob(q, k, retries, run_at, o.now)
      BY <1>1, <1>4, <3>1 DEF TxOK, InsertOK
    <3>3. QED
      BY <1>2, <2>1, <3>2 DEF NewJob
  <2>3. Exists(j) /\ (o.kind = "delete" => o.new[j] = NULL)
    BY <1>1, <1>4, <2>2, VersionFacts
  <2>4. o.kind # "delete"
    BY <1>2, <2>1, <2>3
  <2>5. \/ o.kind = "claim" /\ o.new[j].locked_by = o.worker
        \/ jobs[j].status = "running" /\ o.new[j].locked_by = jobs[j].locked_by
    BY <1>1, <1>2, <1>4, <2>1, <2>2, <2>4, VersionFacts
  <2>6. QED
    BY <1>2, <2>1, <2>3, <2>5 DEF HoldsLock, HasStatus
<1>5. QED
  BY <1>3, <1>4

\* Only a create takes a key.
LEMMA KeyTakenAfter ==
  ASSUME TxInv, NEW c \in Conn, Commit(c), NEW o, o = tx[c],
         NEW q, NEW k, KeyTaken(q, k)', ~KeyTaken(q, k)
  PROVE  /\ o.kind = "create" /\ k # NULL
         /\ \E j \in DOMAIN o.new : o.new[j].queue = q /\ o.new[j].idempotency_key = k
<1>1. /\ c \in Open
      /\ jobs' = [i \in Job |-> IF i \in DOMAIN o.new THEN o.new[i] ELSE jobs[i]]
  BY CommitEffect
<1>2. PICK j \in Job : /\ k # NULL /\ jobs'[j] # NULL
                       /\ jobs'[j].queue = q /\ jobs'[j].idempotency_key = k
  BY DEF KeyTaken, Exists
<1>3. ~(Exists(j) /\ jobs[j].queue = q /\ jobs[j].idempotency_key = k)
  BY <1>2 DEF KeyTaken
<1>4. j \in DOMAIN o.new
  BY <1>1, <1>2, <1>3 DEF Exists
<1>5. jobs'[j] = o.new[j]
  BY <1>1, <1>4
<1>6. o.kind = "create"
  <2>1. SUFFICES ASSUME o.kind # "create" PROVE FALSE
    OBVIOUS
  <2>2. Exists(j) /\ (o.kind = "delete" => o.new[j] = NULL)
    BY <1>1, <1>4, <2>1, VersionFacts
  <2>3. SameJob(jobs[j], o.new[j])
    BY <1>1, <1>2, <1>4, <1>5, <2>1, <2>2, VersionFacts
  <2>4. QED
    BY <1>2, <1>3, <1>5, <2>2, <2>3 DEF SameJob
<1>7. QED
  BY <1>2, <1>4, <1>5, <1>6

\* What the others know of their rows outlasts a commit.
LEMMA CommitLeavesOK ==
  ASSUME TxInv, NEW c \in Conn, Commit(c), NEW d \in Open, d # c, NEW p, p = tx[d]
  PROVE  TxOK(p)'
<1>1. PICK o : o = tx[c]
  OBVIOUS
<1>2. /\ c \in Open /\ TxOK(o) /\ TxOK(p) /\ Apart(o, p)
      /\ jobs' = [i \in Job |-> IF i \in DOMAIN o.new THEN o.new[i] ELSE jobs[i]]
      /\ issued' = issued \cup DOMAIN o.new
      /\ snapshots' = SnapshotsAfter(o) /\ now' = now
  BY <1>1, CommitEffect DEF TxInv
<1>3. \A j \in p.locked : j \in Job /\ j \notin DOMAIN o.new /\ jobs'[j] = jobs[j]
  BY <1>2 DEF TxOK, Shape, Apart
<1>4. Shape(p)'
  BY <1>2 DEF TxOK, Shape, TxNow
<1>5. Party(p)'
  <2>1. Outcome(p) => SnapshotOf(p) \in SnapshotsAfter(o)
    <3>1. SUFFICES ASSUME Outcome(p) PROVE SnapshotOf(p) \in SnapshotsAfter(o)
      OBVIOUS
    <3>2. SnapshotOf(p) \in snapshots
      BY <1>2, <3>1 DEF TxOK, Party
    <3>3. CASE Outcome(o)
      <4>1. SnapshotOf(p) # SnapshotOf(o)
        BY <1>2, <3>1, <3>3 DEF Apart
      <4>2. SnapshotsAfter(o) = snapshots \ {SnapshotOf(o)}
        BY <3>3 DEF SnapshotsAfter, SnapshotOf, Outcome
      <4>3. QED
        BY <3>2, <4>1, <4>2
    <3>4. CASE ~Outcome(o)
      <4>1. snapshots \subseteq SnapshotsAfter(o)
        BY <3>4 DEF SnapshotsAfter, Outcome
      <4>2. QED
        BY <3>2, <4>1
    <3>5. QED
      BY <3>3, <3>4
  <2>2. QED
    BY <1>2, <2>1 DEF TxOK, Party
<1>6. SelectOK(p)'
  BY <1>2, <1>3, HitsLocal DEF TxOK, SelectOK, Selects
<1>7. LimitOK(p)' /\ WriteOK(p)'
  BY <1>2 DEF TxOK, LimitOK, WriteOK, Selects
<1>8. DOMAIN p.new \subseteq p.locked
  BY <1>2 DEF TxOK, Shape
<1>9. VersionOK(p)'
  BY <1>2, <1>3, <1>8, HitsLocal, VersionsLocal DEF TxOK, VersionOK
<1>10. InsertOK(p)'
  <2>1. SUFFICES ASSUME p.kind = "create", NEW j \in DOMAIN p.new
                 PROVE  /\ j \notin issued'
                        /\ \E q \in Queue, k \in Key \cup {NULL}, retries \in MaxRetries,
                              run_at \in RunAt \cup {NULL} :
                             /\ p.new[j] = NewJob(q, k, retries, run_at, p.now)
                             /\ ~KeyTaken(q, k)'
    BY <1>2 DEF TxOK, InsertOK
  <2>2. j \notin issued'
    BY <1>2, <1>3, <1>8, <2>1 DEF TxOK, InsertOK
  <2>3. PICK q \in Queue, k \in Key \cup {NULL}, retries \in MaxRetries,
             run_at \in RunAt \cup {NULL} :
          p.new[j] = NewJob(q, k, retries, run_at, p.now) /\ ~KeyTaken(q, k)
    BY <1>2, <2>1 DEF TxOK, InsertOK
  <2>4. ~KeyTaken(q, k)'
    <3>1. SUFFICES ASSUME KeyTaken(q, k)' PROVE FALSE
      OBVIOUS
    <3>2. o.kind = "create" /\ k # NULL
      BY <1>1, <2>3, <3>1, KeyTakenAfter
    <3>3. PICK i \in DOMAIN o.new : o.new[i].queue = q /\ o.new[i].idempotency_key = k
      BY <1>1, <2>3, <3>1, KeyTakenAfter
    <3>4. p.new[j].queue = q /\ p.new[j].idempotency_key = k
      BY <2>3 DEF NewJob
    <3>5. SameKey(o.new[i], p.new[j])
      BY <3>2, <3>3, <3>4 DEF SameKey
    <3>6. QED
      BY <1>2, <2>1, <3>2, <3>5 DEF Apart
  <2>5. QED
    BY <2>2, <2>3, <2>4
<1>11. ReleaseOK(p)'
  <2>1. p.kind = "release" => InFlight(p.worker)' \subseteq InFlight(p.worker)
    <3>1. SUFFICES ASSUME p.kind = "release", NEW j \in Job, HoldsLock(p.worker, j)'
                   PROVE  HoldsLock(p.worker, j)
      BY DEF InFlight
    <3>2. ~(o.kind = "claim" /\ o.worker = p.worker)
      BY <1>2, <3>1 DEF Apart, Looping
    <3>3. QED
      BY <1>1, <3>1, <3>2, LockedAfter
  <2>2. QED
    BY <1>2, <2>1 DEF TxOK, ReleaseOK
<1>12. QED
  BY <1>4, <1>5, <1>6, <1>7, <1>9, <1>10, <1>11 DEF TxOK

\* A commit.
LEMMA CommitInv == ASSUME TxInv, NEW c \in Conn, Commit(c) PROVE TxInv'
<1>1. IInv'
  BY CommitIsNext, NextInv DEF TxInv
<1>2. /\ c \in Open /\ tx = [e \in Conn |-> tx[e]] /\ tx' = [tx EXCEPT ![c] = NULL]
  BY OpenFacts DEF Commit
<1>3. /\ tx' = [d \in Conn |-> tx'[d]]
      /\ \A d \in Open' : d \in Open /\ d # c /\ tx'[d] = tx[d]
  BY <1>2 DEF Open
<1>4. \A d \in Open' : TxOK(tx[d])'
  <2>1. SUFFICES ASSUME NEW d \in Open' PROVE TxOK(tx[d])'
    OBVIOUS
  <2>2. PICK p : p = tx[d] /\ p = tx'[d]
    BY <1>3
  <2>3. TxOK(p)'
    BY <1>3, <2>2, CommitLeavesOK
  <2>4. QED
    BY <2>2, <2>3
<1>5. ASSUME NEW d \in Releasing', NEW e \in Releasing', Overtaken(d, e)'
      PROVE  Overtaken(d, e)
  <2>1. /\ d \in Open /\ e \in Open /\ c # e /\ tx'[d] = tx[d] /\ tx'[e] = tx[e]
        /\ tx[e].kind = "release"
    BY <1>3 DEF Releasing
  <2>2. PICK w : w = tx'[e].worker
    OBVIOUS
  <2>3. PICK j \in tx[d].todo : HoldsLock(w, j)'
    BY <1>5, <2>1, <2>2 DEF Overtaken
  <2>4. w = tx[e].worker /\ j \in Job /\ Apart(tx[c], tx[e])
    BY <1>2, <2>1, <2>2, <2>3 DEF TxInv, TxOK, Shape
  <2>5. ~(tx[c].kind = "claim" /\ tx[c].worker = w)
    BY <2>1, <2>4 DEF Apart, Looping
  <2>6. HoldsLock(w, j)
    BY <2>3, <2>4, <2>5, LockedAfter
  <2>7. QED
    BY <2>3, <2>4, <2>6 DEF Overtaken
<1>6. QED
  BY <1>1, <1>3, <1>4, <1>5, FewerOpen

------------------------------------------------------------------------------
(* TxInv is an invariant, and a step of TxNext a step of JobStore. *)

\* At the start no transaction is open.
LEMMA TxInitInv == TxInit => TxInv
<1>1. SUFFICES ASSUME TxInit PROVE TxInv
  OBVIOUS
<1>2. IInv
  BY <1>1, InitInv DEF TxInit
<1>3. tx = [c \in Conn |-> tx[c]] /\ Open = {}
  BY <1>1 DEF TxInit, Open
<1>4. Releasing = {}
  BY <1>3 DEF Releasing
<1>5. QED
  BY <1>2, <1>3, <1>4 DEF TxInv, ReleasesInOrder

\* Every step keeps the invariant, and is one of JobStore or leaves the tables alone.
LEMMA TxNextInv == TxInv /\ [TxNext]_txVars => TxInv' /\ [Next]_vars
<1>1. SUFFICES ASSUME TxInv, [TxNext]_txVars PROVE TxInv' /\ [Next]_vars
  OBVIOUS
<1>2. ASSUME NEW c \in Conn, Begin(c) PROVE TxInv' /\ [Next]_vars
  <2>1. UNCHANGED vars
    BY <1>2 DEF Begin, BeginLoop, BeginReap, BeginExtend, BeginOutcome, BeginRequest,
                BeginCreate, Opens
  <2>2. QED
    BY <1>1, <1>2, <2>1, BeginInv
<1>3. ASSUME NEW c \in Conn, Scan(c) \/ SelectDone(c) \/ Abort(c)
      PROVE  TxInv' /\ [Next]_vars
  <2>1. UNCHANGED vars
    BY <1>3 DEF Scan, SelectDone, Abort
  <2>2. QED
    BY <1>1, <1>3, <2>1, ScanInv, SelectDoneInv, AbortInv
<1>4. ASSUME NEW c \in Conn, NEW j \in Job, VisitRow(c, j)
      PROVE  TxInv' /\ [Next]_vars
  <2>1. UNCHANGED vars
    BY <1>4 DEF VisitRow, SelectRow, SkipRow, WriteRow, PassRow, Insert
  <2>2. QED
    BY <1>1, <1>4, <2>1, SelectRowInv, PassInv, WriteRowInv, InsertInv DEF VisitRow
<1>5. ASSUME NEW c \in Conn, Commit(c) PROVE TxInv' /\ [Next]_vars
  BY <1>1, <1>5, CommitInv, CommitIsNext
<1>6. CASE Forget
  BY <1>1, <1>6, ForgetInv
<1>7. CASE TxClockTicks
  BY <1>1, <1>7, TicksInv
<1>8. CASE UNCHANGED txVars
  <2>1. UNCHANGED vars /\ tx' = tx
    BY <1>8 DEF txVars
  <2>2. IInv' /\ Open' = Open
    BY <1>1, <2>1, NextInv DEF TxInv, Open
  <2>3. \A c \in Open : TxOK(tx[c])'
    <3>1. SUFFICES ASSUME NEW c \in Open PROVE TxOK(tx[c])'
      OBVIOUS
    <3>2. PICK o : o = tx[c] /\ o = tx'[c]
      BY <2>1
    <3>3. TxOK(o)'
      BY <1>1, <2>1, <3>2, TxOKFrame DEF TxInv
    <3>4. QED
      BY <3>2, <3>3
  <2>4. \A c, d \in Releasing' : Overtaken(c, d)' => Overtaken(c, d)
    BY <2>1 DEF Overtaken, HoldsLock, HasStatus, Exists, vars
  <2>5. QED
    BY <1>1, <2>1, <2>2, <2>3, <2>4, FewerOpen DEF TxInv
<1>9. QED
  BY <1>1, <1>2, <1>3, <1>4, <1>5, <1>6, <1>7, <1>8 DEF TxNext

\* So it is invariant.
LEMMA TxInvariance == TxSpec => []TxInv
BY TxInitInv, TxNextInv, PTL DEF TxSpec

------------------------------------------------------------------------------
(* The theorems. *)

\* Every COMMIT is one step of the abstract tables, so everything proved of
\* JobStore!Spec holds of the interleaved statements too.
THEOREM TransactionsAreAtomic == TxSpec => ImplementsStore
<1>1. TxInit => Init
  BY DEF TxInit
<1>2. QED
  BY <1>1, TxNextInv, TxInvariance, PTL DEF TxSpec, ImplementsStore, Spec

\* So the invariants of the tables hold of what is committed, whatever
\* transactions are open.
THEOREM AtomicInvariance == TxSpec => []IInv
BY TransactionsAreAtomic, Invariance, PTL DEF ImplementsStore

\* And a job goes through the lifecycle of JobLifecycle, however the statements of
\* claims, outcomes, releases, reaps and requests interleave.
THEOREM AtomicLifecycle == TxSpec => ImplementsLifecycle
BY TransactionsAreAtomic, Refinement, PTL DEF ImplementsStore

\* At every moment each row lock has one holder, a transaction has written only
\* rows it holds, and what it wrote is a row of the table.
THEOREM TxTypeCorrectness == TxSpec => []TxTypeOK
<1>1. ASSUME TxInv PROVE TxTypeOK
  <2>1. TypeOK
    BY <1>1 DEF TxInv, IInv
  <2>2. ASSUME NEW c \in Open
        PROVE  /\ tx[c].now \in TxNow
               /\ tx[c].todo \subseteq Job /\ DOMAIN tx[c].seen \subseteq Job
               /\ DOMAIN tx[c].new \subseteq tx[c].locked
               /\ \A d \in Open \ {c} : tx[c].locked \cap tx[d].locked = {}
    BY <1>1 DEF TxInv, TxOK, Shape, Apart
  <2>3. ASSUME NEW c \in Open, NEW j \in DOMAIN tx[c].new
        PROVE  tx[c].new[j] \in JobRow \cup {NULL}
    BY <1>1, VersionIsRow
  <2>4. QED
    BY <2>1, <2>2, <2>3 DEF TxTypeOK
<1>2. QED
  BY <1>1, TxInvariance, PTL

\* What a SELECT FOR UPDATE returned stays as it was until the UPDATE: no id
\* is dropped from a claim and no row from a reap.
THEOREM RowsStayPut == TxSpec => []SelectedRowsStayPut
<1>1. TxInv => SelectedRowsStayPut
  BY DEF TxInv, TxOK, Shape, SelectOK, SelectedRowsStayPut
<1>2. QED
  BY <1>1, TxInvariance, PTL

\* What c waits for: row i, which d holds.
Waits(c, i, d) ==
  /\ d \in Open \ {c} /\ i \in tx[c].todo /\ i \in tx[d].locked /\ ~SkipsLocked(tx[c])

\* A transaction that waits has taken nothing yet, unless it is a release.
LEMMA WaitingHolds ==
  ASSUME TxInv, NEW c \in Open, tx[c].locked # {}, NEW i, NEW d, Waits(c, i, d)
  PROVE  c \in Releasing
<1>1. PICK o : o = tx[c]
  OBVIOUS
<1>2. TxOK(o) /\ o.locked \cap tx[d].locked = {} /\ i \in o.todo /\ i \in tx[d].locked
  BY <1>1 DEF TxInv, Apart, Waits
<1>3. o.stmt = "update"
  BY <1>1, <1>2 DEF Waits, TxOK, Shape, SkipsLocked
<1>4. ~Selects(o)
  BY <1>2, <1>3 DEF TxOK, SelectOK
<1>5. o.kind = "release"
  BY <1>1, <1>2, <1>4 DEF TxOK, Shape, WriteOK, Kind, OneRow, Selects
<1>6. QED
  BY <1>1, <1>3, <1>5 DEF Releasing

\* If a release waits for another one, it has been overtaken by it.
LEMMA WaitingIsOvertaken ==
  ASSUME TxInv, NEW c \in Releasing, NEW d \in Releasing, NEW i, Waits(c, i, d)
  PROVE  Overtaken(c, d)
<1>1. PICK p : p = tx[d]
  OBVIOUS
<1>2. TxOK(p) /\ p.kind = "release" /\ i \in p.locked
  BY <1>1 DEF TxInv, Releasing, Waits
<1>3. Hits(p, i)
  BY <1>2 DEF TxOK, WriteOK, VersionOK, Selects
<1>4. HoldsLock(p.worker, i)
  BY <1>2, <1>3 DEF Hits
<1>5. QED
  BY <1>1, <1>4 DEF Overtaken, Waits

\* No circle of transactions waits for one another: whoever waits and holds
\* something is a release, and the releases wait in the order of their scans.
THEOREM NothingDeadlocks == TxSpec => []NoDeadlock
<1>1. ASSUME TxInv PROVE NoDeadlock
  <2>1. SUFFICES ASSUME NEW S \in SUBSET Open, S # {},
                        \A c \in S : WaitsFor(c) \cap S # {}
                 PROVE  FALSE
    BY DEF NoDeadlock
  <2>2. \A c \in S : \E d \in S : \E i : Waits(c, i, d)
    BY <2>1 DEF WaitsFor, Holders, Waits
  <2>3. ASSUME NEW c \in S, NEW d \in S, NEW i, Waits(c, i, d) PROVE d \in Releasing
    <3>1. tx[d].locked # {}
      BY <2>3 DEF Waits
    <3>2. QED
      BY <1>1, <2>1, <2>2, <3>1, WaitingHolds
  <2>4. S \cap Releasing # {}
    BY <2>1, <2>2, <2>3
  <2>5. PICK c \in S \cap Releasing : \A d \in (S \cap Releasing) \ {c} : ~Overtaken(c, d)
    BY <1>1, <2>4 DEF TxInv, ReleasesInOrder
  <2>6. PICK d \in S : \E i : Waits(c, i, d)
    BY <2>2, <2>5
  <2>7. d \in Releasing /\ d # c
    BY <2>3, <2>5, <2>6 DEF Waits
  <2>8. QED
    BY <1>1, <2>5, <2>6, <2>7, WaitingIsOvertaken
<1>2. QED
  BY <1>1, TxInvariance, PTL
==============================================================================
