------------------------------ MODULE JobQueue ------------------------------
(***************************************************************************)
(* The durable job queue of blackbox_server: the rows of the jobs table    *)
(* (models.py), the transactions of JobQueue (jobs.py), the worker         *)
(* processes of JobWorker with one heartbeat thread per leased job         *)
(* (workers.py), and API clients that submit and cancel jobs (api.py).     *)
(*                                                                         *)
(* A step is one committed transaction, or the read that opens a           *)
(* transaction whose outcome a later commit decides.  Every ORM update of  *)
(* a row compares and increments the row's version (version_id_col); the   *)
(* bulk UPDATE of heartbeat_atomic does neither, the one of                *)
(* recover_expired increments it.  The database is PostgreSQL: the lease   *)
(* statement is FOR UPDATE SKIP LOCKED, so recover + lease is one step.    *)
(* Time appears as two flags of a row: "expired" is lease_expires_at < now *)
(* and "due" is available_at <= now.                                       *)
(***************************************************************************)
EXTENDS Naturals, FiniteSets

CONSTANTS
  Jobs,          \* primary keys of the jobs table
  Workers,       \* worker processes, by --worker-id
  Clients,       \* API requests that may be in flight at one time
  MaxAttempts,   \* largest max_attempts a client asks for
  BatchSize,     \* the limit run_once passes to lease (--batch-size)
  NoWorker,      \* lease_owner IS NULL
  NoJob          \* no job in hand

ASSUME JobQueueAssumption ==
  /\ MaxAttempts \in Nat \ {0}
  /\ BatchSize \in Nat \ {0}
  /\ NoWorker \notin Workers
  /\ NoJob \notin Jobs

VARIABLES
  row,       \* the jobs table
  pc,        \* where each worker is in run_once
  batch,     \* leased jobs a worker has still to process
  cur,       \* the job _process is working on
  snap,      \* that job's row as the worker's open transaction read it
  beating,   \* jobs whose heartbeat thread is running
  lost,      \* jobs whose heartbeat set lost_event
  request,   \* a client's cancel request: the row its session has read
  applied    \* history: commits of a job's handler effects

workerVars == <<pc, batch, cur, snap, beating, lost>>
vars == <<row, workerVars, request, applied>>

Terminal == {"succeeded", "cancelled", "dead_letter"}
Statuses == {"absent", "pending", "retry", "running"} \cup Terminal

Row == [status: Statuses, owner: Workers \cup {NoWorker}, attempts: Nat,
        max: 1 .. MaxAttempts, cancel: BOOLEAN, expired: BOOLEAN,
        due: BOOLEAN, version: Nat]

AbsentRow == [status |-> "absent", owner |-> NoWorker, attempts |-> 0,
              max |-> 1, cancel |-> FALSE, expired |-> FALSE,
              due |-> FALSE, version |-> 0]

\* The column defaults of a new job (models.py), due at once.
NewRow(m) == [status |-> "pending", owner |-> NoWorker, attempts |-> 0,
              max |-> m, cancel |-> FALSE, expired |-> FALSE,
              due |-> TRUE, version |-> 1]

\* What a session goes by once it has loaded a row: its identity map keeps
\* these attributes however often the row is selected again.
Loaded(r) == [status |-> r.status, cancel |-> r.cancel, version |-> r.version]
LoadedRow == [status: Statuses, cancel: BOOLEAN, version: Nat]
NoRow == Loaded(AbsentRow)

NoRequest == [job |-> NoJob, seen |-> NoRow]

Init ==
  /\ row = [j \in Jobs |-> AbsentRow]
  /\ pc = [w \in Workers |-> "idle"]
  /\ batch = [w \in Workers |-> {}]
  /\ cur = [w \in Workers |-> NoJob]
  /\ snap = [w \in Workers |-> NoRow]
  /\ beating = [w \in Workers |-> {}]
  /\ lost = [w \in Workers |-> {}]
  /\ request = [c \in Clients |-> NoRequest]
  /\ applied = [j \in Jobs |-> 0]

-----------------------------------------------------------------------------
(* What the statements of JobQueue do to one row.                          *)

\* _owned: the WHERE clause every worker-side write goes through.
Owned(r, w) == r.status = "running" /\ r.owner = w

\* Faulty variant: the WHERE clause of lease forgets cancel_requested.
LeasableCancelled(r) == r.status \in {"pending", "retry"} /\ r.due

Leasable(r) == r.status \in {"pending", "retry"} /\ r.due /\ ~r.cancel

Leased(r, w) ==
  [r EXCEPT !.status = "running", !.owner = w, !.expired = FALSE,
            !.attempts = @ + 1, !.version = @ + 1]

\* complete: the outcome follows the cancel flag the session has loaded.
Completed(r, loaded) ==
  [r EXCEPT !.status = IF loaded.cancel THEN "cancelled" ELSE "succeeded",
            !.owner = NoWorker, !.expired = FALSE, !.version = @ + 1]

\* fail: the row waits for its backoff, or is parked for good.
Failed(r) ==
  [r EXCEPT !.status = IF r.attempts >= r.max THEN "dead_letter" ELSE "retry",
            !.owner = NoWorker, !.expired = FALSE, !.due = FALSE,
            !.version = @ + 1]

\* The columns request_cancel assigns, before the version check of its commit.
CancelRequested(r) ==
  [r EXCEPT !.cancel = TRUE,
            !.status = IF @ \in {"pending", "retry"} THEN "cancelled" ELSE @]

Flushed(r, new) ==
  [r EXCEPT !.cancel = new.cancel, !.status = new.status, !.version = @ + 1]

\* Faulty variants: run_once does not recover; cancelled jobs are skipped; the
\* bulk UPDATE leaves the version alone.
RecoveredNever(r) == r
RecoveredUnlessCancelled(r) ==
  IF r.status = "running" /\ r.expired /\ ~r.cancel
  THEN [r EXCEPT !.status = IF r.attempts >= r.max THEN "dead_letter" ELSE "retry",
                 !.owner = NoWorker, !.expired = FALSE, !.due = TRUE,
                 !.version = @ + 1]
  ELSE r
RecoveredUnversioned(r) ==
  IF r.status = "running" /\ r.expired
  THEN [r EXCEPT !.status = IF r.cancel THEN "cancelled"
                            ELSE IF r.attempts >= r.max THEN "dead_letter"
                            ELSE "retry",
                 !.owner = NoWorker, !.expired = FALSE, !.due = TRUE]
  ELSE r

\* recover_expired: one bulk UPDATE, the CASE expression row by row.
Recovered(r) ==
  IF r.status = "running" /\ r.expired
  THEN [r EXCEPT !.status = IF r.cancel THEN "cancelled"
                            ELSE IF r.attempts >= r.max THEN "dead_letter"
                            ELSE "retry",
                 !.owner = NoWorker, !.expired = FALSE, !.due = TRUE,
                 !.version = @ + 1]
  ELSE r

\* The rows a lease with LIMIT BatchSize may return.
Batches(ready) ==
  {S \in SUBSET ready : Cardinality(S) <= BatchSize
                        /\ (S # ready => Cardinality(S) = BatchSize)}

-----------------------------------------------------------------------------
(* Clients.                                                                *)

\* Faulty variant: max_attempts without its lower bound (schemas.py:60).
SubmitUnbounded(j) ==
  /\ row[j].status = "absent"
  /\ \E m \in 0 .. MaxAttempts :
       row' = [row EXCEPT ![j] = NewRow(m)]
  /\ UNCHANGED <<workerVars, request, applied>>

\* create_job: the row is inserted with the column defaults.
Submit(j) ==
  /\ row[j].status = "absent"
  /\ \E m \in 1 .. MaxAttempts :
       row' = [row EXCEPT ![j] = NewRow(m)]
  /\ UNCHANGED <<workerVars, request, applied>>

\* request_cancel reads the row ...
RequestCancel(c, j) ==
  /\ request[c] = NoRequest
  /\ row[j].status # "absent"
  /\ request' = [request EXCEPT ![c] = [job |-> j, seen |-> Loaded(row[j])]]
  /\ UNCHANGED <<row, workerVars, applied>>

\* ... and cancel_job commits what it assigned.  The flush emits an UPDATE
\* only if an attribute changed; one that meets another version raises and
\* the request is answered with an error.
CommitCancel(c) ==
  LET j    == request[c].job
      seen == request[c].seen
      new  == CancelRequested(seen)
  IN  /\ request[c] # NoRequest
      /\ row' = IF new # seen /\ row[j].version = seen.version
                THEN [row EXCEPT ![j] = Flushed(@, new)]
                ELSE row
      /\ request' = [request EXCEPT ![c] = NoRequest]
      /\ UNCHANGED <<workerVars, applied>>

-----------------------------------------------------------------------------
(* Workers: run_once leases a batch, then processes it job by job.         *)

\* The first transaction of run_once, and the start of the heartbeats.
RunOnce(w) ==
  LET table == [j \in Jobs |-> Recovered(row[j])]
      ready == {j \in Jobs : Leasable(table[j])}
  IN  /\ pc[w] = "idle"
      /\ \E S \in Batches(ready) :
           /\ row' = [j \in Jobs |-> IF j \in S THEN Leased(table[j], w)
                                               ELSE table[j]]
           /\ batch' = [batch EXCEPT ![w] = S]
           /\ beating' = [beating EXCEPT ![w] = S]
           /\ pc' = [pc EXCEPT ![w] = IF S = {} THEN "idle" ELSE "next"]
      /\ UNCHANGED <<cur, snap, lost, request, applied>>

Goto(w, label) == pc' = [pc EXCEPT ![w] = label]

Read(w) == snap' = [snap EXCEPT ![w] = Loaded(row[cur[w]])]

\* Faulty variant: jobs without a version_id_col.
FreshAlways(w) == TRUE

\* The version the open transaction read is still the row's version.
Fresh(w) == row[cur[w]].version = snap[w].version

\* _process returns and run_once stops the job's heartbeat.
NextJob(w) ==
  LET j == cur[w]
  IN  /\ batch' = [batch EXCEPT ![w] = @ \ {j}]
      /\ beating' = [beating EXCEPT ![w] = @ \ {j}]
      /\ lost' = [lost EXCEPT ![w] = @ \ {j}]
      /\ cur' = [cur EXCEPT ![w] = NoJob]
      /\ snap' = [snap EXCEPT ![w] = NoRow]
      /\ Goto(w, IF batch[w] = {j} THEN "idle" ELSE "next")

\* The process ends and is started again: its heartbeat threads are daemons,
\* the database rolls its open transaction back, the new process will poll.
Down(w) ==
  /\ batch' = [batch EXCEPT ![w] = {}]
  /\ beating' = [beating EXCEPT ![w] = {}]
  /\ lost' = [lost EXCEPT ![w] = {}]
  /\ cur' = [cur EXCEPT ![w] = NoJob]
  /\ snap' = [snap EXCEPT ![w] = NoRow]
  /\ Goto(w, "idle")

\* _process up to the handler: a job cancelled before it starts is completed
\* without running it, one that was recovered meanwhile raises "Lease lost".
Begin(w) ==
  /\ pc[w] = "next"
  /\ \E j \in batch[w] :
       /\ cur' = [cur EXCEPT ![w] = j]
       /\ IF Owned(row[j], w)
          THEN /\ snap' = [snap EXCEPT ![w] = Loaded(row[j])]
               /\ Goto(w, IF row[j].cancel THEN "committing" ELSE "handling")
          ELSE Goto(w, "failed") /\ UNCHANGED snap
  /\ UNCHANGED <<row, batch, beating, lost, request, applied>>

\* The handler returns and lost_event is looked at, once.
HandlerReturns(w) ==
  /\ pc[w] = "handling"
  /\ Goto(w, IF cur[w] \in lost[w] THEN "lost" ELSE "committing")
  /\ UNCHANGED <<row, batch, cur, snap, beating, lost, request, applied>>

\* The handler raises, or the commit does for a reason of the database's own.
HandlerRaises(w) ==
  /\ pc[w] \in {"handling", "committing"}
  /\ Goto(w, "failed")
  /\ UNCHANGED <<row, batch, cur, snap, beating, lost, request, applied>>

\* complete and commit: _owned is asked again, the UPDATE carries the version
\* read before the handler ran; the handler's own writes commit with it.
Complete(w) ==
  LET j == cur[w]
  IN  /\ pc[w] = "committing"
      /\ Owned(row[j], w) /\ Fresh(w)
      /\ row' = [row EXCEPT ![j] = Completed(@, snap[w])]
      /\ applied' = IF snap[w].cancel THEN applied
                    ELSE [applied EXCEPT ![j] = @ + 1]
      /\ NextJob(w)
      /\ UNCHANGED request

\* Faulty variant: the exception handler commits instead of rolling back.
CompleteRefusedKept(w) ==
  /\ pc[w] = "committing"
  /\ ~(Owned(row[cur[w]], w) /\ Fresh(w))
  /\ applied' = [applied EXCEPT ![cur[w]] = @ + 1]
  /\ Goto(w, "failed")
  /\ UNCHANGED <<row, batch, cur, snap, beating, lost, request>>

\* "Lease lost" or StaleDataError: everything the handler wrote rolls back.
CompleteRefused(w) ==
  /\ pc[w] = "committing"
  /\ ~(Owned(row[cur[w]], w) /\ Fresh(w))
  /\ Goto(w, "failed")
  /\ UNCHANGED <<row, batch, cur, snap, beating, lost, request, applied>>

\* except Exception: a new transaction asks _owned once more; Problem passes.
FailBegin(w) ==
  /\ pc[w] = "failed"
  /\ IF Owned(row[cur[w]], w)
     THEN /\ Read(w)
          /\ Goto(w, "failing")
          /\ UNCHANGED <<batch, cur, beating, lost>>
     ELSE NextJob(w)
  /\ UNCHANGED <<row, request, applied>>

\* except LeaseLost: only a job that is still owned and was cancelled is
\* written; any other is left to recover_expired.
LostBegin(w) ==
  /\ pc[w] = "lost"
  /\ IF Owned(row[cur[w]], w) /\ row[cur[w]].cancel
     THEN /\ Read(w)
          /\ Goto(w, "cancelling")
          /\ UNCHANGED <<batch, cur, beating, lost>>
     ELSE NextJob(w)
  /\ UNCHANGED <<row, request, applied>>

\* The commit of either handler.  StaleDataError there is caught by nobody:
\* it leaves run_once and main, and the process ends.
SettleCommit(w) ==
  LET j == cur[w]
  IN  /\ pc[w] \in {"failing", "cancelling"}
      /\ IF Fresh(w)
         THEN /\ row' = [row EXCEPT ![j] = IF pc[w] = "failing" THEN Failed(@)
                                           ELSE Completed(@, snap[w])]
              /\ NextJob(w)
         ELSE Down(w) /\ UNCHANGED row
      /\ UNCHANGED <<request, applied>>

Crash(w) ==
  /\ pc[w] # "idle"
  /\ Down(w)
  /\ UNCHANGED <<row, request, applied>>

-----------------------------------------------------------------------------
(* Heartbeat threads and the clock.                                        *)

Renewable(r, w) == Owned(r, w) /\ ~r.cancel

\* heartbeat_atomic found its row: the lease is extended even if it had
\* already run out, as long as nobody has recovered the job.
Heartbeat(w, j) ==
  /\ j \in beating[w]
  /\ Renewable(row[j], w)
  /\ row' = [row EXCEPT ![j].expired = FALSE]
  /\ UNCHANGED <<workerVars, request, applied>>

\* It found none, or the database raised: lost_event is set, the thread ends.
HeartbeatLost(w, j) ==
  /\ j \in beating[w]
  /\ lost' = [lost EXCEPT ![w] = @ \cup {j}]
  /\ beating' = [beating EXCEPT ![w] = @ \ {j}]
  /\ UNCHANGED <<row, pc, batch, cur, snap, request, applied>>

\* A thread may be paused for longer than the lease, so even a job whose
\* heartbeat is running can expire.
LeaseExpires(j) ==
  /\ row[j].status = "running" /\ ~row[j].expired
  /\ row' = [row EXCEPT ![j].expired = TRUE]
  /\ UNCHANGED <<workerVars, request, applied>>

BackoffElapses(j) ==
  /\ row[j].status = "retry" /\ ~row[j].due
  /\ row' = [row EXCEPT ![j].due = TRUE]
  /\ UNCHANGED <<workerVars, request, applied>>

WorkerStep(w) ==
  \/ Begin(w) \/ HandlerReturns(w) \/ HandlerRaises(w) \/ Complete(w)
  \/ CompleteRefused(w) \/ FailBegin(w) \/ LostBegin(w) \/ SettleCommit(w)

Next ==
  \/ \E j \in Jobs : Submit(j) \/ LeaseExpires(j) \/ BackoffElapses(j)
  \/ \E c \in Clients : CommitCancel(c) \/ \E j \in Jobs : RequestCancel(c, j)
  \/ \E w \in Workers : RunOnce(w) \/ WorkerStep(w) \/ Crash(w)
  \/ \E w \in Workers, j \in Jobs : Heartbeat(w, j) \/ HeartbeatLost(w, j)

Spec == Init /\ [][Next]_vars

(***************************************************************************)
(* What the deployment guarantees: handlers end, one way or the other; a   *)
(* process that keeps being started polls again and again; clocks advance, *)
(* so a lease nobody renews runs out and a backoff passes.  Nothing is     *)
(* asked of clients, of crashes or of the heartbeat of a live worker.      *)
(***************************************************************************)
Unattended(j) == \A w \in Workers : j \notin beating[w]

Fairness ==
  /\ \A w \in Workers : WF_vars(WorkerStep(w)) /\ SF_vars(RunOnce(w))
  /\ \A j \in Jobs : /\ WF_vars(LeaseExpires(j) /\ Unattended(j))
                     /\ WF_vars(BackoffElapses(j))

FairSpec == Spec /\ Fairness

-----------------------------------------------------------------------------
Labels == {"idle", "next", "handling", "committing", "failed", "failing",
           "lost", "cancelling"}

TypeOK ==
  /\ row \in [Jobs -> Row]
  /\ pc \in [Workers -> Labels]
  /\ batch \in [Workers -> SUBSET Jobs]
  /\ cur \in [Workers -> Jobs \cup {NoJob}]
  /\ snap \in [Workers -> LoadedRow]
  /\ beating \in [Workers -> SUBSET Jobs]
  /\ lost \in [Workers -> SUBSET Jobs]
  /\ request \in [Clients -> [job: Jobs \cup {NoJob}, seen: LoadedRow]]
  /\ applied \in [Jobs -> Nat]

\* The labels at which a worker's open transaction has loaded its job.
InTransaction == {"handling", "committing", "failing", "cancelling"}

(* The row version is a sound fencing token.  A worker whose loaded version  *)
(* is still current owns the running job and knows its cancel flag; no row   *)
(* is ever older than what a worker or a request has loaded.  complete, fail *)
(* and request_cancel rely on it when they write attributes decided from     *)
(* what was loaded (jobs.py:72-99, version_id_col in models.py:40-41).       *)
FencedWrites ==
  /\ \A w \in Workers : pc[w] \in InTransaction =>
       /\ snap[w].version <= row[cur[w]].version
       /\ Fresh(w) => Owned(row[cur[w]], w) /\ row[cur[w]].cancel = snap[w].cancel
  /\ \A c \in Clients : request[c] # NoRequest =>
       LET r == row[request[c].job] seen == request[c].seen
       IN  /\ seen.version <= r.version
           /\ r.version = seen.version => seen = Loaded(r)

(* Workers may run a job's handler at the same time (a paused worker whose   *)
(* lease ran out does not know it), but at most one of them can still commit.*)
OneCommitter ==
  \A v, w \in Workers :
    /\ pc[v] \in InTransaction /\ pc[w] \in InTransaction
    /\ cur[v] = cur[w] /\ Fresh(v) /\ Fresh(w)
    => v = w

(* What a handler wrote is in the database exactly when its job succeeded,   *)
(* and once: no retry after a commit, no success that rolled back            *)
(* (workers.py:152-156).                                                     *)
EffectsExactlyOnce ==
  \A j \in Jobs : applied[j] = IF row[j].status = "succeeded" THEN 1 ELSE 0

(* Every job behaves as JobLifecycle promises: attempts within the budget,   *)
(* a cancel flag nobody erases, no start and no effect after a cancel was    *)
(* recorded, final states that are never left.                               *)
Life == [j \in Jobs |->
  [status |-> row[j].status, attempts |-> row[j].attempts, max |-> row[j].max,
   cancel |-> row[j].cancel, effects |-> applied[j]]]

Lifecycle == INSTANCE JobLifecycle WITH life <- Life

ImplementsLifecycle == Lifecycle!Spec

(* Every submitted job comes to rest whatever crashes, pauses and cancel     *)
(* requests it meets: in a final state, or cancelled while waiting for a     *)
(* retry that will never be leased (see CancelReachesFinalState).            *)
EventuallySettled ==
  \A j \in Jobs : row[j].status # "absent" ~>
    (row[j].status \in Terminal \/ (row[j].status = "retry" /\ row[j].cancel))

(* A job whose lease no live process stands behind is taken from its owner   *)
(* (recover_expired, jobs.py:101-122).                                       *)
OrphansReclaimed ==
  \A j \in Jobs, w \in Workers :
    (row[j].owner = w /\ j \notin batch[w]) ~> (row[j].owner # w)

(* A job whose cancellation was accepted reaches a final state: the polling  *)
(* and SSE endpoints wait for one (api.py:232, api.py:424).                  *)
CancelReachesFinalState ==
  \A j \in Jobs : row[j].cancel ~> row[j].status \in Terminal
=============================================================================
