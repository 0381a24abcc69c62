--------------------------- MODULE ArtifactOutbox ---------------------------
(***************************************************************************)
(* Offloaded event payloads of blackbox_server: an object in the artifact  *)
(* store and, in the database, the event, the artifact row and the run     *)
(* they belong to (ingestion.py); and the way back: delete_run and         *)
(* delete_workspace remove the rows and leave an intent with an            *)
(* artifact_delete job behind (retention.py), whose handler removes the    *)
(* object (workers.py).  The store takes no part in transactions, so an    *)
(* object that was put is deleted again when its transaction rolls back.   *)
(*                                                                         *)
(* One workspace; every event is large enough to be offloaded, belongs to  *)
(* a run and is the only one of its transaction; the payload of an event   *)
(* id never changes.  Removals exclude each other: two that meet the same  *)
(* rows are serialised by their locks and the second is refused.           *)
(***************************************************************************)
EXTENDS Naturals

CONSTANTS
  Keys,          \* storage keys, one for each event id
  Runs,          \* ids for the runs of the workspace; the id of a deleted run
                 \* stands for a fresh one, as nothing refers to it any more
  Requests,      \* POST /events requests in flight
  Handlers,      \* jobs that ingest events: execute_run and import
  Sweepers,      \* workers that run artifact_delete jobs
  MaxAttempts,   \* max_attempts of an artifact_delete job
  Overlap,       \* may an event id be ingested again while the object of an
                 \* earlier attempt or removal is still being deleted?
  NoRun, NoKey, NoSweeper

ASSUME OutboxAssumption ==
  /\ MaxAttempts \in Nat \ {0}
  /\ Overlap \in BOOLEAN
  /\ NoRun \notin Runs /\ NoKey \notin Keys /\ NoSweeper \notin Sweepers

VARIABLES
  runs,      \* rows of the runs table
  event,     \* the run of each committed event
  artifact,  \* keys with a committed artifact row
  blob,      \* keys with an object in the store
  tx,        \* the transaction of each ingesting request or handler
  removal,   \* the open transaction of delete_run or delete_workspace
  intent,    \* status of each row of artifact_deletions
  job,       \* the artifact_delete job of each intent
  sweep      \* what each sweeper is doing

vars == <<runs, event, artifact, blob, tx, removal, intent, job, sweep>>

Ingestors == Requests \cup Handlers

NoTx == [at |-> "idle", key |-> NoKey, run |-> NoRun, created |-> FALSE]
NoRemoval == [at |-> "idle", of |-> {}, found |-> {}, all |-> FALSE]
NoJob == [status |-> "none", tries |-> 0, holder |-> NoSweeper, cancel |-> FALSE]
NewJob == [status |-> "pending", tries |-> 0, holder |-> NoSweeper, cancel |-> FALSE]
NoSweep == [at |-> "idle", key |-> NoKey]

Init ==
  /\ runs = {}
  /\ event = [k \in Keys |-> NoRun]
  /\ artifact = {}
  /\ blob = {}
  /\ tx = [a \in Ingestors |-> NoTx]
  /\ removal = NoRemoval
  /\ intent = [k \in Keys |-> "none"]
  /\ job = [k \in Keys |-> NoJob]
  /\ sweep = [s \in Sweepers |-> NoSweep]

-----------------------------------------------------------------------------
CreateRun(r) ==
  /\ r \notin runs
  /\ runs' = runs \cup {r}
  /\ UNCHANGED <<event, artifact, blob, tx, removal, intent, job, sweep>>

(* Ingestion.                                                              *)

\* The uncommitted event row and the run row read FOR NO KEY UPDATE are locked
\* until the transaction ends.
Holding(a) == tx[a].at \in {"claimed", "stored"}

Becomes(t, at) == [t EXCEPT !.at = at]

\* A job that is at work or will be leased: lease skips one that somebody has
\* asked to cancel.
Outstanding(k) ==
  \/ job[k].status = "running"
  \/ job[k].status \in {"pending", "retry"} /\ ~job[k].cancel

\* Nobody is about to delete, or to have deleted, the object of this key.
Settled(k) ==
  /\ ~Outstanding(k)
  /\ \A a \in Ingestors : tx[a].key = k => Holding(a)
  /\ \A s \in Sweepers : sweep[s].key # k

\* The event row is claimed with ON CONFLICT DO NOTHING; an id that is taken
\* is answered as a duplicate and changes nothing.
Claim(a, k, r) ==
  /\ tx[a].at = "idle"
  /\ r \in runs /\ event[k] = NoRun
  /\ \A b \in Ingestors : Holding(b) => tx[b].key # k /\ tx[b].run # r
  /\ Overlap \/ Settled(k)
  /\ tx' = [tx EXCEPT ![a] = [at |-> "claimed", key |-> k, run |-> r, created |-> FALSE]]
  /\ UNCHANGED <<runs, event, artifact, blob, removal, intent, job, sweep>>

\* put and the artifact row.  A row left over from an earlier event violates
\* the unique key: the flush rolls the transaction back, and the object goes
\* if it was put just now.
Put(a) ==
  LET k == tx[a].key
      created == k \notin blob
  IN  /\ tx[a].at = "claimed"
      /\ blob' = blob \cup {k}
      /\ tx' = [tx EXCEPT ![a] =
                  IF k \notin artifact
                  THEN [at |-> "stored", key |-> k, run |-> tx[a].run, created |-> created]
                  ELSE IF created THEN Becomes(tx[a], "undone") ELSE NoTx]
      /\ UNCHANGED <<runs, event, artifact, removal, intent, job, sweep>>

\* Faulty variant: no after_commit listener, so the session's next rollback
\* deletes the object of a committed row.
CommitKeepsCleanup(a) ==
  /\ tx[a].at = "stored"
  /\ event' = [event EXCEPT ![tx[a].key] = tx[a].run]
  /\ artifact' = artifact \cup {tx[a].key}
  /\ tx' = [tx EXCEPT ![a] = IF @.created THEN Becomes(@, "undone") ELSE NoTx]
  /\ UNCHANGED <<runs, blob, removal, intent, job, sweep>>

Commit(a) ==
  /\ tx[a].at = "stored"
  /\ event' = [event EXCEPT ![tx[a].key] = tx[a].run]
  /\ artifact' = artifact \cup {tx[a].key}
  /\ tx' = [tx EXCEPT ![a] = NoTx]
  /\ UNCHANGED <<runs, blob, removal, intent, job, sweep>>

\* The process dies, or a request ends with an error: its session is closed,
\* which rolls the database back without the after_rollback event.
Abandon(a) ==
  /\ tx[a].at # "idle"
  /\ tx' = [tx EXCEPT ![a] = NoTx]
  /\ UNCHANGED <<runs, event, artifact, blob, removal, intent, job, sweep>>

\* _process rolls back after an exception or a lost lease.  The locks are
\* gone before after_rollback deletes the object.
Rollback(a) ==
  /\ a \in Handlers /\ Holding(a)
  /\ tx' = [tx EXCEPT ![a] = IF @.created THEN Becomes(@, "undone") ELSE NoTx]
  /\ UNCHANGED <<runs, event, artifact, blob, removal, intent, job, sweep>>

Undo(a) ==
  /\ tx[a].at = "undone"
  /\ blob' = blob \ {tx[a].key}
  /\ tx' = [tx EXCEPT ![a] = NoTx]
  /\ UNCHANGED <<runs, event, artifact, removal, intent, job, sweep>>

\* The store refuses: a handler keeps the key for _persist_cleanup_failures.
UndoFails(a) ==
  /\ tx[a].at = "undone"
  /\ tx' = [tx EXCEPT ![a] = IF a \in Handlers THEN Becomes(@, "reporting") ELSE NoTx]
  /\ UNCHANGED <<runs, event, artifact, blob, removal, intent, job, sweep>>

\* An intent and its job for each key, unless there is one already.
Intended(S, status) ==
  [k \in Keys |-> IF k \in S /\ intent[k] = "none" THEN status ELSE intent[k]]
Scheduled(S, jobs) ==
  [k \in Keys |-> IF k \in S /\ jobs[k].status = "none" THEN NewJob ELSE jobs[k]]

Report(a) ==
  /\ tx[a].at = "reporting"
  /\ intent' = Intended({tx[a].key}, "retry")
  /\ job' = Scheduled({tx[a].key}, job)
  /\ tx' = [tx EXCEPT ![a] = NoTx]
  /\ UNCHANGED <<runs, event, artifact, blob, removal, sweep>>

-----------------------------------------------------------------------------
(* Removal: the rows go in one transaction, which is not one statement: the *)
(* artifacts are looked up first, and deleting a run waits for whoever has  *)
(* locked it and takes all of its events with it (ON DELETE CASCADE).       *)

\* delete_run.
SurveyRun(r) ==
  /\ removal.at = "idle" /\ r \in runs
  /\ removal' = [at |-> "surveyed", of |-> {r}, all |-> FALSE,
                 found |-> {k \in artifact : event[k] = r}]
  /\ UNCHANGED <<runs, event, artifact, blob, tx, intent, job, sweep>>

\* delete_workspace.
SurveyWorkspace ==
  /\ removal.at = "idle"
  /\ removal' = [at |-> "surveyed", of |-> {}, all |-> TRUE, found |-> artifact]
  /\ UNCHANGED <<runs, event, artifact, blob, tx, intent, job, sweep>>

Leaving == IF removal.all THEN runs ELSE removal.of

\* Deleting a workspace takes the runs that are there by then and every job
\* but its own, before it schedules the artifacts it looked up.
Remove ==
  /\ removal.at = "surveyed"
  /\ \A a \in Ingestors : Holding(a) => tx[a].run \notin Leaving
  /\ runs' = runs \ Leaving
  /\ event' = [k \in Keys |-> IF event[k] \in Leaving THEN NoRun ELSE event[k]]
  /\ artifact' = artifact \ removal.found
  /\ intent' = Intended(removal.found, "pending")
  /\ job' = Scheduled(removal.found,
                      IF removal.all THEN [k \in Keys |-> NoJob] ELSE job)
  /\ removal' = NoRemoval
  /\ UNCHANGED <<blob, tx, sweep>>

RemoveFails ==
  /\ removal.at = "surveyed"
  /\ removal' = NoRemoval
  /\ UNCHANGED <<runs, event, artifact, blob, tx, intent, job, sweep>>

-----------------------------------------------------------------------------
(* artifact_delete jobs.  What JobQueue guarantees is taken from there: a   *)
(* lease has one holder, only the holder's commit goes through, and not     *)
(* even that once the row has changed since the handler began.              *)

\* Faulty variant: only intents nobody has tried yet are worked on.
WantedOnce(k) == intent[k] = "pending"

\* The handler's early return.
Wanted(k) == intent[k] # "succeeded"

Leased(q, s) ==
  [status |-> "running", tries |-> q.tries + 1, holder |-> s, cancel |-> q.cancel]

SweepStart(s, k) ==
  /\ sweep[s].at = "idle"
  /\ job[k].status \in {"pending", "retry"} /\ ~job[k].cancel
  /\ job' = [job EXCEPT ![k] = Leased(@, s)]
  /\ sweep' = [sweep EXCEPT ![s] = [at |-> IF Wanted(k) THEN "deleting" ELSE "ending",
                                    key |-> k]]
  /\ UNCHANGED <<runs, event, artifact, blob, tx, removal, intent>>

SweepDelete(s) ==
  /\ sweep[s].at = "deleting"
  /\ blob' = blob \ {sweep[s].key}
  /\ sweep' = [sweep EXCEPT ![s] = Becomes(@, "ending")]
  /\ UNCHANGED <<runs, event, artifact, tx, removal, intent, job>>

Holds(s) ==
  /\ sweep[s].at # "idle"
  /\ job[sweep[s].key].status = "running" /\ job[sweep[s].key].holder = s

Ended(q, status) ==
  [status |-> status, tries |-> q.tries, holder |-> NoSweeper, cancel |-> q.cancel]

Done(q) == Ended(q, "succeeded")

\* A job somebody asked to cancel has another version than the handler read:
\* its commit is refused.
SweepCommit(s) ==
  LET k == sweep[s].key
  IN  /\ sweep[s].at = "ending" /\ ~(Holds(s) /\ job[k].cancel)
      /\ IF Holds(s)
         THEN /\ intent' = [intent EXCEPT ![k] = "succeeded"]
              /\ job' = [job EXCEPT ![k] = Done(@)]
         ELSE UNCHANGED <<intent, job>>
      /\ sweep' = [sweep EXCEPT ![s] = NoSweep]
      /\ UNCHANGED <<runs, event, artifact, blob, tx, removal>>

\* Faulty variant: attempts without a limit.
ReleasedAlways(q) == Ended(q, "retry")

\* What fail leaves of the job, whether or not it was to be cancelled.
Released(q) == Ended(q, IF q.tries >= MaxAttempts THEN "dead_letter" ELSE "retry")

\* The store or the commit raises: _record_artifact_failure.
SweepFails(s) ==
  LET k == sweep[s].key
  IN  /\ sweep[s].at # "idle"
      /\ IF Holds(s)
         THEN /\ intent' = [intent EXCEPT ![k] = "retry"]
              /\ job' = [job EXCEPT ![k] = Released(@)]
         ELSE UNCHANGED <<intent, job>>
      /\ sweep' = [sweep EXCEPT ![s] = NoSweep]
      /\ UNCHANGED <<runs, event, artifact, blob, tx, removal>>

\* The process dies, and the lease is left to run out.
SweepCrash(s) ==
  /\ sweep[s].at # "idle"
  /\ sweep' = [sweep EXCEPT ![s] = NoSweep]
  /\ UNCHANGED <<runs, event, artifact, blob, tx, removal, intent, job>>

\* The cancellation is seen before the handler begins, or by the heartbeat
\* that ends its work: the intent stays as it is.
SweepStopped(s) ==
  LET k == sweep[s].key
  IN  /\ Holds(s) /\ job[k].cancel
      /\ job' = [job EXCEPT ![k] = Ended(@, "cancelled")]
      /\ sweep' = [sweep EXCEPT ![s] = NoSweep]
      /\ UNCHANGED <<runs, event, artifact, blob, tx, removal, intent>>

Recovered(q) == IF q.cancel THEN Ended(q, "cancelled") ELSE Released(q)

\* recover_expired: the holder may be dead, or only late.
Recover(k) ==
  /\ job[k].status = "running"
  /\ job' = [job EXCEPT ![k] = Recovered(@)]
  /\ UNCHANGED <<runs, event, artifact, blob, tx, removal, intent, sweep>>

\* cancel_job takes the id of any job: what waits is cancelled at once, what
\* runs when its holder or recover_expired comes to it.  Nothing reads the
\* request on a job that is over.
Stopping(q) ==
  [q EXCEPT !.cancel = TRUE,
            !.status = IF @ \in {"pending", "retry"} THEN "cancelled" ELSE @]

Cancel(k) ==
  /\ job[k].status \in {"pending", "running", "retry"}
  /\ job' = [job EXCEPT ![k] = Stopping(@)]
  /\ UNCHANGED <<runs, event, artifact, blob, tx, removal, intent, sweep>>

SweepStep(s) == SweepDelete(s) \/ SweepCommit(s) \/ SweepFails(s) \/ SweepStopped(s)

Next ==
  \/ \E a \in Ingestors : \/ \E k \in Keys, r \in Runs : Claim(a, k, r)
                          \/ Put(a) \/ Commit(a) \/ Abandon(a) \/ Rollback(a)
                          \/ Undo(a) \/ UndoFails(a) \/ Report(a)
  \/ SurveyWorkspace \/ Remove \/ RemoveFails
  \/ \E r \in Runs : CreateRun(r) \/ SurveyRun(r)
  \/ \E s \in Sweepers : SweepStep(s) \/ SweepCrash(s) \/ \E k \in Keys : SweepStart(s, k)
  \/ \E k \in Keys : Recover(k) \/ Cancel(k)

Spec == Init /\ [][Next]_vars

(***************************************************************************)
(* What JobQueue shows of its workers: handlers end, jobs that are ready   *)
(* are leased, and a job whose holder is gone is recovered.                *)
(***************************************************************************)
Fairness ==
  /\ \A s \in Sweepers : WF_vars(SweepStep(s))
  /\ \A k \in Keys :
       /\ SF_vars(\E s \in Sweepers : SweepStart(s, k))
       /\ WF_vars(Recover(k) /\ \A s \in Sweepers : Holds(s) => sweep[s].key # k)

FairSpec == Spec /\ Fairness

-----------------------------------------------------------------------------
JobStatuses ==
  {"none", "pending", "running", "retry", "succeeded", "dead_letter", "cancelled"}

TypeOK ==
  /\ runs \subseteq Runs
  /\ event \in [Keys -> Runs \cup {NoRun}]
  /\ artifact \subseteq Keys /\ blob \subseteq Keys
  /\ tx \in [Ingestors -> [at: {"idle", "claimed", "stored", "undone", "reporting"},
                           key: Keys \cup {NoKey}, run: Runs \cup {NoRun},
                           created: BOOLEAN]]
  /\ removal \in [at: {"idle", "surveyed"}, of: SUBSET Runs, found: SUBSET Keys,
                  all: BOOLEAN]
  /\ intent \in [Keys -> {"none", "pending", "retry", "succeeded"}]
  /\ job \in [Keys -> [status: JobStatuses, tries: 0 .. MaxAttempts,
                       holder: Sweepers \cup {NoSweeper}, cancel: BOOLEAN]]
  /\ sweep \in [Sweepers -> [at: {"idle", "deleting", "ending"}, key: Keys \cup {NoKey}]]

(* Every committed artifact row has its object: GET and _project_event find  *)
(* what ingestion stored (workers.py:221), because objects are deleted only  *)
(* after their references are gone.                                          *)
RowHasBlob == artifact \subseteq blob

(* An object whose deletion was recorded goes in the end, unless its job is  *)
(* given up after MaxAttempts, was asked to be cancelled (cancel_job takes   *)
(* artifact_delete jobs too, and nothing schedules the deletion again), or   *)
(* disappears (see PendingHasJob).                                           *)
EventuallyDeleted ==
  \A k \in Keys :
    intent[k] \in {"pending", "retry"} ~>
      (\/ k \notin blob
       \/ job[k].cancel \/ job[k].status \in {"dead_letter", "none"})

(* An intent that is not done has a job that will do it, or one that was     *)
(* given up or cancelled and waits for an operator, who is told to watch the *)
(* two together (docs/operators.md:38-43).                                   *)
PendingHasJob ==
  \A k \in Keys : intent[k] \in {"pending", "retry"} => job[k].status # "none"
=============================================================================
