------------------------ MODULE ArtifactOutboxProofs ------------------------
(***************************************************************************)
(* Proof that every committed artifact row has its object, for any number  *)
(* of keys, runs, requests, handlers and sweepers, as long as no event id  *)
(* is ingested again before the deletion of its earlier object is over.    *)
(* The invariant says of each key who may still use it: either it is       *)
(* doomed (no row, nobody who will commit one), or nothing is left that    *)
(* would delete its object.  Two facts about the outbox itself follow: its *)
(* intents have their jobs, and those that are done are done.              *)
(***************************************************************************)
EXTENDS ArtifactOutbox, TLAPS

\* No row refers to the key and no open transaction will commit one.
Doomed(k) == k \notin artifact /\ \A b \in Ingestors : Holding(b) => tx[b].key # k

\* A claimed or stored event id belongs to one open transaction; one that is
\* being undone is doomed.
TxOK(a) ==
  /\ Holding(a) => tx[a].run \in runs /\ event[tx[a].key] = NoRun
  /\ tx[a].at = "claimed" => ~tx[a].created
  /\ tx[a].at = "stored" => tx[a].key \in blob \ artifact
  /\ tx[a].at \in {"undone", "reporting"} => Doomed(tx[a].key)
  /\ \A b \in Ingestors : Holding(a) /\ Holding(b) /\ tx[a].key = tx[b].key => a = b

\* Sweepers, the late ones too, work on doomed keys.
SweepOK(s) ==
  sweep[s].at # "idle" => Doomed(sweep[s].key)

\* The artifacts that were looked up belong to the run that goes.
RemovalOK ==
  /\ removal.of \subseteq Runs
  /\ \A k \in removal.found : removal.all \/ event[k] \in removal.of

\* Who works has a key to work on.
KeysOK ==
  /\ \A a \in Ingestors : /\ tx[a].at # "idle" => tx[a].key \in Keys
                          /\ Holding(a) => tx[a].run \in Runs
  /\ \A s \in Sweepers : sweep[s].at # "idle" => sweep[s].key \in Keys

\* What the types need: that, and that a job that waits has attempts left.
TInv ==
  /\ TypeOK
  /\ KeysOK
  /\ \A k \in Keys : job[k].status \in {"pending", "retry"} => job[k].tries < MaxAttempts

\* The inductive invariant, together with TInv.
OInv ==
  /\ RowHasBlob
  /\ \A a \in Ingestors : TxOK(a)
  /\ \A s \in Sweepers : SweepOK(s)
  /\ \A k \in Keys : Outstanding(k) => Doomed(k)
  /\ RemovalOK

-----------------------------------------------------------------------------
(* Types.  The attempts of a job stay within its budget because the last   *)
(* one parks it.                                                           *)

JobType == [status: JobStatuses, tries: 0 .. MaxAttempts,
            holder: Sweepers \cup {NoSweeper}, cancel: BOOLEAN]
TxType == [at: {"idle", "claimed", "stored", "undone", "reporting"},
           key: Keys \cup {NoKey}, run: Runs \cup {NoRun}, created: BOOLEAN]
SweepType == [at: {"idle", "deleting", "ending"}, key: Keys \cup {NoKey}]

\* What the operations on jobs return has its type.
LEMMA JobOperations ==
  ASSUME NEW q \in JobType, NEW s \in Sweepers
  PROVE  /\ Released(q) \in JobType /\ Done(q) \in JobType
         /\ Ended(q, "cancelled") \in JobType
         /\ NoJob \in JobType /\ NewJob \in JobType
         /\ q.tries < MaxAttempts => Leased(q, s) \in JobType
BY OutboxAssumption DEF JobType, JobStatuses, Released, Ended, Done, NoJob, NewJob, Leased

\* So does what recovery and a cancellation leave of them.
LEMMA JobsStopped ==
  ASSUME NEW q \in JobType
  PROVE  Recovered(q) \in JobType /\ Stopping(q) \in JobType
<1>1. Recovered(q) \in JobType
  BY OutboxAssumption DEF JobType, JobStatuses, Released, Recovered, Ended
<1>2. Stopping(q) \in JobType
  BY DEF JobType, JobStatuses, Stopping
<1>3. QED
  BY <1>1, <1>2

\* The record of an idle transaction has its type.
LEMMA NoTxTyped == NoTx \in TxType
BY DEF TxType, NoTx

\* Moving a transaction on changes nothing but where it is.
LEMMA TxOperations ==
  ASSUME NEW t \in TxType, NEW x \in {"undone", "reporting"}
  PROVE  /\ Becomes(t, x) \in TxType
         /\ Becomes(t, x).at = x /\ Becomes(t, x).key = t.key
BY DEF TxType, Becomes

\* Every step keeps the types.
LEMMA TypePreserved == TInv /\ [Next]_vars => TypeOK'
<1> SUFFICES ASSUME TInv, [Next]_vars PROVE TypeOK'
  OBVIOUS
<1> USE DEF TypeOK
<1>1. /\ tx \in [Ingestors -> TxType] /\ job \in [Keys -> JobType]
      /\ sweep \in [Sweepers -> SweepType]
      /\ TypeOK
  BY DEF TInv, TxType, JobType, SweepType
<1>2. NoTx \in TxType /\ \A a \in Ingestors : /\ Becomes(tx[a], "undone") \in TxType
                                              /\ Becomes(tx[a], "reporting") \in TxType
  BY <1>1, NoTxTyped, TxOperations
<1>3. ASSUME tx' \in [Ingestors -> TxType], job' \in [Keys -> JobType],
             sweep' \in [Sweepers -> SweepType],
             UNCHANGED <<runs, event, artifact, blob, removal, intent>>
      PROVE  TypeOK'
  BY <1>1, <1>3 DEF TxType, JobType, SweepType
<1>4. ASSUME NEW a \in Ingestors, NEW k \in Keys, NEW r \in Runs, Claim(a, k, r)
      PROVE  TypeOK'
  <2>1. [at |-> "claimed", key |-> k, run |-> r, created |-> FALSE] \in TxType
    BY DEF TxType
  <2>2. tx' \in [Ingestors -> TxType]
    BY <1>1, <1>4, <2>1 DEF Claim
  <2>3. QED BY <1>1, <1>3, <1>4, <2>2 DEF Claim
<1>5. ASSUME NEW a \in Ingestors, Put(a) PROVE TypeOK'
  <2>1. tx[a].key \in Keys
    BY <1>5 DEF TInv, KeysOK, Put
  <2>2. \A c \in BOOLEAN : [at |-> "stored", key |-> tx[a].key, run |-> tx[a].run,
                            created |-> c] \in TxType
    BY <1>1 DEF TxType
  <2>3. tx' \in [Ingestors -> TxType]
    BY <1>1, <1>2, <1>5, <2>2 DEF Put
  <2>4. blob' \subseteq Keys
    BY <1>1, <1>5, <2>1 DEF Put
  <2>5. QED BY <1>1, <1>5, <2>3, <2>4 DEF Put, TxType
<1>6. ASSUME NEW a \in Ingestors, Commit(a) PROVE TypeOK'
  <2>1. tx[a].key \in Keys /\ tx[a].run \in Runs
    BY <1>6 DEF TInv, KeysOK, Commit, Holding
  <2>2. tx' \in [Ingestors -> TxType]
    BY <1>1, <1>2, <1>6 DEF Commit
  <2>3. event' \in [Keys -> Runs \cup {NoRun}] /\ artifact' \subseteq Keys
    BY <1>1, <1>6, <2>1 DEF Commit
  <2>4. QED BY <1>1, <1>6, <2>2, <2>3 DEF Commit, TxType
<1>7. ASSUME NEW a \in Ingestors, Abandon(a) \/ Rollback(a) \/ UndoFails(a)
      PROVE  TypeOK'
  <2>1. tx' \in [Ingestors -> TxType]
    BY <1>1, <1>2, <1>7 DEF Abandon, Rollback, UndoFails
  <2>2. QED BY <1>1, <1>3, <1>7, <2>1 DEF Abandon, Rollback, UndoFails
<1>8. ASSUME NEW a \in Ingestors, Undo(a) PROVE TypeOK'
  <2>1. tx' \in [Ingestors -> TxType]
    BY <1>1, <1>2, <1>8 DEF Undo
  <2>2. QED BY <1>1, <1>8, <2>1 DEF Undo, TxType
<1>9. \A S, jobs : jobs \in [Keys -> JobType] => Scheduled(S, jobs) \in [Keys -> JobType]
  BY OutboxAssumption DEF Scheduled, NewJob, JobType, JobStatuses
<1>10. \A S : /\ Intended(S, "retry") \in [Keys -> {"none", "pending", "retry", "succeeded"}]
              /\ Intended(S, "pending") \in [Keys -> {"none", "pending", "retry", "succeeded"}]
  BY <1>1 DEF Intended
<1>11. ASSUME NEW a \in Ingestors, Report(a) PROVE TypeOK'
  <2>1. tx' \in [Ingestors -> TxType] /\ job' \in [Keys -> JobType]
    BY <1>1, <1>2, <1>9, <1>11 DEF Report
  <2>2. QED BY <1>1, <1>10, <1>11, <2>1 DEF Report, TxType, JobType
<1>12. ASSUME NEW r \in Runs, CreateRun(r) \/ SurveyRun(r) PROVE TypeOK'
  <2>1. CASE CreateRun(r)
    BY <1>1, <2>1 DEF CreateRun
  <2>2. CASE SurveyRun(r)
    BY <1>1, <2>2 DEF SurveyRun
  <2>3. QED BY <1>12, <2>1, <2>2
<1>13. ASSUME SurveyWorkspace PROVE TypeOK'
  BY <1>1, <1>13 DEF SurveyWorkspace
<1>14. NoRemoval \in [at: {"idle", "surveyed"}, of: SUBSET Runs, found: SUBSET Keys,
                      all: BOOLEAN]
  BY DEF NoRemoval
<1>15. ASSUME Remove PROVE TypeOK'
  <2>1. [k \in Keys |-> NoJob] \in [Keys -> JobType]
    BY OutboxAssumption DEF JobType, JobStatuses, NoJob
  <2>2. job' \in [Keys -> JobType]
    BY <1>1, <1>9, <1>15, <2>1 DEF Remove
  <2>3. event' \in [Keys -> Runs \cup {NoRun}]
    BY <1>1, <1>15 DEF Remove
  <2>4. QED BY <1>1, <1>10, <1>14, <1>15, <2>2, <2>3 DEF Remove, JobType
<1>16. ASSUME RemoveFails PROVE TypeOK'
  BY <1>1, <1>14, <1>16 DEF RemoveFails
<1>17. ASSUME NEW s \in Sweepers, NEW k \in Keys, SweepStart(s, k) PROVE TypeOK'
  <2>1. Leased(job[k], s) \in JobType
    BY <1>1, <1>17, JobOperations DEF TInv, SweepStart
  <2>2. \A x \in {"deleting", "ending"} : [at |-> x, key |-> k] \in SweepType
    BY DEF SweepType
  <2>3. job' \in [Keys -> JobType] /\ sweep' \in [Sweepers -> SweepType]
    BY <1>1, <1>17, <2>1, <2>2 DEF SweepStart
  <2>4. QED BY <1>1, <1>3, <1>17, <2>3 DEF SweepStart
<1>18. NoSweep \in SweepType /\ \A s \in Sweepers : Becomes(sweep[s], "ending") \in SweepType
  BY <1>1 DEF SweepType, NoSweep, Becomes
<1>19. ASSUME NEW s \in Sweepers, SweepDelete(s) PROVE TypeOK'
  <2>1. sweep' \in [Sweepers -> SweepType]
    BY <1>1, <1>18, <1>19 DEF SweepDelete
  <2>2. QED BY <1>1, <1>19, <2>1 DEF SweepDelete, SweepType
<1>20. ASSUME NEW s \in Sweepers, SweepCommit(s) \/ SweepFails(s) \/ SweepStopped(s) PROVE TypeOK'
  <2> DEFINE k == sweep[s].key
  <2>1. sweep' \in [Sweepers -> SweepType]
    BY <1>1, <1>18, <1>20 DEF SweepCommit, SweepFails, SweepStopped
  <2>2. /\ k \in Keys /\ Released(job[k]) \in JobType /\ Done(job[k]) \in JobType
        /\ Ended(job[k], "cancelled") \in JobType
    BY <1>1, <1>20, JobOperations
       DEF TInv, KeysOK, SweepCommit, SweepFails, SweepStopped, Holds
  <2>3. job' \in [Keys -> JobType]
    BY <1>1, <1>20, <2>2 DEF SweepCommit, SweepFails, SweepStopped
  <2>4. intent' \in [Keys -> {"none", "pending", "retry", "succeeded"}]
    BY <1>1, <1>20, <2>2 DEF SweepCommit, SweepFails, SweepStopped
  <2>5. QED
    BY <1>1, <1>20, <2>1, <2>3, <2>4 DEF SweepCommit, SweepFails, SweepStopped, SweepType, JobType
<1>21. ASSUME NEW s \in Sweepers, SweepCrash(s) PROVE TypeOK'
  <2>1. sweep' \in [Sweepers -> SweepType]
    BY <1>1, <1>18, <1>21 DEF SweepCrash
  <2>2. QED BY <1>1, <1>3, <1>21, <2>1 DEF SweepCrash
<1>22. ASSUME NEW k \in Keys, Recover(k) \/ Cancel(k) PROVE TypeOK'
  <2>1. Recovered(job[k]) \in JobType /\ Stopping(job[k]) \in JobType
    BY <1>1, JobsStopped
  <2>2. job' \in [Keys -> JobType]
    BY <1>1, <1>22, <2>1 DEF Recover, Cancel
  <2>3. QED BY <1>1, <1>3, <1>22, <2>2 DEF Recover, Cancel
<1>23. CASE UNCHANGED vars
  BY <1>1, <1>3, <1>23 DEF vars
<1>24. QED
  BY <1>4, <1>5, <1>6, <1>7, <1>8, <1>11, <1>12, <1>13, <1>15, <1>16, <1>17, <1>19,
     <1>20, <1>21, <1>22, <1>23 DEF Next, SweepStep

-----------------------------------------------------------------------------
(* What a step does to each variable, seen from one element.               *)

\* The types again, in the form the provers use them.
LEMMA Types ==
  TInv => /\ tx \in [Ingestors -> TxType] /\ sweep \in [Sweepers -> SweepType]
          /\ job \in [Keys -> JobType]
          /\ NoTx.at = "idle" /\ NoSweep.at = "idle"
BY DEF TInv, TypeOK, TxType, SweepType, JobType, NoTx, NoSweep

\* A transaction is opened by Claim and keeps its key and its run.
LEMMA TxSteps ==
  ASSUME TInv, [Next]_vars, NEW b \in Ingestors
  PROVE  \/ tx'[b] = tx[b]
         \/ tx'[b].at = "idle"
         \/ \E k \in Keys, r \in Runs : Claim(b, k, r)
         \/ Put(b) /\ tx'[b].at = "stored" /\ tx'[b].key = tx[b].key
                   /\ tx'[b].run = tx[b].run
         \/ /\ Put(b) \/ Rollback(b)
            /\ tx'[b].at = "undone" /\ tx'[b].key = tx[b].key
         \/ UndoFails(b) /\ tx'[b].at = "reporting" /\ tx'[b].key = tx[b].key
<1> USE Types
<1>1. ASSUME NEW a \in Ingestors, NEW k \in Keys, NEW r \in Runs, Claim(a, k, r), a # b
      PROVE  tx'[b] = tx[b]
  BY <1>1 DEF Claim
<1>2. ASSUME NEW a \in Ingestors, a # b,
             \/ Put(a) \/ Commit(a) \/ Abandon(a) \/ Rollback(a)
             \/ Undo(a) \/ UndoFails(a) \/ Report(a)
      PROVE  tx'[b] = tx[b]
  BY <1>2 DEF Put, Commit, Abandon, Rollback, Undo, UndoFails, Report
<1>3. ASSUME Commit(b) \/ Abandon(b) \/ Undo(b) \/ Report(b)
      PROVE  tx'[b].at = "idle"
  BY <1>3 DEF Commit, Abandon, Undo, Report
<1>4. /\ Becomes(tx[b], "undone").at = "undone"
      /\ Becomes(tx[b], "undone").key = tx[b].key
      /\ Becomes(tx[b], "reporting").at = "reporting"
      /\ Becomes(tx[b], "reporting").key = tx[b].key
  BY TxOperations
<1>5. ASSUME Put(b)
      PROVE  \/ tx'[b].at = "idle"
             \/ tx'[b].at = "stored" /\ tx'[b].key = tx[b].key /\ tx'[b].run = tx[b].run
             \/ tx'[b].at = "undone" /\ tx'[b].key = tx[b].key
  BY <1>4, <1>5 DEF Put
<1>6. ASSUME Rollback(b)
      PROVE  \/ tx'[b].at = "idle"
             \/ tx'[b].at = "undone" /\ tx'[b].key = tx[b].key
  <2>1. tx'[b] = IF tx[b].created THEN Becomes(tx[b], "undone") ELSE NoTx
    BY <1>6 DEF Rollback
  <2>2. tx'[b] = Becomes(tx[b], "undone") \/ tx'[b] = NoTx
    BY <2>1
  <2>3. QED BY <1>4, <2>2
<1>7. ASSUME UndoFails(b)
      PROVE  \/ tx'[b].at = "idle"
             \/ tx'[b].at = "reporting" /\ tx'[b].key = tx[b].key
  <2>1. tx'[b] = IF b \in Handlers THEN Becomes(tx[b], "reporting") ELSE NoTx
    BY <1>7 DEF UndoFails
  <2>2. tx'[b] = Becomes(tx[b], "reporting") \/ tx'[b] = NoTx
    BY <2>1
  <2>3. QED BY <1>4, <2>2
<1>8. ASSUME \/ SurveyWorkspace \/ Remove \/ RemoveFails
             \/ \E r \in Runs : CreateRun(r) \/ SurveyRun(r)
             \/ \E s \in Sweepers : \/ SweepStep(s) \/ SweepCrash(s)
                                   \/ \E k \in Keys : SweepStart(s, k)
             \/ \E k \in Keys : Recover(k) \/ Cancel(k)
             \/ UNCHANGED vars
      PROVE  tx'[b] = tx[b]
  BY <1>8
     DEF CreateRun, SurveyWorkspace, Remove, RemoveFails, SurveyRun, SweepStep,
              SweepCrash, SweepStart, SweepDelete, SweepCommit, SweepFails, SweepStopped, Recover, Cancel, vars
<1>9. QED BY <1>1, <1>2, <1>3, <1>5, <1>6, <1>7, <1>8 DEF Next

\* A sweeper works on the key of the job it leased.
LEMMA SweepSteps ==
  ASSUME TInv, [Next]_vars, NEW s \in Sweepers, sweep'[s].at # "idle"
  PROVE  \/ sweep[s].at # "idle" /\ sweep'[s].key = sweep[s].key
         \/ \E k \in Keys : SweepStart(s, k) /\ sweep'[s].key = k
<1> USE Types
<1>1. sweep[s].at # "idle" => Becomes(sweep[s], "ending").key = sweep[s].key
  BY DEF Becomes, SweepType
<1>2. ASSUME NEW z \in Sweepers, z # s,
             SweepStep(z) \/ SweepCrash(z) \/ \E k \in Keys : SweepStart(z, k)
      PROVE  sweep'[s] = sweep[s]
  BY <1>2 DEF SweepStep, SweepDelete, SweepCommit, SweepFails, SweepStopped, SweepCrash, SweepStart
<1>3. ASSUME SweepCommit(s) \/ SweepFails(s) \/ SweepStopped(s) \/ SweepCrash(s) PROVE FALSE
  BY <1>3 DEF SweepCommit, SweepFails, SweepStopped, SweepCrash
<1>4. CASE SweepDelete(s)
  BY <1>1, <1>4 DEF SweepDelete
<1>5. ASSUME NEW k \in Keys, SweepStart(s, k) PROVE sweep'[s].key = k
  BY <1>5 DEF SweepStart
<1>6. CASE UNCHANGED sweep
  BY <1>6
<1>7. QED
  BY <1>2, <1>3, <1>4, <1>5, <1>6
     DEF Next, CreateRun, SweepStep, Claim, Put, Commit, Abandon, Rollback, Undo,
         UndoFails, Report, SurveyRun, SurveyWorkspace, Remove, RemoveFails, Recover, Cancel, vars

\* Every step keeps KeysOK.
LEMMA KeysPreserved == TInv /\ [Next]_vars => KeysOK'
<1> SUFFICES ASSUME TInv, [Next]_vars PROVE KeysOK'
  OBVIOUS
<1>1. ASSUME NEW a \in Ingestors, tx'[a].at # "idle"
      PROVE  tx'[a].key \in Keys /\ (Holding(a)' => tx'[a].run \in Runs)
  <2>1. CASE tx'[a] = tx[a]
    BY <1>1, <2>1 DEF TInv, KeysOK, Holding
  <2>2. ASSUME NEW k \in Keys, NEW r \in Runs, Claim(a, k, r)
        PROVE  tx'[a].key = k /\ tx'[a].run = r
    BY <2>2, Types DEF Claim
  <2>3. CASE Put(a) \/ Rollback(a) \/ UndoFails(a)
    <3>1. tx[a].key \in Keys /\ (Put(a) => tx[a].run \in Runs)
      BY <2>3 DEF TInv, KeysOK, Put, Rollback, UndoFails, Holding
    <3>2. QED BY <1>1, <2>1, <2>2, <2>3, <3>1, TxSteps DEF Holding
  <2>4. QED BY <1>1, <2>1, <2>2, <2>3, TxSteps
<1>2. ASSUME NEW s \in Sweepers, sweep'[s].at # "idle" PROVE sweep'[s].key \in Keys
  BY <1>2, SweepSteps DEF TInv, KeysOK
<1>3. QED BY <1>1, <1>2 DEF KeysOK, Holding

\* A job that waits has attempts left.
LEMMA TriesPreserved ==
  ASSUME TInv, [Next]_vars, NEW k \in Keys, job'[k].status \in {"pending", "retry"}
  PROVE  job'[k].tries < MaxAttempts
<1> USE Types, OutboxAssumption
<1>1. \A S, jobs : jobs[k] \in {job[k], NoJob} =>
                    Scheduled(S, jobs)[k] \in {job[k], NoJob, NewJob}
  BY DEF Scheduled
<1>2. ASSUME NEW a \in Ingestors, Report(a) PROVE job'[k] \in {job[k], NoJob, NewJob}
  BY <1>1, <1>2 DEF Report
<1>3. ASSUME Remove PROVE job'[k] \in {job[k], NoJob, NewJob}
  BY <1>1, <1>3 DEF Remove
<1>4. ASSUME NEW s \in Sweepers, NEW l \in Keys, SweepStart(s, l)
      PROVE  job'[k] \in {job[k], Leased(job[k], s)}
  BY <1>4 DEF SweepStart
<1>5. ASSUME NEW s \in Sweepers, SweepCommit(s) \/ SweepFails(s) \/ SweepStopped(s)
      PROVE  job'[k] \in {job[k], Done(job[k]), Released(job[k]), Ended(job[k], "cancelled")}
  BY <1>5 DEF SweepCommit, SweepFails, SweepStopped
<1>6. ASSUME NEW l \in Keys, Recover(l) \/ Cancel(l)
      PROVE  job'[k] \in {job[k], Recovered(job[k]), Stopping(job[k])}
  BY <1>6 DEF Recover, Cancel
<1>7. \/ job'[k] \in {job[k], NoJob, NewJob, Done(job[k]), Released(job[k]),
                      Ended(job[k], "cancelled"), Recovered(job[k]), Stopping(job[k])}
      \/ \E s \in Sweepers : job'[k] = Leased(job[k], s)
  BY <1>2, <1>3, <1>4, <1>5, <1>6
     DEF Next, SweepStep, SweepDelete, SweepCrash, CreateRun, Claim, Put, Commit,
         Abandon, Rollback, Undo, UndoFails, SurveyRun, SurveyWorkspace, RemoveFails, vars
<1>8. /\ job[k].tries \in 0 .. MaxAttempts
      /\ job[k].status \in {"pending", "retry"} => job[k].tries < MaxAttempts
  BY DEF TInv, JobType
<1>9. /\ NoJob.status = "none" /\ Done(job[k]).status = "succeeded"
      /\ NewJob.tries < MaxAttempts
      /\ Released(job[k]).status = "retry" => Released(job[k]).tries < MaxAttempts
      /\ Released(job[k]).status # "pending"
      /\ \A s : Leased(job[k], s).status = "running"
      /\ Ended(job[k], "cancelled").status = "cancelled"
      /\ Stopping(job[k]).status \notin {"pending", "retry"}
  BY <1>8 DEF NoJob, NewJob, Done, Released, Ended, Leased, Stopping, JobType
<1>10. Recovered(job[k]) \in {Ended(job[k], "cancelled"), Released(job[k])}
  BY DEF Recovered
<1>11. QED BY <1>7, <1>8, <1>9, <1>10

\* Only a commit adds a row.
LEMMA ArtifactSteps ==
  ASSUME [Next]_vars, NEW k \in artifact'
  PROVE  k \in artifact \/ \E a \in Ingestors : Commit(a) /\ tx[a].key = k
BY DEF Next, CreateRun, Claim, Put, Commit, Abandon, Rollback, Undo, UndoFails, Report,
       SurveyRun, SurveyWorkspace, Remove, RemoveFails, SweepStep, SweepCrash,
       SweepStart, SweepDelete, SweepCommit, SweepFails, SweepStopped, Recover, Cancel, vars

\* Only an undone put and an artifact_delete job delete an object.
LEMMA BlobSteps ==
  ASSUME [Next]_vars, NEW k \in blob
  PROVE  \/ k \in blob'
         \/ \E a \in Ingestors : tx[a].at = "undone" /\ tx[a].key = k
         \/ \E s \in Sweepers : sweep[s].at = "deleting" /\ sweep[s].key = k
BY DEF Next, CreateRun, Claim, Put, Commit, Abandon, Rollback, Undo, UndoFails, Report,
       SurveyRun, SurveyWorkspace, Remove, RemoveFails, SweepStep, SweepCrash,
       SweepStart, SweepDelete, SweepCommit, SweepFails, SweepStopped, Recover, Cancel, vars

\* An event is written by a commit and goes with its run.
LEMMA EventSteps ==
  ASSUME TInv, [Next]_vars, NEW k \in Keys
  PROVE  \/ event'[k] = event[k]
         \/ event'[k] = NoRun /\ Remove
         \/ \E a \in Ingestors : Commit(a) /\ tx[a].key = k
BY DEF TInv, TypeOK, Next, CreateRun, Claim, Put, Commit, Abandon, Rollback,
       Undo, UndoFails, Report, SurveyRun, SurveyWorkspace, Remove, RemoveFails, SweepStep,
       SweepCrash,
       SweepStart, SweepDelete, SweepCommit, SweepFails, SweepStopped, Recover, Cancel, vars

\* Runs go only in a removal.
LEMMA RunSteps ==
  ASSUME [Next]_vars
  PROVE  runs \subseteq runs' \/ Remove
BY DEF Next, CreateRun, Claim, Put, Commit, Abandon, Rollback, Undo, UndoFails, Report,
       SurveyRun, SurveyWorkspace, Remove, RemoveFails, SweepStep, SweepCrash,
       SweepStart, SweepDelete, SweepCommit, SweepFails, SweepStopped, Recover, Cancel, vars

-----------------------------------------------------------------------------
(* A key whose object is about to be deleted is doomed and stays so: an    *)
(* event id is claimed only when its key is settled, and only a claim      *)
(* leads to a new row.                                                     *)

\* No step turns a doomed key that is not settled into one that is used.
LEMMA DoomedStays ==
  ASSUME TInv, OInv, ~Overlap, [Next]_vars, NEW k \in Keys, Doomed(k), ~Settled(k)
  PROVE  Doomed(k)'
<1> USE DEF Doomed
<1>1. k \notin artifact'
  <2>1. ASSUME NEW a \in Ingestors, Commit(a) PROVE tx[a].key # k
    BY <2>1 DEF Commit, Holding
  <2>2. QED BY <2>1, ArtifactSteps
<1>2. ASSUME NEW b \in Ingestors, Holding(b)' PROVE tx'[b].key # k
  <2>1. CASE tx'[b] = tx[b]
    BY <1>2, <2>1 DEF Holding
  <2>2. ASSUME NEW l \in Keys, NEW r \in Runs, Claim(b, l, r)
        PROVE  tx'[b].key # k
    <3>1. tx'[b].key = l
      BY <2>2, Types DEF Claim
    <3>2. Settled(l)
      BY <2>2 DEF Claim
    <3>3. QED BY <3>1, <3>2
  <2>3. CASE Put(b) /\ tx'[b].key = tx[b].key
    BY <2>3 DEF Put, Holding
  <2>4. QED BY <1>2, <2>1, <2>2, <2>3, TxSteps DEF Holding
<1>3. QED BY <1>1, <1>2

\* A row comes with its object, and an object with a row is not deleted.
LEMMA RowHasBlobPreserved == TInv /\ OInv /\ [Next]_vars => RowHasBlob'
<1> SUFFICES ASSUME TInv, OInv, [Next]_vars, NEW k \in artifact' PROVE k \in blob'
  BY DEF RowHasBlob
<1>1. k \in blob
  <2>1. CASE k \in artifact
    BY <2>1 DEF OInv, RowHasBlob
  <2>2. ASSUME NEW a \in Ingestors, Commit(a), tx[a].key = k PROVE k \in blob
    BY <2>2 DEF OInv, TxOK, Commit
  <2>3. QED BY <2>1, <2>2, ArtifactSteps
<1>2. ASSUME Doomed(k) PROVE FALSE
  <2>1. ASSUME NEW a \in Ingestors, Commit(a) PROVE tx[a].key # k
    BY <1>2, <2>1 DEF Doomed, Commit, Holding
  <2>2. QED BY <1>2, <2>1, ArtifactSteps DEF Doomed
<1>3. QED
  BY <1>1, <1>2, BlobSteps DEF OInv, TxOK, SweepOK

\* Transactions that are undone were never committed, and no other
\* transaction holds their key.
LEMMA UndonePreserved ==
  ASSUME TInv, OInv, ~Overlap, [Next]_vars, NEW a \in Ingestors,
         tx'[a].at \in {"undone", "reporting"}
  PROVE  tx'[a].key \in Keys /\ Doomed(tx[a].key)' /\ tx'[a].key = tx[a].key
<1>1. CASE tx[a].at \in {"undone", "reporting"}
  <2>1. tx'[a].key = tx[a].key
    BY <1>1, TxSteps DEF Claim
  <2>2. tx[a].key \in Keys /\ Doomed(tx[a].key) /\ ~Settled(tx[a].key)
    BY <1>1 DEF OInv, TInv, KeysOK, TxOK, Settled, Holding
  <2>3. QED BY <2>1, <2>2, DoomedStays
<1>2. CASE tx[a].at \notin {"undone", "reporting"}
  <2>1. tx'[a].key = tx[a].key /\ tx'[a].at = "undone" /\ (Put(a) \/ Rollback(a))
    <3>1. ASSUME NEW k \in Keys, NEW r \in Runs, Claim(a, k, r) PROVE FALSE
      BY <3>1, Types DEF Claim
    <3>2. ~UndoFails(a)
      BY <1>2 DEF UndoFails
    <3>3. QED BY <1>2, <3>1, <3>2, TxSteps
  <2>2. Holding(a) /\ tx[a].key \in Keys
    BY <2>1 DEF OInv, TInv, KeysOK, TxOK, Put, Rollback, Holding
  <2>3. tx[a].key \notin artifact /\ artifact' = artifact
    <3>1. CASE Put(a)
      <4>1. tx'[a].at = "undone" => tx[a].key \in artifact /\ tx[a].key \notin blob
        BY <3>1, Types DEF Put
      <4>2. QED BY <2>1, <3>1, <4>1 DEF OInv, RowHasBlob, Put
    <3>2. CASE Rollback(a)
      <4>1. tx[a].created
        BY <2>1, <3>2, Types DEF Rollback
      <4>2. tx[a].at = "stored"
        BY <2>2, <4>1 DEF OInv, TxOK, Holding
      <4>3. QED BY <3>2, <4>2 DEF OInv, TxOK, Rollback
    <3>3. QED BY <2>1, <3>1, <3>2
  <2>4. ASSUME NEW b \in Ingestors, Holding(b)' PROVE tx'[b].key # tx[a].key
    <3>1. a # b
      BY <2>1, <2>4 DEF Holding
    <3>2. tx'[b] = tx[b]
      BY <2>1, <3>1, Types DEF Put, Rollback
    <3>3. QED BY <2>2, <2>4, <3>1, <3>2 DEF OInv, TxOK, Holding
  <2>5. QED BY <2>1, <2>2, <2>3, <2>4 DEF Doomed
<1>3. QED BY <1>1, <1>2

\* An open transaction has the event id and its run to itself.
LEMMA HolderPreserved ==
  ASSUME TInv, OInv, ~Overlap, [Next]_vars, NEW a \in Ingestors, Holding(a)'
  PROVE  /\ tx'[a].key \in Keys /\ tx'[a].run \in runs' /\ event'[tx'[a].key] = NoRun
         /\ tx'[a].at = "claimed" => ~tx'[a].created
         /\ tx'[a].at = "stored" => tx'[a].key \in blob' \ artifact'
         /\ \A b \in Ingestors : Holding(b)' /\ tx'[a].key = tx'[b].key => a = b
<1> USE Types
<1>1. ASSUME NEW b \in Ingestors, Holding(b)',
             ~\E k \in Keys, r \in Runs : Claim(b, k, r)
      PROVE  /\ Holding(b) /\ tx'[b].key = tx[b].key /\ tx'[b].run = tx[b].run
             /\ tx'[b] = tx[b] \/ (Put(b) /\ tx'[b].at = "stored")
  <2>1. CASE tx'[b] = tx[b]
    BY <1>1, <2>1 DEF Holding
  <2>2. CASE Put(b) /\ tx'[b].at = "stored" /\ tx'[b].key = tx[b].key
             /\ tx'[b].run = tx[b].run
    BY <2>2 DEF Put, Holding
  <2>3. QED BY <1>1, <2>1, <2>2, TxSteps DEF Holding
<1>2. ASSUME NEW k \in Keys, NEW r \in Runs, Claim(a, k, r)
      PROVE  /\ tx'[a].at = "claimed" /\ tx'[a].key = k /\ tx'[a].run = r
             /\ ~tx'[a].created
             /\ r \in runs' /\ event'[k] = NoRun
             /\ \A b \in Ingestors : Holding(b)' /\ tx'[b].key = k => a = b
  <2>1. ASSUME NEW b \in Ingestors, a # b PROVE tx'[b] = tx[b]
    BY <1>2, <2>1 DEF Claim
  <2>2. QED BY <1>2, <2>1 DEF Claim, Holding
<1>3. CASE \E k \in Keys, r \in Runs : Claim(a, k, r)
  BY <1>2, <1>3
<1>4. CASE ~\E k \in Keys, r \in Runs : Claim(a, k, r)
  <2> DEFINE k == tx[a].key
  <2>1. /\ Holding(a) /\ tx'[a].key = k /\ tx'[a].run = tx[a].run
        /\ tx'[a] = tx[a] \/ (Put(a) /\ tx'[a].at = "stored")
    BY <1>1, <1>4
  <2>2. /\ k \in Keys /\ tx[a].run \in runs /\ event[k] = NoRun
        /\ \A b \in Ingestors : Holding(b) /\ tx[b].key = k => a = b
    BY <2>1 DEF OInv, TInv, KeysOK, TxOK, Holding
  <2>3. ~Commit(a)
    BY <1>4 DEF Commit, Holding
  <2>4. ASSUME NEW b \in Ingestors, Commit(b) PROVE tx[b].key # k
    BY <2>2, <2>3, <2>4 DEF Commit, Holding
  <2>5. event'[k] = NoRun /\ (k \in artifact' => k \in artifact)
    BY <2>2, <2>4, EventSteps, ArtifactSteps
  <2>6. tx[a].run \in runs'
    <3>1. ASSUME Remove PROVE tx[a].run \in runs'
      BY <2>1, <2>2, <3>1 DEF Remove
    <3>2. QED BY <2>2, <3>1, RunSteps
  <2>7. ASSUME NEW b \in Ingestors, Holding(b)', tx'[b].key = k PROVE a = b
    <3>1. CASE \E l \in Keys, r \in Runs : Claim(b, l, r)
      BY <2>1, <2>7, <3>1 DEF Claim
    <3>2. CASE ~\E l \in Keys, r \in Runs : Claim(b, l, r)
      BY <1>1, <2>2, <2>7, <3>2
    <3>3. QED BY <3>1, <3>2
  <2>8. CASE tx'[a] = tx[a]
    <3>1. tx[a].at = "stored" => k \in blob'
      <4>1. \A b \in Ingestors : tx[b].at = "undone" => tx[b].key # k
        BY <2>1 DEF OInv, TxOK, Doomed
      <4>2. \A s \in Sweepers : sweep[s].at = "deleting" => sweep[s].key # k
        BY <2>1 DEF OInv, SweepOK, Doomed
      <4>3. QED BY <4>1, <4>2, BlobSteps DEF OInv, TxOK
    <3>2. /\ tx[a].at = "stored" => k \notin artifact
          /\ tx[a].at = "claimed" => ~tx[a].created
      BY DEF OInv, TxOK
    <3>3. QED BY <2>2, <2>5, <2>6, <2>7, <2>8, <3>1, <3>2
  <2>9. CASE Put(a) /\ tx'[a].at = "stored"
    <3>1. k \in blob' /\ artifact' = artifact
      BY <2>9 DEF Put
    <3>2. k \notin artifact
      BY <2>9, TxOperations DEF Put
    <3>3. QED BY <2>1, <2>2, <2>5, <2>6, <2>7, <2>9, <3>1, <3>2
  <2>10. QED BY <2>1, <2>8, <2>9
<1>5. QED BY <1>3, <1>4

\* Every step keeps what is known of each transaction.
LEMMA TxOKPreserved ==
  TInv /\ OInv /\ ~Overlap /\ [Next]_vars => \A a \in Ingestors : TxOK(a)'
<1> SUFFICES ASSUME TInv, OInv, ~Overlap, [Next]_vars, NEW a \in Ingestors PROVE TxOK(a)'
  OBVIOUS
<1>1. tx' \in [Ingestors -> TxType]
  BY TypePreserved DEF TypeOK, TxType
<1>2. tx'[a].at \in {"idle", "claimed", "stored", "undone", "reporting"}
  BY <1>1 DEF TxType
<1>3. QED
  BY <1>2, HolderPreserved, UndonePreserved DEF TxOK, Holding, Doomed

\* Every step keeps what is known of each sweeper.
LEMMA SweepOKPreserved ==
  TInv /\ OInv /\ ~Overlap /\ [Next]_vars => \A s \in Sweepers : SweepOK(s)'
<1> SUFFICES ASSUME TInv, OInv, ~Overlap, [Next]_vars, NEW s \in Sweepers,
                    sweep'[s].at # "idle"
             PROVE  Doomed(sweep[s].key)'
  BY DEF SweepOK, Doomed
<1>1. ASSUME sweep[s].at # "idle", sweep'[s].key = sweep[s].key
      PROVE  Doomed(sweep[s].key)'
  BY <1>1, DoomedStays DEF TInv, KeysOK, OInv, SweepOK, Settled, Doomed
<1>2. ASSUME NEW k \in Keys, SweepStart(s, k), sweep'[s].key = k
      PROVE  Doomed(sweep[s].key)'
  <2>1. Doomed(k) /\ ~Settled(k)
    BY <1>2 DEF OInv, SweepStart, Outstanding, Settled
  <2>2. QED BY <1>2, <2>1, DoomedStays DEF Doomed
<1>3. QED BY <1>1, <1>2, SweepSteps

\* A job that is left to do is one that was left before, or was scheduled in
\* this step: by a handler that failed to undo, or for the rows that go.
LEMMA OutstandingPreserved ==
  ASSUME TInv, OInv, ~Overlap, [Next]_vars, NEW k \in Keys, Outstanding(k)'
  PROVE  Doomed(k)'
<1> USE Types
<1>1. CASE Outstanding(k)
  BY <1>1, DoomedStays DEF OInv, Settled
<1>2. ASSUME NEW a \in Ingestors, Report(a), tx[a].key = k
      PROVE  Doomed(k)'
  <2>1. Doomed(k) /\ ~Settled(k)
    BY <1>2 DEF OInv, TxOK, Report, Settled, Holding
  <2>2. QED BY <2>1, DoomedStays
<1>3. ASSUME Remove, k \in removal.found
      PROVE  Doomed(k)'
  <2>1. k \notin artifact'
    BY <1>3 DEF Remove
  <2>2. ASSUME NEW b \in Ingestors, Holding(b), tx[b].key = k PROVE FALSE
    <3>1. tx[b].run \in runs \ Leaving /\ event[k] = NoRun
      BY <1>3, <2>2 DEF OInv, TxOK, Remove
    <3>2. removal.all \/ event[k] \in removal.of
      BY <1>3 DEF OInv, RemovalOK
    <3>3. QED BY <3>1, <3>2, OutboxAssumption DEF OInv, RemovalOK, Leaving
  <2>3. QED BY <1>3, <2>1, <2>2 DEF Doomed, Remove, Holding
<1>4. \/ Outstanding(k)
      \/ \E a \in Ingestors : Report(a) /\ tx[a].key = k
      \/ Remove /\ k \in removal.found
  <2>1. ASSUME NEW a \in Ingestors, Report(a), tx[a].key # k PROVE job'[k] = job[k]
    BY <2>1 DEF Report, Scheduled
  <2>2. ASSUME Remove, k \notin removal.found PROVE job'[k] = job[k] \/ job'[k] = NoJob
    BY <2>2 DEF Remove, Scheduled
  <2>3. ASSUME NEW s \in Sweepers, NEW l \in Keys, SweepStart(s, l)
        PROVE  job'[k] = job[k] \/ Outstanding(k)
    BY <2>3 DEF SweepStart, Outstanding
  <2>4. ASSUME NEW s \in Sweepers, SweepCommit(s) \/ SweepFails(s) \/ SweepStopped(s)
        PROVE  job'[k] = job[k] \/ Outstanding(k)
    BY <2>4 DEF SweepCommit, SweepFails, SweepStopped, Holds, Outstanding
  <2>5. ASSUME NEW l \in Keys, Recover(l) \/ Cancel(l)
        PROVE  job'[k] = job[k] \/ Outstanding(k)
    <3>1. Stopping(job[k]).status = "running" => job[k].status = "running"
      BY DEF Stopping, JobType
    <3>2. Stopping(job[k]).cancel
      BY DEF Stopping, JobType
    <3>3. job'[k] = job[k] \/ job[k].status = "running" \/ job'[k] = Stopping(job[k])
      BY <2>5 DEF Recover, Cancel
    <3>4. QED
      BY <3>1, <3>2, <3>3 DEF Outstanding
  <2>6. job'[k] \in {job[k], NoJob} => Outstanding(k)
    BY DEF Outstanding, NoJob
  <2>7. CASE UNCHANGED job
    BY <2>6, <2>7
  <2>8. QED
    BY <2>1, <2>2, <2>3, <2>4, <2>5, <2>6, <2>7
       DEF Next, SweepStep, SweepDelete, SweepCrash, CreateRun, Claim, Put, Commit,
           Abandon, Rollback, Undo, UndoFails, SurveyRun, SurveyWorkspace, RemoveFails, vars
<1>5. QED BY <1>1, <1>2, <1>3, <1>4

\* Rows that were looked up belong to a run that goes, unless all runs go.
LEMMA RemovalPreserved == TInv /\ OInv /\ [Next]_vars => RemovalOK'
<1> SUFFICES ASSUME TInv, OInv, [Next]_vars PROVE RemovalOK'
  OBVIOUS
<1>1. CASE RemoveFails \/ Remove
  BY <1>1 DEF RemovalOK, RemoveFails, Remove, NoRemoval
<1>2. ASSUME NEW r \in Runs, SurveyRun(r) PROVE RemovalOK'
  BY <1>2 DEF RemovalOK, SurveyRun
<1>3. CASE SurveyWorkspace
  BY <1>3 DEF RemovalOK, SurveyWorkspace
<1>4. ASSUME UNCHANGED removal, ~Remove PROVE RemovalOK'
  <2>1. ASSUME NEW k \in removal.found
        PROVE  removal.all \/ event'[k] \in removal.of
    <3>1. k \in Keys
      BY <2>1 DEF OInv, TInv, TypeOK
    <3>2. ASSUME NEW a \in Ingestors, Commit(a), tx[a].key = k
          PROVE  removal.all
      <4>1. event[k] = NoRun
        BY <3>2 DEF OInv, TxOK, Commit, Holding
      <4>2. QED BY <2>1, <4>1, OutboxAssumption DEF OInv, RemovalOK
    <3>3. QED BY <1>4, <2>1, <3>1, <3>2, EventSteps DEF OInv, RemovalOK
  <2>2. QED BY <1>4, <2>1 DEF OInv, RemovalOK
<1>5. QED
  BY <1>1, <1>2, <1>3, <1>4
     DEF Next, SweepStep, SweepDelete, SweepCommit, SweepFails, SweepStopped, SweepCrash, SweepStart,
         Recover, Cancel, CreateRun, Claim, Put, Commit, Abandon, Rollback, Undo, UndoFails,
         Report, vars

-----------------------------------------------------------------------------

\* The invariants hold to begin with.
LEMMA InitInvariant == Init => TInv /\ OInv
<1> SUFFICES ASSUME Init PROVE TInv /\ OInv
  OBVIOUS
<1>1. TypeOK
  BY NoTxTyped, OutboxAssumption
     DEF Init, TypeOK, TxType, NoRemoval, NoJob, NoSweep, JobStatuses
<1>2. TInv
  BY <1>1, OutboxAssumption DEF Init, TInv, KeysOK, Holding, NoTx, NoJob, NoSweep
<1>3. OInv
  BY DEF Init, OInv, RowHasBlob, TxOK, SweepOK, Outstanding, Holding, NoTx, NoJob,
         NoSweep, RemovalOK, NoRemoval
<1>4. QED BY <1>2, <1>3

\* The typing invariant holds of every reachable state.
LEMMA TInvariance == Spec => []TInv
<1>1. TInv /\ [Next]_vars => TInv'
  BY TypePreserved, KeysPreserved, TriesPreserved DEF TInv
<1>2. QED BY <1>1, InitInvariant, PTL DEF Spec

\* Every variable keeps its type, and with it every job its attempt limit,
\* whether or not event ids are ingested again too early.
THEOREM OutboxTypeCorrect == Spec => []TypeOK
BY TInvariance, PTL DEF TInv

\* The invariant holds of every reachable state, provided that no event id
\* is ingested again before the deletion of its earlier object is over.
THEOREM OutboxInvariance == ASSUME ~Overlap PROVE Spec => []OInv
<1>1. TInv /\ TInv' /\ OInv /\ [Next]_vars => OInv'
  BY RowHasBlobPreserved, TxOKPreserved, SweepOKPreserved, OutstandingPreserved,
     RemovalPreserved DEF OInv
<1>2. QED BY <1>1, InitInvariant, TInvariance, PTL DEF Spec

\* Every committed artifact row then has its object in the store: what
\* ingestion acknowledged can be read back until it is removed.
THEOREM RowsHaveObjects == ASSUME ~Overlap PROVE Spec => []RowHasBlob
BY OutboxInvariance, PTL DEF OInv

-----------------------------------------------------------------------------
(* An intent and its job are two rows.  They are written together, as long *)
(* as no workspace is removed with all its jobs.                           *)

PairOK(k) ==
  /\ intent[k] = "none" <=> job[k].status = "none"
  /\ intent[k] = "succeeded" <=> job[k].status = "succeeded"

Paired == ~removal.all /\ \A k \in Keys : PairOK(k)

\* What the operations on intents and jobs do to one pair.
LEMMA PairOperations ==
  ASSUME TInv, NEW k \in Keys, PairOK(k), NEW S
  PROVE  /\ \A x \in {"pending", "retry"} :
              LET i == Intended(S, x)[k]
                  q == Scheduled(S, job)[k].status
              IN  (i = "none" <=> q = "none") /\ (i = "succeeded" <=> q = "succeeded")
         /\ Released(job[k]).status \notin {"none", "succeeded"}
         /\ Recovered(job[k]).status \notin {"none", "succeeded"}
         /\ Ended(job[k], "cancelled").status \notin {"none", "succeeded"}
         /\ Done(job[k]).status = "succeeded"
         /\ \A s : Leased(job[k], s).status = "running"
<1>1. CASE k \in S /\ intent[k] = "none"
  <2>1. Scheduled(S, job)[k] = NewJob /\ \A x : Intended(S, x)[k] = x
    BY <1>1 DEF PairOK, Scheduled, Intended
  <2>2. QED
    BY <2>1 DEF NewJob, Released, Recovered, Ended, Done, Leased
<1>2. CASE ~(k \in S /\ intent[k] = "none")
  <2>1. Scheduled(S, job)[k] = job[k] /\ \A x : Intended(S, x)[k] = intent[k]
    BY <1>2 DEF PairOK, Scheduled, Intended
  <2>2. QED
    BY <2>1 DEF PairOK, Released, Recovered, Ended, Done, Leased
<1>3. QED
  BY <1>1, <1>2

\* Every step but the survey of a whole workspace leaves each intent with a job that
\* has come as far.
LEMMA PairedPreserved ==
  ASSUME TInv, Paired, [Next]_vars, ~SurveyWorkspace
  PROVE  Paired'
<1> USE Types
<1>1. ~removal'.all
  <2>1. removal' \in {removal, NoRemoval} \/ \E r \in Runs : SurveyRun(r)
    BY DEF Next, CreateRun, Claim, Put, Commit, Abandon, Rollback, Undo, UndoFails, Report,
           Remove, RemoveFails, SweepStep, SweepCrash, SweepStart, SweepDelete, SweepCommit,
           SweepFails, SweepStopped, Recover, Cancel, vars
  <2>2. ASSUME NEW r \in Runs, SurveyRun(r) PROVE ~removal'.all
    BY <2>2 DEF SurveyRun
  <2>3. QED
    BY <2>1, <2>2 DEF Paired, NoRemoval
<1>2. SUFFICES ASSUME NEW k \in Keys
               PROVE  PairOK(k)'
  BY <1>1 DEF Paired
<1>3. PairOK(k)
  BY DEF Paired
<1>4. ASSUME NEW a \in Ingestors, Report(a) PROVE PairOK(k)'
  BY <1>3, <1>4, PairOperations DEF Report, PairOK
<1>5. CASE Remove
  <2>1. job' = Scheduled(removal.found, job) /\ intent' = Intended(removal.found, "pending")
    BY <1>5 DEF Remove, Paired
  <2>2. QED
    BY <1>3, <2>1, PairOperations DEF PairOK
<1>6. ASSUME NEW s \in Sweepers, NEW l \in Keys, SweepStart(s, l) PROVE PairOK(k)'
  <2>1. job'[k] = IF k = l THEN Leased(job[k], s) ELSE job[k]
    BY <1>6 DEF SweepStart
  <2>2. QED
    BY <1>3, <1>6, <2>1, PairOperations DEF SweepStart, PairOK
<1>7. ASSUME NEW s \in Sweepers, SweepCommit(s) \/ SweepFails(s) \/ SweepStopped(s)
      PROVE  PairOK(k)'
  <2>1. CASE Holds(s) /\ sweep[s].key = k
    <3>1. job[k].status = "running" /\ intent[k] \notin {"none", "succeeded"}
      BY <1>3, <2>1 DEF Holds, PairOK
    <3>2. \/ intent'[k] = "succeeded" /\ job'[k] = Done(job[k])
          \/ intent'[k] = "retry" /\ job'[k] = Released(job[k])
          \/ intent'[k] = intent[k] /\ job'[k] = Ended(job[k], "cancelled")
      BY <1>7, <2>1 DEF SweepCommit, SweepFails, SweepStopped, TInv, TypeOK
    <3>3. QED
      BY <1>3, <3>1, <3>2, PairOperations DEF PairOK
  <2>2. CASE ~(Holds(s) /\ sweep[s].key = k)
    <3>1. intent'[k] = intent[k] /\ job'[k] = job[k]
      BY <1>7, <2>2 DEF SweepCommit, SweepFails, SweepStopped, TInv, TypeOK
    <3>2. QED
      BY <1>3, <3>1 DEF PairOK
  <2>3. QED
    BY <2>1, <2>2
<1>8. ASSUME NEW l \in Keys, Recover(l) PROVE PairOK(k)'
  <2>1. job'[k] = IF k = l THEN Recovered(job[k]) ELSE job[k]
    BY <1>8 DEF Recover
  <2>2. QED
    BY <1>3, <1>8, <2>1, PairOperations DEF Recover, PairOK
<1>9. CASE UNCHANGED <<intent, job>>
  BY <1>3, <1>9 DEF PairOK
<1>10. ASSUME NEW l \in Keys, Cancel(l) PROVE PairOK(k)'
  <2>1. job'[k] = IF k = l THEN Stopping(job[k]) ELSE job[k]
    BY <1>10 DEF Cancel
  <2>2. k = l => Stopping(job[k]).status \notin {"none", "succeeded"}
    BY <1>10 DEF Cancel, Stopping, JobType
  <2>3. k = l => intent[k] \notin {"none", "succeeded"}
    BY <1>3, <1>10 DEF Cancel, PairOK
  <2>4. intent' = intent
    BY <1>10 DEF Cancel
  <2>5. QED
    BY <1>3, <2>1, <2>2, <2>3, <2>4 DEF PairOK
<1>11. QED
  BY <1>4, <1>5, <1>6, <1>7, <1>8, <1>9, <1>10
     DEF Next, SweepStep, SweepDelete, SweepCrash, CreateRun, Claim, Put, Commit,
         Abandon, Rollback, Undo, UndoFails, SurveyRun, SurveyWorkspace, RemoveFails, vars

\* As long as no workspace is removed, every intent that is not done has its job: runs
\* may be removed, reports come twice, sweepers die and ids be ingested again too early.
\* What the removal of a workspace does to this is what the run artifact_workspace shows.
THEOREM IntentsKeepJobs == Spec /\ [][~SurveyWorkspace]_vars => []PendingHasJob
<1>1. Init => Paired
  BY DEF Init, Paired, PairOK, NoRemoval, NoJob
<1>2. TInv /\ Paired /\ [Next]_vars /\ [~SurveyWorkspace]_vars => Paired'
  <2>1. CASE UNCHANGED vars
    BY <2>1 DEF vars, Paired, PairOK
  <2>2. QED
    BY <2>1, PairedPreserved
<1>3. TInv /\ Paired => PendingHasJob
  BY DEF Paired, PairOK, PendingHasJob
<1>4. QED
  BY <1>1, <1>2, <1>3, TInvariance, PTL DEF Spec

-----------------------------------------------------------------------------
(* What a deletion that is done has achieved.                              *)

\* Whoever will commit a deletion has deleted the object, and nobody has put another there.
DeletedOK(s) ==
  sweep[s].at = "ending" /\ Holds(s) /\ intent[sweep[s].key] # "succeeded"
    => sweep[s].key \notin blob

\* A job that is still held was held before, and nothing reopened its intent.
LEMMA HolderSteps ==
  ASSUME TInv, [Next]_vars, NEW s \in Sweepers, sweep[s].at # "idle",
         sweep'[s] = sweep[s], Holds(s)', NEW k, k = sweep[s].key
  PROVE  Holds(s) /\ (intent[k] = "succeeded" => intent'[k] = "succeeded")
<1> USE Types
<1>0. job'[k] = job[k] => Holds(s)
  BY DEF Holds
<1>1. k \in Keys /\ job'[k].status = "running" /\ job'[k].holder = s
  BY DEF TInv, KeysOK, Holds
<1>2. /\ \A z : Leased(job[k], z).holder = z
      /\ Released(job[k]).status # "running" /\ Done(job[k]).status # "running"
      /\ NewJob.status # "running" /\ NoJob.status # "running"
      /\ Recovered(job[k]).status # "running" /\ Ended(job[k], "cancelled").status # "running"
  BY DEF Leased, Released, Recovered, Ended, Done, NewJob, NoJob
<1>3. ASSUME NEW S, NEW jobs, jobs[k] \in {job[k], NoJob}, job' = Scheduled(S, jobs)
      PROVE  job'[k] = job[k]
  <2>1. job'[k] \in {jobs[k], NewJob}
    BY <1>1, <1>3 DEF Scheduled
  <2>2. QED
    BY <1>1, <1>2, <1>3, <2>1
<1>4. \A S, x : intent[k] = "succeeded" => Intended(S, x)[k] = "succeeded"
  BY <1>1 DEF Intended
<1>5. ASSUME NEW a \in Ingestors, Report(a)
      PROVE  Holds(s) /\ (intent[k] = "succeeded" => intent'[k] = "succeeded")
  BY <1>0, <1>3, <1>4, <1>5 DEF Report
<1>6. CASE Remove
  <2> DEFINE jobs == IF removal.all THEN [l \in Keys |-> NoJob] ELSE job
  <2>1. jobs[k] \in {job[k], NoJob}
    BY <1>1
  <2>2. job' = Scheduled(removal.found, jobs) /\ intent' = Intended(removal.found, "pending")
    BY <1>6 DEF Remove
  <2> HIDE DEF jobs
  <2>3. QED
    BY <1>0, <1>3, <1>4, <2>1, <2>2
<1>7. ASSUME NEW z \in Sweepers, NEW l \in Keys, SweepStart(z, l)
      PROVE  job'[k] = job[k] /\ intent' = intent
  <2>1. z # s
    BY <1>7 DEF SweepStart
  <2>2. job'[k] = IF k = l THEN Leased(job[k], z) ELSE job[k]
    BY <1>1, <1>7 DEF SweepStart
  <2>3. QED
    BY <1>1, <1>2, <1>7, <2>1, <2>2 DEF SweepStart
<1>8. ASSUME NEW z \in Sweepers, SweepCommit(z) \/ SweepFails(z) \/ SweepStopped(z)
      PROVE  job'[k] = job[k] /\ intent'[k] = intent[k]
  <2>1. CASE Holds(z) /\ sweep[z].key = k
    <3>1. job'[k] \in {Done(job[k]), Released(job[k]), Ended(job[k], "cancelled")}
      BY <1>1, <1>8, <2>1 DEF SweepCommit, SweepFails, SweepStopped
    <3>2. QED
      BY <1>1, <1>2, <3>1
  <2>2. CASE ~(Holds(z) /\ sweep[z].key = k)
    BY <1>1, <1>8, <2>2 DEF SweepCommit, SweepFails, SweepStopped, TInv, TypeOK
  <2>3. QED
    BY <2>1, <2>2
<1>9. ASSUME NEW l \in Keys, Recover(l)
      PROVE  job'[k] = job[k] /\ intent' = intent
  <2>1. job'[k] = IF k = l THEN Recovered(job[k]) ELSE job[k]
    BY <1>1, <1>9 DEF Recover
  <2>2. QED
    BY <1>1, <1>2, <1>9, <2>1 DEF Recover
<1>10. CASE UNCHANGED <<intent, job>>
  BY <1>0, <1>10
<1>11. ASSUME NEW l \in Keys, Cancel(l)
       PROVE  Holds(s) /\ intent' = intent
  <2>1. job'[k] = IF k = l THEN Stopping(job[k]) ELSE job[k]
    BY <1>1, <1>11 DEF Cancel
  <2>2. /\ Stopping(job[k]).status = "running" => job[k].status = "running"
        /\ Stopping(job[k]).holder = job[k].holder
    BY <1>1 DEF Stopping, JobType
  <2>3. job[k].status = "running" /\ job[k].holder = s
    BY <1>1, <2>1, <2>2
  <2>4. QED
    BY <1>11, <2>3 DEF Cancel, Holds
<1>12. QED
  BY <1>0, <1>5, <1>6, <1>7, <1>8, <1>9, <1>10, <1>11
     DEF Next, SweepStep, SweepDelete, SweepCrash, CreateRun, Claim, Put, Commit,
         Abandon, Rollback, Undo, UndoFails, SurveyRun, SurveyWorkspace, RemoveFails, vars

\* A sweeper that is at work goes on only by deleting or by ending.
LEMMA SweepGoesOn ==
  ASSUME TInv, [Next]_vars, NEW s \in Sweepers, sweep[s].at # "idle", sweep'[s].at # "idle"
  PROVE  SweepDelete(s) \/ sweep'[s] = sweep[s]
<1> USE Types
<1>1. ASSUME NEW z \in Sweepers, z # s,
             SweepStep(z) \/ SweepCrash(z) \/ \E k \in Keys : SweepStart(z, k)
      PROVE  sweep'[s] = sweep[s]
  BY <1>1 DEF SweepStep, SweepDelete, SweepCommit, SweepFails, SweepStopped, SweepCrash, SweepStart
<1>2. ASSUME \/ SweepCommit(s) \/ SweepFails(s) \/ SweepStopped(s) \/ SweepCrash(s)
             \/ \E k \in Keys : SweepStart(s, k)
      PROVE  FALSE
  BY <1>2 DEF SweepCommit, SweepFails, SweepStopped, SweepCrash, SweepStart
<1>3. CASE UNCHANGED sweep
  BY <1>3
<1>4. QED
  BY <1>1, <1>2, <1>3
     DEF Next, CreateRun, SweepStep, Claim, Put, Commit, Abandon, Rollback, Undo,
         UndoFails, Report, SurveyRun, SurveyWorkspace, Remove, RemoveFails, Recover, Cancel, vars

\* Only a put adds an object.
LEMMA BlobGrows ==
  ASSUME [Next]_vars, NEW k \in blob'
  PROVE  k \in blob \/ \E a \in Ingestors : Holding(a) /\ tx[a].key = k
BY DEF Holding, Next, CreateRun, Claim, Put, Commit, Abandon, Rollback, Undo, UndoFails,
       Report, SurveyRun, SurveyWorkspace, Remove, RemoveFails, SweepStep, SweepCrash,
       SweepStart, SweepDelete, SweepCommit, SweepFails, SweepStopped, Recover, Cancel, vars

LEMMA DeletedPreserved ==
  ASSUME TInv, OInv, [Next]_vars, NEW s \in Sweepers, DeletedOK(s)
  PROVE  DeletedOK(s)'
<1> DEFINE k == sweep'[s].key
<1> SUFFICES ASSUME sweep'[s].at = "ending", Holds(s)', intent'[k] # "succeeded"
             PROVE  k \notin blob'
  BY DEF DeletedOK
<1>1. ASSUME NEW l \in Keys, SweepStart(s, l)
      PROVE  FALSE
  <2>1. k = l /\ (Wanted(l) => sweep'[s].at = "deleting") /\ intent' = intent
    BY <1>1, Types DEF SweepStart
  <2>2. QED
    BY <2>1 DEF Wanted
<1>2. sweep[s].at # "idle" /\ k = sweep[s].key
  BY <1>1, SweepSteps
<1>3. CASE SweepDelete(s)
  BY <1>2, <1>3 DEF SweepDelete
<1>4. CASE sweep'[s] = sweep[s]
  <2>1. Holds(s) /\ intent[k] # "succeeded"
    BY <1>2, <1>4, HolderSteps
  <2>2. k \notin blob
    BY <1>2, <1>4, <2>1 DEF DeletedOK
  <2>3. \A a \in Ingestors : Holding(a) => tx[a].key # k
    BY <1>2 DEF OInv, SweepOK, Doomed
  <2>4. QED
    BY <2>2, <2>3, BlobGrows
<1>5. QED
  BY <1>2, <1>3, <1>4, SweepGoesOn

\* An intent succeeds in a commit of the sweeper that holds its job.
LEMMA IntentSucceeds ==
  ASSUME TInv, [Next]_vars, NEW k \in Keys, intent[k] # "succeeded", intent'[k] = "succeeded"
  PROVE  \E s \in Sweepers : SweepCommit(s) /\ Holds(s) /\ sweep[s].key = k
<1>1. \A S : \A x \in {"pending", "retry"} : Intended(S, x)[k] # "succeeded"
  BY DEF Intended
<1>2. ASSUME NEW a \in Ingestors, Report(a) PROVE FALSE
  BY <1>1, <1>2 DEF Report
<1>3. CASE Remove
  BY <1>1, <1>3 DEF Remove
<1>4. ASSUME NEW s \in Sweepers, SweepFails(s) \/ SweepStopped(s) PROVE FALSE
  BY <1>4 DEF SweepFails, SweepStopped, TInv, TypeOK
<1>5. ASSUME NEW s \in Sweepers, SweepCommit(s)
      PROVE  Holds(s) /\ sweep[s].key = k
  BY <1>5 DEF SweepCommit, TInv, TypeOK
<1>6. intent' # intent
  OBVIOUS
<1>7. QED
  BY <1>2, <1>3, <1>4, <1>5, <1>6
     DEF Next, SweepStep, SweepDelete, SweepCrash, SweepStart, Recover, Cancel, CreateRun, Claim,
         Put, Commit, Abandon, Rollback, Undo, UndoFails, SurveyRun, SurveyWorkspace,
         RemoveFails, vars

\* _artifact_delete marks an intent as succeeded only if its object is gone; the outbox
\* is what operators go by (docs/operators.md:38-43).
DoneMeansGone ==
  [][\A k \in Keys : intent[k] # "succeeded" /\ intent'[k] = "succeeded" => k \notin blob']_vars

\* Among sweepers that are late, die and race for a job that was recovered, and handlers
\* that put objects of other events: a deletion that is committed has taken its object.
\* (EventuallyDeleted, which needs fairness, says that it comes to that.)
THEOREM DeletionsAreReal == ASSUME ~Overlap PROVE Spec => DoneMeansGone
<1> DEFINE AllDeleted == \A s \in Sweepers : DeletedOK(s)
<1>1. Init => AllDeleted
  BY DEF Init, DeletedOK, NoSweep
<1>2. TInv /\ OInv /\ AllDeleted /\ [Next]_vars => AllDeleted'
  BY DeletedPreserved
<1>3. TInv /\ AllDeleted /\ [Next]_vars =>
        [\A k \in Keys : intent[k] # "succeeded" /\ intent'[k] = "succeeded" => k \notin blob']_vars
  <2> SUFFICES ASSUME TInv, AllDeleted, [Next]_vars, NEW k \in Keys,
                      intent[k] # "succeeded", intent'[k] = "succeeded"
               PROVE  k \notin blob'
    OBVIOUS
  <2>1. PICK s \in Sweepers : SweepCommit(s) /\ Holds(s) /\ sweep[s].key = k
    BY IntentSucceeds
  <2>2. k \notin blob
    BY <2>1 DEF SweepCommit, DeletedOK
  <2>3. QED
    BY <2>1, <2>2 DEF SweepCommit
<1> HIDE DEF AllDeleted
<1>4. QED
  BY <1>1, <1>2, <1>3, TInvariance, OutboxInvariance, PTL DEF Spec, DoneMeansGone
=============================================================================
