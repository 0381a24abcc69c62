-------------------------- MODULE RunServiceProofs --------------------------
(***************************************************************************)
(* Proofs about RunService for every set of keys, requests, events and     *)
(* streams.  KeysUnique is the unique constraint of the jobs table; what   *)
(* an answer says stays true because a job never changes its key or run    *)
(* (AnswerHolds).  Handlers never overwrite a run that they have not read  *)
(* as it is (NoLostUpdate).                                                *)
(***************************************************************************)
EXTENDS RunService, TLAPS

Exists(j) == job[j].status # "absent"

KeysUnique == \A i, j \in JobIds : Exists(i) /\ Exists(j) /\ job[i].key = job[j].key => i = j

\* A request and the rows that carry its name.
RequestOK(q) ==
  /\ request[q].state # "new" => request[q].key \in Keys
  /\ request[q].state # "done" => ~Exists(q) /\ ~Present(q) /\ answer[q] = NoAnswer
  /\ request[q].call = "runs" => request[q].type = "execute_run"
  /\ Exists(q) => job[q].key = request[q].key /\ job[q].type = request[q].type
  /\ Exists(q) /\ request[q].call = "runs" =>
       job[q].run = IF request[q].names = "own" THEN q ELSE request[q].names

\* The job and the run an accepted request was told of.
AnswerHolds(q) ==
  answer[q].code = "accepted" =>
    LET j == answer[q].job IN
    /\ j \in JobIds /\ Exists(j) /\ job[j].key = request[q].key
    /\ request[q].call = "runs" => answer[q].run = IF j = q THEN q ELSE job[j].run

EventOK(e) ==
  /\ Exists(e) => job[e].key = e /\ job[e].type = "project_event"
  /\ event[e].run = None => ~event[e].stored /\ ~Exists(e)

StreamOK(c) ==
  stream[c].state = "on" => stream[c].run # None /\ stream[c].last_id <= stream[c].sequence

JobOK(j) ==
  /\ ~Exists(j) => job[j] = NoJob
  /\ job[j].status \in {"pending", "retry"} => job[j].attempts < MaxAttempts
  /\ job[j].attempts <= MaxAttempts
  /\ seen[j].status # "absent" =>
       Exists(j) /\ RunOf(j) \in Requests /\ seen[j].version > 0

RunOK(r) == run[r].status = "absent" <=> run[r].version = 0

SInv ==
  /\ TypeOK
  /\ KeysUnique
  /\ \A q \in Requests : RequestOK(q) /\ AnswerHolds(q) /\ RunOK(q)
  /\ \A e \in Events : EventOK(e)
  /\ \A j \in JobIds : JobOK(j)
  /\ \A c \in Streams : StreamOK(c)
  /\ NothingForgotten

-----------------------------------------------------------------------------
(* Types.                                                                  *)

LEMMA Constants == NoJob \in Job /\ NoRun \in Run /\ NoAnswer \in Answer
BY RunServiceAssumption DEF NoJob, NoRun, NoAnswer, Job, Run, Answer, JobStatuses, RunStatuses, JobIds

LEMMA NewJobType ==
  ASSUME NEW t \in {"execute_run", "comparison", "project_event"},
         NEW k \in Keys \cup Events, NEW r \in Requests \cup {None}
  PROVE  NewJob(t, k, r) \in Job
BY Constants DEF NewJob, NoJob, Job, JobStatuses

LEMMA NewJobFields ==
  ASSUME NEW t, NEW k, NEW r
  PROVE  LET new == NewJob(t, k, r) IN
         new.status = "pending" /\ new.type = t /\ new.key = k /\ new.run = r /\ new.attempts = 0
BY DEF NewJob, NoJob

LEMMA ReplayedType ==
  ASSUME TypeOK, NEW call, NEW t, NEW j \in JobIds
  PROVE  Replayed(call, t, j) \in Answer
BY Constants DEF Replayed, TypeOK, Answer, NoAnswer, Job, Present

LEMMA TypeInit == Init => TypeOK
<1> SUFFICES ASSUME Init PROVE TypeOK
  OBVIOUS
<1>1. request \in [Requests -> Request] /\ answer \in [Requests -> Answer]
  BY Constants DEF Init, Request
<1>2. job \in [JobIds -> Job] /\ seen \in [JobIds -> Run] /\ run \in [Requests -> Run]
  BY Constants DEF Init
<1>3. event \in [Events -> Event]
  BY DEF Init, Event
<1>4. stream \in [Streams -> Stream]
  BY RunServiceAssumption DEF Init, Stream
<1>5. QED BY <1>1, <1>2, <1>3, <1>4 DEF TypeOK

LEMMA TypeStep == SInv /\ [Next]_vars => TypeOK'
<1> SUFFICES ASSUME SInv, [Next]_vars PROVE TypeOK'
  OBVIOUS
<1> USE DEF SInv, TypeOK
<1>1. CASE UNCHANGED vars
  BY <1>1 DEF vars
<1>2. ASSUME NEW q \in Requests, NEW k \in Keys, NEW call \in {"runs", "jobs"},
             NEW t \in {"execute_run", "comparison"}, LookUp(q, call, t, k)
      PROVE TypeOK'
  <2>1. request' \in [Requests -> Request]
    BY <1>2 DEF LookUp, Request
  <2>2. answer' \in [Requests -> Answer]
    <3>1. CASE UsedBy(k) = {}
      BY <1>2, <3>1 DEF LookUp
    <3>2. CASE UsedBy(k) # {}
      <4>1. (CHOOSE j \in UsedBy(k) : TRUE) \in JobIds
        BY <3>2 DEF UsedBy
      <4>2. QED BY <1>2, <3>2, <4>1, ReplayedType DEF LookUp
    <3>3. QED BY <3>1, <3>2
  <2>3. QED BY <1>2, <2>1, <2>2 DEF LookUp
<1>3. ASSUME NEW q \in Requests, NEW n \in Requests \cup {None, "own"}, Insert(q, n) PROVE TypeOK'
  <2> DEFINE r == IF n = "own" THEN q ELSE n
  <2>0. r \in Requests \cup {None}
    OBVIOUS
  <2> HIDE DEF r
  <2>1. request' \in [Requests -> Request]
    <3>1. [request[q] EXCEPT !.state = "done", !.names = n] \in Request
      BY <1>3 DEF Request
    <3>2. request' = [request EXCEPT ![q] = [request[q] EXCEPT !.state = "done", !.names = n]]
      BY <1>3 DEF Insert
    <3>3. QED BY <3>1, <3>2
  <2>2. CASE UsedBy(request[q].key) = {}
    <3>1. NewJob(request[q].type, request[q].key, r) \in Job
      <4>1. request[q].type \in {"execute_run", "comparison"} /\ request[q].key \in Keys
        BY <1>3 DEF RequestOK, Request, Insert
      <4>2. QED BY <2>0, <4>1, NewJobType
    <3>2. job' \in [JobIds -> Job]
      BY <1>3, <2>2, <3>1 DEF Insert, Inserted, r
    <3>3. run' \in [Requests -> Run]
      BY <1>3, <2>2 DEF Insert, Inserted, Run, RunStatuses
    <3>4. answer' \in [Requests -> Answer]
      BY <1>3, <2>2 DEF Insert, Inserted, Answer, JobIds
    <3>5. QED BY <1>3, <2>1, <3>2, <3>3, <3>4 DEF Insert
  <2>3. CASE UsedBy(request[q].key) # {}
    BY <1>3, <2>1, <2>3 DEF Insert, Answer
  <2>4. QED BY <2>2, <2>3
<1>4. ASSUME NEW E \in SUBSET Events, NEW r \in Requests
      PROVE  Ingested(E, r) \in [Events -> Event]
  BY DEF Ingested, Event
<1>5. ASSUME NEW E \in SUBSET Events, NEW jobs \in [JobIds -> Job]
      PROVE  Projecting(jobs, E) \in [JobIds -> Job]
  BY NewJobType DEF Projecting
<1>6. ASSUME NEW e \in Events, NEW r \in Requests, Ingest(e, r) PROVE TypeOK'
  BY <1>4, <1>5, <1>6 DEF Ingest
<1>7. \A j \in JobIds : Done(job, j) \in [JobIds -> Job]
  BY DEF Done, Job, JobStatuses
<1>8. \A j \in JobIds : Closed(j) => seen' \in [JobIds -> Run]
  BY Constants DEF Closed
<1>9. ASSUME NEW j \in JobIds, NEW s \in {"succeeded"} \cup Reports, Written(j, s)
      PROVE  run' \in [Requests -> Run]
  <2>1. \A r \in Requests : run[r].version \in Nat
    BY DEF Run
  <2>2. \A r \in Requests : [status |-> s, version |-> run[r].version + 1] \in Run
    BY <2>1 DEF Run, RunStatuses
  <2>3. QED BY <1>9, <2>2 DEF Written
<1>10. ASSUME NEW j \in JobIds, Lease(j) PROVE TypeOK'
  <2>1. RunOf(j) \in Requests \cup {None}
    BY DEF RunOf, Job, Event, JobIds
  <2>2. seen' \in [JobIds -> Run]
    BY <1>10, <2>1, Constants DEF Lease, Present
  <2>3. job' \in [JobIds -> Job]
    BY <1>10 DEF Lease, Job, JobStatuses
  <2>4. QED BY <1>10, <2>2, <2>3 DEF Lease
<1>11. ASSUME NEW j \in JobIds, Project(j) PROVE TypeOK'
  <2>1. event[j].status \in {"succeeded"} \cup Reports
    BY <1>11 DEF Project, Event
  <2>2. run' \in [Requests -> Run]
    BY <1>11, <1>9, <2>1 DEF Project
  <2>3. QED BY <1>11, <1>7, <1>8, <2>2 DEF Project
<1>12. ASSUME NEW j \in JobIds, NEW E \in SUBSET Events, Execute(j, E) PROVE TypeOK'
  <2>1. run' \in [Requests -> Run]
    BY <1>12, <1>9 DEF Execute
  <2>2. CASE RunOf(j) \in Requests
    BY <1>12, <1>4, <1>5, <1>7, <1>8, <2>1, <2>2 DEF Execute
  <2>3. RunOf(j) \in Requests
    BY <1>12 DEF Execute, JobOK
  <2>4. QED BY <2>2, <2>3
<1>13. ASSUME NEW j \in JobIds, Compare(j) \/ Fail(j) \/ Stop(j) \/ Cancel(j) PROVE TypeOK'
  <2>1. job' \in [JobIds -> Job]
    <3>1. CASE Compare(j)
      BY <3>1, <1>7 DEF Compare
    <3>2. CASE Fail(j)
      <4>1. [job[j] EXCEPT !.status = IF job[j].attempts < MaxAttempts THEN "retry"
                                      ELSE "dead_letter"] \in Job
        BY DEF Job, JobStatuses
      <4>2. QED BY <3>2, <4>1 DEF Fail
    <3>3. CASE Stop(j)
      BY <3>3 DEF Stop, Job, JobStatuses
    <3>4. CASE Cancel(j)
      <4>1. [job[j] EXCEPT !.cancel = TRUE,
                           !.status = IF @ \in {"pending", "retry"} THEN "cancelled" ELSE @] \in Job
        BY DEF Job, JobStatuses
      <4>2. QED BY <3>4, <4>1 DEF Cancel
    <3>5. QED BY <1>13, <3>1, <3>2, <3>3, <3>4
  <2>2. seen' \in [JobIds -> Run]
    BY <1>13, <1>8 DEF Compare, Fail, Stop, Cancel
  <2>3. QED BY <1>13, <2>1, <2>2 DEF Compare, Fail, Stop, Cancel
<1>14. ASSUME NEW r \in Requests, DeleteRun(r) PROVE TypeOK'
  BY <1>14, Constants DEF DeleteRun, Event
<1>15. ASSUME NEW c \in Streams, Follow(c) \/ Poll(c) \/ Cut(c) \/ GiveUp(c) PROVE TypeOK'
  <2>1. stream' \in [Streams -> Stream]
    <3>1. stream[c].run \in Requests \cup {None} /\ stream[c].last_id \in Nat
          /\ stream[c].sequence \in Nat /\ stream[c].cuts \in 0 .. MaxCuts
      BY DEF Stream
    <3>2. CASE Tell(c)
      <4>1. run[stream[c].run].status \in RunStatuses
        BY <3>1, <3>2 DEF Tell, StreamOK, Run
      <4>2. \A status \in RunStatuses, next \in Nat, s \in {"on", "done"} :
              /\ [stream[c] EXCEPT !.state = s, !.known = status] \in Stream
              /\ [stream[c] EXCEPT !.state = s, !.known = status, !.previous = status,
                                   !.sequence = next, !.last_id = next] \in Stream
        BY ZenonT(40) DEF Stream
      <4>3. stream[c].sequence + 1 \in Nat
        BY <3>1
      <4>4. QED BY <3>2, <4>1, <4>2, <4>3 DEF Tell
    <3>3. ASSUME NEW r \in Requests, Connect(c, r)
          PROVE stream' \in [Streams -> Stream]
      <4>1. [stream[c] EXCEPT !.state = "on", !.run = r, !.previous = None,
                              !.sequence = stream[c].last_id] \in Stream
        BY DEF Stream
      <4>2. QED BY <3>3, <4>1 DEF Connect
    <3>4. CASE Poll(c)
      <4>1. run[stream[c].run].status \in RunStatuses
        BY <3>1, <3>4 DEF Poll, Run
      <4>2. \A status \in RunStatuses, s \in {"off", "done"} :
              [stream[c] EXCEPT !.known = status, !.state = s] \in Stream
        BY DEF Stream
      <4>3. QED BY <3>4, <4>1, <4>2 DEF Poll
    <3>5. CASE Cut(c) \/ GiveUp(c)
      <4>1. \A n \in 0 .. MaxCuts, id \in Nat :
              /\ [stream[c] EXCEPT !.state = "off", !.cuts = n] \in Stream
              /\ [stream[c] EXCEPT !.state = "off", !.cuts = n, !.last_id = id] \in Stream
        BY DEF Stream
      <4>2. stream[c].cuts < MaxCuts => stream[c].cuts + 1 \in 0 .. MaxCuts
        BY <3>1, RunServiceAssumption
      <4>3. stream[c].sequence + 1 \in Nat
        BY <3>1
      <4>4. CASE Cut(c)
        BY <4>1, <4>2, <4>4 DEF Cut
      <4>5. CASE GiveUp(c)
        BY <4>1, <4>2, <4>3, <4>5 DEF GiveUp
      <4>6. QED BY <3>5, <4>4, <4>5
    <3>6. QED BY <1>15, <3>2, <3>3, <3>4, <3>5 DEF Follow
  <2>2. QED BY <1>15, <2>1 DEF Follow, Connect, Tell, Poll, Cut, GiveUp
<1>16. QED
  BY <1>1, <1>2, <1>3, <1>6, <1>10, <1>11, <1>12, <1>13, <1>14, <1>15 DEF Next, Client, Work

-----------------------------------------------------------------------------
(* The invariant.                                                          *)

LEMMA InvInit == Init => SInv
<1> SUFFICES ASSUME Init PROVE SInv
  OBVIOUS
<1>1. TypeOK
  BY TypeInit
<1>2. KeysUnique /\ NothingForgotten
  BY DEF Init, KeysUnique, NothingForgotten, Exists, NoJob, Present, NoRun
<1>3. \A q \in Requests : RequestOK(q) /\ AnswerHolds(q) /\ RunOK(q)
  BY DEF Init, RequestOK, AnswerHolds, RunOK, Exists, NoJob, Present, NoRun, NoAnswer, JobIds
<1>4. \A e \in Events : EventOK(e)
  BY DEF Init, EventOK, Exists, NoJob, JobIds
<1>5. \A j \in JobIds : JobOK(j)
  BY RunServiceAssumption DEF Init, JobOK, Exists, NoJob, NoRun
<1>6. \A c \in Streams : StreamOK(c)
  BY DEF Init, StreamOK
<1>7. QED BY <1>1, <1>2, <1>3, <1>4, <1>5, <1>6 DEF SInv

\* What a job is for never changes.
SameJob(j) ==
  /\ Exists(j)' <=> Exists(j)
  /\ job'[j].key = job[j].key
  /\ job'[j].type = job[j].type
  /\ job'[j].run = job[j].run

\* What a step of a job keeps if it ingests nothing.
JobStep ==
  /\ UNCHANGED <<request, answer, event, stream>>
  /\ \A j \in JobIds : SameJob(j)
  /\ \A r \in Requests : Present(r)' <=> Present(r)

LEMMA JobStepKeeps ==
  ASSUME SInv, TypeOK', JobStep,
         \A j \in JobIds : JobOK(j)', \A r \in Requests : RunOK(r)'
  PROVE  SInv'
<1> USE DEF SInv, JobStep, SameJob
<1>1. KeysUnique'
  BY DEF KeysUnique, Exists
<1>2. ASSUME NEW q \in Requests PROVE RequestOK(q)' /\ AnswerHolds(q)'
  BY DEF RequestOK, AnswerHolds, JobIds
<1>3. ASSUME NEW e \in Events PROVE EventOK(e)'
  BY DEF EventOK, JobIds
<1>4. \A c \in Streams : StreamOK(c)'
  BY DEF StreamOK
<1>5. NothingForgotten'
  BY DEF NothingForgotten, JobIds, Exists, Present, TypeOK, Event
<1>6. QED BY <1>1, <1>2, <1>3, <1>4, <1>5

LEMMA RunOfType == TypeOK => \A j \in JobIds : RunOf(j) \in Requests \cup {None}
BY DEF TypeOK, RunOf, Job, Event, JobIds

LEMMA WrittenKeeps ==
  ASSUME SInv, NEW j \in JobIds, NEW status \in {"succeeded"} \cup Reports,
         seen[j].status # "absent", Written(j, status)
  PROVE  /\ Present(RunOf(j))
         /\ \A r \in Requests : (Present(r)' <=> Present(r)) /\ RunOK(r)'
<1> USE DEF SInv
<1>1. RunOf(j) \in Requests /\ seen[j].version > 0
  BY DEF JobOK
<1>2. run[RunOf(j)].version \in Nat /\ run[RunOf(j)].version > 0 /\ run[RunOf(j)].status # "absent"
  BY <1>1 DEF Written, RunOK, TypeOK, Run
<1>3. status # "absent"
  BY RunServiceAssumption
<1>4. ASSUME NEW r \in Requests PROVE (Present(r)' <=> Present(r)) /\ RunOK(r)'
  <2>1. CASE r = RunOf(j)
    <3>1. run'[r].status = status /\ run'[r].version = run[r].version + 1
      BY <1>1, <2>1 DEF Written, TypeOK
    <3>2. QED BY <3>1, <2>1, <1>2, <1>3 DEF Present, RunOK
  <2>2. CASE r # RunOf(j)
    BY <1>1, <2>2 DEF Written, TypeOK, Present, RunOK
  <2>3. QED BY <2>1, <2>2
<1>5. QED BY <1>1, <1>2, <1>4, RunServiceAssumption DEF Present, JobIds

LEMMA HandlerStep ==
  ASSUME SInv, TypeOK', NEW j \in JobIds,
         Lease(j) \/ Project(j) \/ Compare(j) \/ Fail(j) \/ Stop(j) \/ Cancel(j)
  PROVE  SInv'
<1> USE DEF SInv
<1> DEFINE Stay == \A r \in Requests : (Present(r)' <=> Present(r)) /\ RunOK(r)'
<1>1. RunOf(j) \in Requests \cup {None} /\ Exists(j) /\ job[j].attempts \in Nat
  BY RunOfType DEF Lease, Project, Compare, Fail, Stop, Cancel, Exists, TypeOK, Job
<1>2. UNCHANGED <<request, answer, event, stream>>
  BY DEF Lease, Project, Compare, Fail, Stop, Cancel
<1>3. \A i \in JobIds : RunOf(i)' = IF i \in Events THEN event[i].run ELSE job'[i].run
  BY <1>2 DEF RunOf
<1>4. CASE Lease(j)
  <2>1. \A i \in JobIds : SameJob(i)
    BY <1>1, <1>4 DEF Lease, SameJob, Exists, TypeOK, Job
  <2>2. job[j].attempts < MaxAttempts /\ job'[j].attempts = job[j].attempts + 1 /\ job'[j].status = "running"
    BY <1>4 DEF Lease, JobOK, TypeOK
  <2>3. seen'[j].status # "absent" => RunOf(j) \in Requests /\ seen'[j].version > 0
    BY <1>1, <1>4 DEF Lease, NoRun, Present, RunOK, TypeOK, Run
  <2>4. ASSUME NEW i \in JobIds PROVE JobOK(i)'
    <3>1. CASE i = j
      BY <3>1, <1>1, <1>2, <2>1, <2>2, <2>3, RunServiceAssumption DEF JobOK, RunOf, SameJob
    <3>2. CASE i # j
      BY <3>2, <1>2, <1>4, <2>1 DEF Lease, JobOK, RunOf, SameJob, TypeOK, Exists
    <3>3. QED BY <3>1, <3>2
  <2>5. Stay
    BY <1>4 DEF Lease, Present, RunOK
  <2>6. QED BY <1>2, <2>1, <2>4, <2>5, JobStepKeeps DEF JobStep
<1>5. CASE ~Lease(j)
  <2>1. Stay
    <3>1. CASE UNCHANGED run
      BY <3>1 DEF Present, RunOK
    <3>2. CASE Project(j) /\ Written(j, event[j].status)
      <4>1. seen[j].status # "absent" /\ event[j].status \in Reports
        BY <3>2 DEF Project, TypeOK, Event
      <4>2. QED BY <3>2, <4>1, WrittenKeeps
    <3>3. QED BY <1>5, <3>1, <3>2 DEF Project, Compare, Fail, Stop, Cancel
  <2>2. job'[j].key = job[j].key /\ job'[j].type = job[j].type /\ job'[j].run = job[j].run
        /\ job'[j].attempts = job[j].attempts
    <3>1. CASE Project(j) \/ Compare(j)
      BY <3>1 DEF Project, Compare, Done, TypeOK, Job
    <3>2. CASE Fail(j)
      BY <3>2 DEF Fail, TypeOK, Job
    <3>3. CASE Stop(j)
      BY <3>3 DEF Stop, TypeOK, Job
    <3>4. CASE Cancel(j)
      BY <3>4 DEF Cancel, TypeOK, Job
    <3>5. QED BY <1>5, <3>1, <3>2, <3>3, <3>4
  <2>3. \A i \in JobIds : i # j => job'[i] = job[i] /\ seen'[i] = seen[i]
    BY <1>1, <1>5 DEF Project, Compare, Fail, Stop, Cancel, Done, Closed, TypeOK
  <2>4. job'[j].status \notin {"absent", "pending"} /\ (job'[j].status = "retry" => job[j].attempts < MaxAttempts)
    <3>1. CASE Project(j) \/ Compare(j)
      BY <3>1 DEF Project, Compare, Done, TypeOK, Job
    <3>2. CASE Fail(j)
      <4>1. job'[j].status = IF job[j].attempts < MaxAttempts THEN "retry" ELSE "dead_letter"
        BY <3>2 DEF Fail, TypeOK, Job
      <4>2. QED BY <4>1
    <3>3. CASE Stop(j)
      BY <3>3 DEF Stop, TypeOK, Job
    <3>4. CASE Cancel(j)
      <4>1. job'[j].status = IF job[j].status \in {"pending", "retry"} THEN "cancelled"
                             ELSE job[j].status
        BY <3>4 DEF Cancel, TypeOK, Job
      <4>2. QED BY <4>1, <1>1 DEF Exists
    <3>5. QED BY <1>5, <3>1, <3>2, <3>3, <3>4
  <2>5. seen'[j] = seen[j] \/ seen'[j] = NoRun
    BY <1>1, <1>5 DEF Project, Compare, Fail, Stop, Cancel, Closed, TypeOK
  <2>6. \A i \in JobIds : SameJob(i)
    BY <1>1, <2>2, <2>3, <2>4 DEF SameJob, Exists
  <2>7. ASSUME NEW i \in JobIds PROVE JobOK(i)'
    <3>1. CASE i = j
      BY <3>1, <1>1, <1>2, <2>2, <2>4, <2>5, <2>6 DEF JobOK, RunOf, SameJob, NoRun, Exists
    <3>2. CASE i # j
      BY <3>2, <1>2, <2>3, <2>6 DEF JobOK, RunOf, SameJob, Exists
    <3>3. QED BY <3>1, <3>2
  <2>8. QED BY <1>2, <2>1, <2>6, <2>7, JobStepKeeps DEF JobStep
<1>6. QED BY <1>4, <1>5

LEMMA StreamStep ==
  ASSUME SInv, TypeOK', NEW c \in Streams, Follow(c) \/ Poll(c) \/ Cut(c) \/ GiveUp(c)
  PROVE  SInv'
<1> USE DEF SInv
<1>1. UNCHANGED <<request, answer, job, run, event, seen>>
  BY DEF Follow, Connect, Tell, Poll, Cut, GiveUp
<1>2. ASSUME NEW d \in Streams PROVE StreamOK(d)'
  <2>1. CASE d # c
    BY <2>1 DEF Follow, Connect, Tell, Poll, Cut, GiveUp, StreamOK, TypeOK
  <2>2. CASE d = c /\ Tell(c)
    BY <2>2 DEF Tell, StreamOK, TypeOK, Stream
  <2>3. CASE d = c /\ \E r \in Requests : Connect(c, r)
    BY <2>3, RunServiceAssumption DEF Connect, StreamOK, TypeOK, Stream, JobIds
  <2>4. CASE d = c /\ (Poll(c) \/ Cut(c) \/ GiveUp(c))
    BY <2>4 DEF Poll, Cut, GiveUp, StreamOK, TypeOK, Stream
  <2>5. QED BY <2>1, <2>2, <2>3, <2>4 DEF Follow
<1>3. QED
  BY <1>1, <1>2 DEF KeysUnique, RequestOK, AnswerHolds, RunOK, EventOK, JobOK, NothingForgotten,
                    Exists, Present, RunOf

LEMMA LookUpStep ==
  ASSUME SInv, TypeOK', NEW q \in Requests, NEW k \in Keys, NEW call \in {"runs", "jobs"},
         NEW t \in {"execute_run", "comparison"}, call = "runs" => t = "execute_run",
         LookUp(q, call, t, k)
  PROVE  SInv'
<1> USE DEF SInv
<1>1. UNCHANGED <<job, run, event, seen, stream>>
  BY DEF LookUp
<1>2. \A p \in Requests : p # q => request'[p] = request[p] /\ answer'[p] = answer[p]
  BY DEF LookUp, TypeOK
<1>3. request'[q].state \in {"looked", "done"} /\ request'[q].call = call
      /\ request'[q].type = t /\ request'[q].key = k
      /\ (UsedBy(k) = {} <=> request'[q].state = "looked")
  BY DEF LookUp, TypeOK
<1>4. request[q].state = "new" /\ answer[q] = NoAnswer /\ ~Exists(q) /\ ~Present(q)
  BY DEF LookUp, RequestOK
<1>5. RequestOK(q)'
  <2>1. UsedBy(k) = {} => answer'[q] = NoAnswer
    BY <1>4 DEF LookUp
  <2>2. QED BY <1>1, <1>3, <1>4, <2>1 DEF RequestOK, Exists, Present
<1>6. AnswerHolds(q)'
  <2>1. CASE UsedBy(k) = {}
    BY <2>1, <1>4 DEF LookUp, AnswerHolds, NoAnswer
  <2>2. CASE UsedBy(k) # {}
    <3>1. PICK j \in UsedBy(k) : answer'[q] = Replayed(call, t, j)
      BY <2>2 DEF LookUp, TypeOK
    <3>2. j \in JobIds /\ Exists(j) /\ job[j].key = k
      BY DEF UsedBy, Exists
    <3>3. answer'[q].code = "accepted" =>
            answer'[q].job = j /\ (call = "runs" => answer'[q].run = job[j].run)
      BY <3>1 DEF Replayed, NoAnswer
    <3>4. QED BY <3>2, <3>3, <1>1, <1>3, <1>4 DEF AnswerHolds, Exists
  <2>3. QED BY <2>1, <2>2
<1>7. \A p \in Requests : RequestOK(p)' /\ AnswerHolds(p)'
  <2>1. ASSUME NEW p \in Requests, p # q PROVE RequestOK(p)' /\ AnswerHolds(p)'
    BY <2>1, <1>1, <1>2 DEF RequestOK, AnswerHolds, Exists, Present
  <2>2. QED BY <1>5, <1>6, <2>1
<1>8. NothingForgotten'
  BY <1>1, <1>2, <1>4 DEF NothingForgotten, Present
<1>9. QED
  BY <1>1, <1>7, <1>8 DEF KeysUnique, RunOK, EventOK, JobOK, StreamOK, Exists, Present, RunOf

LEMMA InsertStep ==
  ASSUME SInv, TypeOK', NEW q \in Requests, NEW n \in Requests \cup {None, "own"}, Insert(q, n)
  PROVE  SInv'
<1> USE DEF SInv
<1> DEFINE r == IF n = "own" THEN q ELSE n
<1>1. UNCHANGED <<event, seen, stream>>
  BY DEF Insert
<1>2. \A p \in Requests : p # q => request'[p] = request[p] /\ answer'[p] = answer[p]
  BY DEF Insert, Inserted, TypeOK
<1>3. request'[q].state = "done" /\ request'[q].call = request[q].call
      /\ request'[q].type = request[q].type /\ request'[q].key = request[q].key
      /\ request'[q].names = n
  BY DEF Insert, TypeOK, Request
<1>4. request[q].state = "looked" /\ answer[q] = NoAnswer /\ ~Exists(q) /\ ~Present(q)
      /\ request[q].key \in Keys /\ (request[q].call = "runs" => request[q].type = "execute_run")
  BY DEF Insert, RequestOK
<1>5. CASE UsedBy(request[q].key) # {}
  <2>1. UNCHANGED <<job, run>> /\ answer'[q].code = "unavailable"
    BY <1>5 DEF Insert, TypeOK, Answer
  <2>2. ASSUME NEW p \in Requests PROVE RequestOK(p)' /\ AnswerHolds(p)'
    <3>1. CASE p = q
      BY <3>1, <2>1, <1>3, <1>4 DEF RequestOK, AnswerHolds, Exists, Present
    <3>2. CASE p # q
      BY <3>2, <2>1, <1>2 DEF RequestOK, AnswerHolds, Exists, Present
    <3>3. QED BY <3>1, <3>2
  <2>3. NothingForgotten'
    BY <1>1, <1>2, <1>4, <2>1 DEF NothingForgotten, Present
  <2>4. QED
    BY <1>1, <2>1, <2>2, <2>3 DEF KeysUnique, RunOK, EventOK, JobOK, StreamOK, Exists, Present, RunOf
<1>6. CASE UsedBy(request[q].key) = {}
  <2>1. job'[q] = NewJob(request[q].type, request[q].key, r)
        /\ (\A j \in JobIds : j # q => job'[j] = job[j])
    <3>1. Inserted(q, r)
      BY <1>6 DEF Insert
    <3> HIDE DEF r
    <3>2. QED BY <3>1 DEF Inserted, TypeOK, JobIds
  <2>2. job'[q].status = "pending" /\ job'[q].attempts = 0 /\ job'[q].key = request[q].key
        /\ job'[q].type = request[q].type /\ job'[q].run = r
    BY <2>1 DEF NewJob, NoJob
  <2>3. \A j \in JobIds : Exists(j)' <=> Exists(j) \/ j = q
    BY <2>1, <2>2 DEF Exists
  <2>4. \A j \in JobIds : Exists(j) => job[j].key # request[q].key
    BY <1>6 DEF UsedBy, Exists
  <2>5. KeysUnique'
    BY <2>1, <2>2, <2>3, <2>4 DEF KeysUnique
  <2>6. answer'[q] = [code |-> "accepted", job |-> q,
                      run |-> IF request[q].call = "runs" THEN q ELSE None]
    BY <1>6 DEF Insert, Inserted, TypeOK
  <2>7. \A p \in Requests : Present(p)' <=> Present(p) \/ (p = q /\ request[q].call = "runs")
    BY <1>4, <1>6, <2>6, RunServiceAssumption DEF Insert, Inserted, TypeOK, Present, JobIds
  <2>8. \A p \in Requests : RunOK(p)'
    BY <1>6 DEF Insert, Inserted, RunOK, TypeOK
  <2>9. ASSUME NEW p \in Requests PROVE RequestOK(p)' /\ AnswerHolds(p)'
    <3>1. CASE p = q
      BY <3>1, <1>3, <1>4, <2>2, <2>3, <2>6 DEF RequestOK, AnswerHolds, JobIds
    <3>2. CASE p # q
      <4>1. RequestOK(p)'
        BY <3>2, <1>2, <2>1, <2>3, <2>7 DEF RequestOK, JobIds
      <4>2. AnswerHolds(p)'
        BY <3>2, <1>2, <1>4, <2>1, <2>3 DEF AnswerHolds
      <4>3. QED BY <4>1, <4>2
    <3>3. QED BY <3>1, <3>2
  <2>10. \A e \in Events : EventOK(e)'
    BY <1>1, <2>1, <2>3, RunServiceAssumption DEF EventOK, JobIds
  <2>11. ASSUME NEW j \in JobIds PROVE JobOK(j)'
    <3>1. CASE j = q
      BY <3>1, <1>1, <1>4, <2>2, <2>3, RunServiceAssumption DEF JobOK, JobIds, Exists
    <3>2. CASE j # q
      BY <3>2, <1>1, <2>1, <2>3 DEF JobOK, RunOf, JobIds
    <3>3. QED BY <3>1, <3>2
  <2>12. NothingForgotten'
    <3>1. ASSUME NEW p \in Requests, Present(p)'
          PROVE  /\ Exists(p)' /\ job'[p].type = "execute_run"
                 /\ job'[p].run = IF request'[p].names = "own" THEN p ELSE request'[p].names
      BY <3>1, <1>2, <1>3, <1>4, <2>1, <2>2, <2>3, <2>7 DEF NothingForgotten, JobIds, Exists
    <3>2. ASSUME NEW e \in Events, event[e].stored
          PROVE  Exists(e)' /\ Present(event[e].run)'
      <4>1. Exists(e) /\ Present(event[e].run) /\ event[e].run \in Requests
        BY <3>2 DEF NothingForgotten, Exists, Present, TypeOK, Event
      <4>2. Present(event[e].run)'
        BY <4>1, <1>1, <2>7 DEF Present
      <4>3. QED BY <4>1, <4>2, <2>3 DEF JobIds
    <3>3. QED BY <1>1, <3>1, <3>2 DEF NothingForgotten, Exists
  <2>13. QED BY <1>1, <2>5, <2>8, <2>9, <2>10, <2>11, <2>12 DEF StreamOK
<1>7. QED BY <1>5, <1>6

\* What a step keeps that ingests the events E for run r.
LEMMA IngestKeeps ==
  ASSUME SInv, TypeOK', NEW E \in SUBSET Fresh, NEW r \in Requests, Present(r),
         event' = Ingested(E, r), UNCHANGED <<request, answer, stream>>,
         \A e \in E : job'[e] = NewJob("project_event", e, None) /\ seen'[e] = seen[e],
         \A j \in JobIds \ E : SameJob(j),
         \A j \in JobIds \ E : Exists(j) => JobOK(j)' \/ (job'[j] = job[j] /\ seen'[j] = seen[j]),
         \A j \in JobIds \ E : ~Exists(j) => job'[j] = job[j] /\ seen'[j] = seen[j],
         \A p \in Requests : (Present(p)' <=> Present(p)) /\ RunOK(p)'
  PROVE  SInv'
<1> USE DEF SInv
<1>1. \A e \in E : e \in Events /\ event[e].run = None /\ ~Exists(e) /\ e \in JobIds /\ e \notin Requests
  <2>1. \A e \in E : e \in Events /\ event[e].run = None
    BY DEF Fresh
  <2>2. QED BY <2>1, RunServiceAssumption DEF EventOK, JobIds
<1>2. \A e \in E : job'[e].status = "pending" /\ job'[e].key = e /\ job'[e].attempts = 0
                  /\ job'[e].type = "project_event" /\ event'[e].run = r
  <2>1. \A e \in E : event'[e] = [event[e] EXCEPT !.stored = TRUE, !.run = r]
    BY <1>1 DEF Ingested
  <2>2. \A e \in E : event'[e].run = r
    BY <2>1, <1>1, ZenonT(40) DEF TypeOK, Event
  <2>3. \A e \in E : job'[e].status = "pending" /\ job'[e].key = e /\ job'[e].attempts = 0
                    /\ job'[e].type = "project_event"
    BY NewJobFields
  <2>4. QED BY <2>2, <2>3
<1>3. \A e \in Events \ E : event'[e] = event[e]
  BY DEF Ingested
<1>4. \A j \in JobIds : Exists(j)' <=> Exists(j) \/ j \in E
  BY <1>2 DEF SameJob, Exists
<1>5. \A q \in Requests : q \notin E
  BY <1>1
<1>6. KeysUnique'
  <2>1. \A j \in JobIds, e \in E : Exists(j) => job[j].key # e
    <3>1. \A j \in JobIds : Exists(j) => IF j \in Events THEN job[j].key = j ELSE job[j].key \in Keys
      BY DEF JobIds, EventOK, RequestOK
    <3>2. QED BY <3>1, <1>1, RunServiceAssumption
  <2>2. QED BY <2>1, <1>2, <1>4 DEF KeysUnique, SameJob
<1>7. ASSUME NEW q \in Requests PROVE RequestOK(q)' /\ AnswerHolds(q)'
  <2>1. RequestOK(q)'
    BY <1>4, <1>5 DEF RequestOK, SameJob, JobIds
  <2>2. AnswerHolds(q)'
    BY <1>1, <1>4 DEF AnswerHolds, SameJob
  <2>3. QED BY <2>1, <2>2
<1>8. ASSUME NEW e \in Events PROVE EventOK(e)'
  <2>1. CASE e \in E
    BY <2>1, <1>2, RunServiceAssumption DEF EventOK, JobIds
  <2>2. CASE e \notin E
    BY <2>2, <1>3, <1>4 DEF EventOK, SameJob, JobIds
  <2>3. QED BY <2>1, <2>2
<1>9. ASSUME NEW j \in JobIds PROVE JobOK(j)'
  <2>1. CASE j \in E
    <3>1. seen[j].status = "absent"
      BY <2>1, <1>1 DEF JobOK
    <3>2. QED BY <2>1, <3>1, <1>2, <1>4, RunServiceAssumption DEF JobOK
  <2>2. CASE j \notin E /\ job'[j] = job[j] /\ seen'[j] = seen[j]
    <3>1. RunOf(j)' = RunOf(j)
      BY <2>2, <1>3 DEF RunOf
    <3>2. QED BY <2>2, <3>1, <1>4 DEF JobOK
  <2>3. QED BY <2>1, <2>2
<1>10. NothingForgotten'
  <2>1. ASSUME NEW p \in Requests, Present(p)'
        PROVE  /\ Exists(p)' /\ job'[p].type = "execute_run"
               /\ job'[p].run = IF request'[p].names = "own" THEN p ELSE request'[p].names
    BY <2>1, <1>4, <1>5 DEF NothingForgotten, SameJob, JobIds, Exists
  <2>2. ASSUME NEW e \in Events, event'[e].stored
        PROVE  Exists(e)' /\ Present(event[e].run)'
    <3>1. CASE e \in E
      <4>1. event'[e].run = r /\ Present(r)'
        BY <3>1, <1>2
      <4>2. QED BY <3>1, <4>1, <1>1, <1>4 DEF Present
    <3>2. CASE e \notin E
      <4>1. Exists(e) /\ Present(event[e].run) /\ event[e].run \in Requests /\ event'[e] = event[e]
        BY <2>2, <3>2, <1>3 DEF NothingForgotten, Exists, Present, TypeOK, Event
      <4>2. Present(event[e].run)'
        BY <4>1 DEF Present
      <4>3. QED BY <4>1, <4>2, <1>4 DEF JobIds, Present
    <3>3. QED BY <3>1, <3>2
  <2>3. QED BY <2>1, <2>2 DEF NothingForgotten, Exists, Present
<1>11. QED BY <1>6, <1>7, <1>8, <1>9, <1>10 DEF StreamOK

LEMMA IngestStep ==
  ASSUME SInv, TypeOK', NEW e \in Events, NEW r \in Requests, Ingest(e, r)
  PROVE  SInv'
<1> USE DEF SInv
<1>1. {e} \in SUBSET Fresh /\ Present(r) /\ event' = Ingested({e}, r)
      /\ UNCHANGED <<request, answer, run, seen, stream>> /\ e \in JobIds
  BY DEF Ingest, JobIds
<1>2. job'[e] = NewJob("project_event", e, None)
      /\ \A j \in JobIds \ {e} : job'[j] = job[j]
  BY <1>1 DEF Ingest, Projecting
<1>3. \A p \in Requests : (Present(p)' <=> Present(p)) /\ RunOK(p)'
  BY <1>1 DEF Present, RunOK
<1>4. \A j \in JobIds \ {e} : SameJob(j)
  BY <1>2 DEF SameJob, Exists
<1>5. QED BY <1>1, <1>2, <1>3, <1>4, IngestKeeps

LEMMA ExecuteStep ==
  ASSUME SInv, TypeOK', NEW j \in JobIds, NEW E \in SUBSET Events, Execute(j, E)
  PROVE  SInv'
<1> USE DEF SInv
<1>1. Present(RunOf(j)) /\ RunOf(j) \in Requests
      /\ \A r \in Requests : (Present(r)' <=> Present(r)) /\ RunOK(r)'
  BY WrittenKeeps DEF Execute, JobOK
<1>2. j \notin E /\ E \in SUBSET Fresh /\ Exists(j) /\ event' = Ingested(E, RunOf(j))
      /\ UNCHANGED <<request, answer, stream>>
  BY DEF Execute, Exists, Fresh, EventOK
<1>3. \A e \in E : e \in JobIds
  BY DEF JobIds
<1>4. (\A e \in E : job'[e] = NewJob("project_event", e, None))
      /\ job'[j] = [job[j] EXCEPT !.status = "succeeded"]
      /\ \A i \in JobIds \ E : i # j => job'[i] = job[i]
  BY <1>2, <1>3 DEF Execute, Projecting, Done, TypeOK
<1>5. seen'[j] = NoRun /\ \A i \in JobIds : i # j => seen'[i] = seen[i]
  BY DEF Execute, Closed, TypeOK
<1>6. \A i \in JobIds \ E : SameJob(i)
  BY <1>2, <1>4, SMTT(30) DEF SameJob, Exists, TypeOK, Job
<1>7. JobOK(j)'
  BY <1>2, <1>4, <1>5 DEF JobOK, Exists, NoRun, TypeOK, Job
<1>8. \A e \in E : job'[e] = NewJob("project_event", e, None) /\ seen'[e] = seen[e]
  BY <1>2, <1>3, <1>4, <1>5
<1>9. \A i \in JobIds \ E : Exists(i) => JobOK(i)' \/ (job'[i] = job[i] /\ seen'[i] = seen[i])
  <2>1. ASSUME NEW i \in JobIds \ E PROVE JobOK(i)' \/ (job'[i] = job[i] /\ seen'[i] = seen[i])
    <3>1. CASE i = j
      BY <3>1, <1>7
    <3>2. CASE i # j
      BY <3>2, <1>4, <1>5
    <3>3. QED BY <3>1, <3>2
  <2>2. QED BY <2>1
<1>10. \A i \in JobIds \ E : ~Exists(i) => job'[i] = job[i] /\ seen'[i] = seen[i]
  BY <1>2, <1>4, <1>5
<1>11. QED BY <1>1, <1>2, <1>6, <1>8, <1>9, <1>10, IngestKeeps

LEMMA DeleteRunStep ==
  ASSUME SInv, TypeOK', NEW r \in Requests, DeleteRun(r)
  PROVE  SInv'
<1> USE DEF SInv
<1>1. UNCHANGED <<request, answer, job, seen, stream>>
  BY DEF DeleteRun
<1>2. \A p \in Requests : (Present(p)' => p # r /\ Present(p)) /\ (p # r => (Present(p)' <=> Present(p)))
  BY DEF DeleteRun, Present, NoRun, TypeOK
<1>3. \A p \in Requests : RunOK(p)'
  BY DEF DeleteRun, RunOK, NoRun, TypeOK
<1>4. \A e \in Events : event'[e].run = event[e].run /\ event'[e].status = event[e].status
                       /\ (event'[e].stored <=> event[e].stored /\ event[e].run # r)
  BY DEF DeleteRun, TypeOK, Event
<1>5. \A j \in JobIds : RunOf(j)' = RunOf(j)
  BY <1>1, <1>4 DEF RunOf
<1>6. \A q \in Requests : RequestOK(q)' /\ AnswerHolds(q)'
  BY <1>1, <1>2 DEF RequestOK, AnswerHolds, Exists
<1>7. \A e \in Events : EventOK(e)'
  BY <1>1, <1>4 DEF EventOK, Exists
<1>8. \A j \in JobIds : JobOK(j)'
  BY <1>1, <1>5 DEF JobOK, Exists
<1>9. NothingForgotten'
  <2>1. ASSUME NEW e \in Events, event'[e].stored
        PROVE  Exists(e)' /\ Present(event[e].run)'
    <3>1. Exists(e) /\ Present(event[e].run) /\ event[e].run \in Requests /\ event[e].run # r
      BY <2>1, <1>4 DEF NothingForgotten, Exists, Present, TypeOK, Event
    <3>2. Present(event[e].run)'
      BY <3>1, <1>2, <1>4 DEF Present
    <3>3. QED BY <3>1, <3>2, <1>1, <1>4 DEF Exists, Present
  <2>2. QED BY <2>1, <1>1, <1>2 DEF NothingForgotten, Exists, Present
<1>10. QED BY <1>1, <1>3, <1>6, <1>7, <1>8, <1>9 DEF KeysUnique, StreamOK, Exists

LEMMA InvStep == SInv /\ [Next]_vars => SInv'
<1> SUFFICES ASSUME SInv, [Next]_vars PROVE SInv'
  OBVIOUS
<1>1. TypeOK'
  BY TypeStep
<1>2. CASE UNCHANGED vars
  BY <1>2 DEF vars, SInv, TypeOK, KeysUnique, RequestOK, AnswerHolds, RunOK, EventOK, JobOK,
              StreamOK, NothingForgotten, Exists, Present, RunOf
<1>3. ASSUME NEW q \in Requests, Client(q) PROVE SInv'
  BY <1>1, <1>3, LookUpStep, InsertStep DEF Client
<1>4. ASSUME NEW j \in JobIds, Work(j) \/ Cancel(j) PROVE SInv'
  BY <1>1, <1>4, HandlerStep, ExecuteStep DEF Work
<1>5. QED
  BY <1>1, <1>2, <1>3, <1>4, IngestStep, DeleteRunStep, StreamStep DEF Next

LEMMA Inductive == Spec => []SInv
BY InvInit, InvStep, PTL DEF Spec

-----------------------------------------------------------------------------
(* What follows from the invariant.                                        *)

\* Every variable keeps its type, whatever requests, workers and clients do.
THEOREM ServiceTypeCorrect == Spec => []TypeOK
BY Inductive, PTL DEF SInv

\* Racing requests with one Idempotency-Key are told of one job, and of one run
\* unless the payload of the one that inserted the job named another
\* (the unique constraint and the look-up of api.py:196 and api.py:302).
THEOREM IdempotentAnswers == Spec => []AnswersAgree
<1>1. ASSUME SInv, NEW p \in Requests, NEW q \in Requests,
             answer[p].code = "accepted", answer[q].code = "accepted",
             request[p].key = request[q].key
      PROVE  LET j == answer[p].job IN
             /\ j = answer[q].job
             /\ (/\ request[p].call = "runs" /\ request[q].call = "runs"
                 /\ j \notin {p, q} \/ request[j].names = "own")
                => answer[p].run = answer[q].run
  <2> DEFINE j == answer[p].job
  <2>1. /\ j = answer[q].job /\ j \in JobIds /\ Exists(j)
        /\ request[p].call = "runs" => answer[p].run = IF j = p THEN p ELSE job[j].run
        /\ request[q].call = "runs" => answer[q].run = IF j = q THEN q ELSE job[j].run
    BY <1>1 DEF SInv, AnswerHolds, KeysUnique
  <2>2. CASE j \notin {p, q}
    BY <2>1, <2>2
  <2>3. CASE j \in {p, q} /\ request[j].names = "own"
    <3>1. request[j].call = "runs" => job[j].run = j
      BY <1>1, <2>1, <2>3 DEF SInv, RequestOK
    <3>2. QED BY <2>1, <2>3, <3>1
  <2>4. QED BY <2>1, <2>2, <2>3
<1>2. SInv => AnswersAgree
  BY <1>1 DEF AnswersAgree
<1>3. QED BY <1>2, Inductive, PTL

\* No run without its job, which executes it or the run that the payload named,
\* no event without the job that projects it: they are inserted in one
\* transaction (api.py:215, ingestion.py:191).
THEOREM RowsComeWithJobs == Spec => []NothingForgotten
BY Inductive, PTL DEF SInv

\* A client is never told something new under an id it has seen (api.py:403).
THEOREM EventIdsIncrease == Spec => IdsIncrease
<1>1. ASSUME SInv, Next, NEW c \in Streams
      PROVE  /\ stream'[c].last_id >= stream[c].last_id
             /\ stream'[c].previous \notin {None, stream[c].previous}
                => stream'[c].last_id > stream[c].last_id
  <2>1. stream[c].last_id \in Nat /\ stream[c].sequence \in Nat
    BY <1>1 DEF SInv, TypeOK, Stream
  <2>2. CASE \E d \in Streams : Follow(d) \/ Poll(d) \/ Cut(d) \/ GiveUp(d)
    <3>1. PICK d \in Streams : Follow(d) \/ Poll(d) \/ Cut(d) \/ GiveUp(d)
      BY <2>2
    <3>2. CASE c # d
      <4>1. stream'[c] = stream[c]
        BY <3>1, <3>2, <1>1 DEF Follow, Tell, Connect, Poll, Cut, GiveUp, SInv, TypeOK
      <4>2. QED BY <4>1, <2>1
    <3>3. CASE c = d /\ Tell(d)
      BY <3>3, <2>1, <1>1 DEF Tell, SInv, TypeOK, Stream, StreamOK
    <3>4. CASE c = d /\ \E r \in Requests : Connect(d, r)
      BY <3>4, <2>1, <1>1 DEF Connect, SInv, TypeOK, Stream
    <3>5. CASE c = d /\ (Poll(d) \/ Cut(d))
      <4>3. stream'[c].last_id = stream[c].last_id /\ stream'[c].previous = stream[c].previous
        <5>1. CASE Poll(c)
          BY <5>1, <1>1 DEF Poll, SInv, TypeOK, Stream
        <5>2. CASE Cut(c)
          BY <5>2, <1>1 DEF Cut, SInv, TypeOK, Stream
        <5>3. QED BY <3>5, <5>1, <5>2
      <4>4. QED BY <4>3, <2>1
    <3>6. CASE c = d /\ GiveUp(d)
      <4>1. stream'[c].last_id = stream[c].sequence + 1 /\ stream'[c].previous = stream[c].previous
        BY <3>6, <1>1 DEF GiveUp, SInv, TypeOK, Stream
      <4>2. stream[c].last_id <= stream[c].sequence
        BY <3>6, <1>1 DEF GiveUp, SInv, StreamOK
      <4>3. QED BY <4>1, <4>2, <2>1
    <3>7. QED BY <3>1, <3>2, <3>3, <3>4, <3>5, <3>6 DEF Follow
  <2>3. CASE ~\E d \in Streams : Follow(d) \/ Poll(d) \/ Cut(d) \/ GiveUp(d)
    <3>1. UNCHANGED stream
      BY <1>1, <2>3 DEF Next, Client, LookUp, Insert, Ingest, Work, Lease, Project, Compare, Fail,
                        Stop, Execute, Cancel, DeleteRun
    <3>2. QED BY <3>1, <2>1
  <2>4. QED BY <2>2, <2>3
<1>2. ASSUME SInv, NEW c \in Streams, UNCHANGED vars
      PROVE  stream'[c].last_id >= stream[c].last_id /\ stream'[c].previous = stream[c].previous
  BY <1>2 DEF vars, SInv, TypeOK, Stream
<1>3. SInv /\ [Next]_vars => [\A c \in Streams :
          /\ stream'[c].last_id >= stream[c].last_id
          /\ stream'[c].previous \notin {None, stream[c].previous}
             => stream'[c].last_id > stream[c].last_id]_vars
  BY <1>1, <1>2
<1>4. QED BY <1>3, Inductive, PTL DEF Spec, IdsIncrease

-----------------------------------------------------------------------------
(* Where the status of a run comes from.  A handler may find that the run   *)
(* has its status already: what it has read has a source too (SeenSource),  *)
(* and nothing has been committed for a run before its request is done.     *)

Silent(r) == \A status \in RunStatuses : ~HasCommitted(r, status)

SourceOK(r) == Present(r) => HasCommitted(r, run[r].status) \/ (run[r].status = "pending" /\ Silent(r))

SeenSource(j) ==
  seen[j].status # "absent" =>
    /\ request[RunOf(j)].state = "done"
    /\ seen[j].status = "pending" \/ HasCommitted(RunOf(j), seen[j].status)

SourceInv ==
  /\ \A r \in Requests : SourceOK(r)
  /\ \A j \in JobIds : SeenSource(j)
  /\ \A q \in Requests : request[q].state # "done" => Silent(q)

LEMMA SourceIsStatus == StatusHasSource <=> \A r \in Requests : SourceOK(r)
BY DEF StatusHasSource, SourceOK, Silent

\* A step after which the same jobs have succeeded that had before.
LEMMA SourceStays ==
  ASSUME SInv, SourceInv, SInv',
         \A r \in Requests, status \in RunStatuses : HasCommitted(r, status)' <=> HasCommitted(r, status),
         \A q \in Requests : request[q].state = "done" => request'[q].state = "done",
         \A r \in Requests : Present(r)' => run'[r].status = run[r].status \/
                                            (run'[r].status = "pending" /\ request[r].state # "done"),
         \A j \in JobIds : seen'[j].status # "absent" =>
            \/ seen'[j] = seen[j] /\ RunOf(j)' = RunOf(j) 
            \/ Present(RunOf(j)) /\ seen'[j] = run[RunOf(j)] /\ RunOf(j)' = RunOf(j)
  PROVE  SourceInv'
<1>1. \A r \in Requests : Silent(r)' <=> Silent(r)
  BY DEF Silent
<1>2. ASSUME NEW r \in Requests PROVE SourceOK(r)'
  <2>1. SUFFICES ASSUME Present(r)' PROVE SourceOK(r)'
    BY DEF SourceOK
  <2>2. CASE run'[r].status = run[r].status
    <3>1. Present(r) /\ run[r].status \in RunStatuses
      BY <2>1, <2>2 DEF Present, SInv, TypeOK, Run
    <3>2. QED BY <2>2, <3>1, <1>1 DEF SourceOK, SourceInv
  <2>3. CASE run'[r].status = "pending" /\ request[r].state # "done"
    BY <2>3, <1>1 DEF SourceInv, SourceOK
  <2>4. QED BY <2>1, <2>2, <2>3
<1>3. ASSUME NEW j \in JobIds PROVE SeenSource(j)'
  <2>1. SUFFICES ASSUME seen'[j].status # "absent" PROVE SeenSource(j)'
    BY DEF SeenSource
  <2>2. RunOf(j)' \in Requests
    BY <2>1 DEF SInv, JobOK
  <2>3. seen'[j].status \in RunStatuses
    BY DEF SInv, TypeOK, Run
  <2>4. CASE seen'[j] = seen[j] /\ RunOf(j)' = RunOf(j)
    BY <2>1, <2>2, <2>3, <2>4 DEF SeenSource, SourceInv
  <2>5. CASE Present(RunOf(j)) /\ seen'[j] = run[RunOf(j)] /\ RunOf(j)' = RunOf(j)
    <3>1. request[RunOf(j)].state = "done"
      BY <2>2, <2>5 DEF SInv, RequestOK
    <3>2. SourceOK(RunOf(j))
      BY <2>2, <2>5 DEF SourceInv
    <3>3. QED BY <2>1, <2>2, <2>3, <2>5, <3>1, <3>2 DEF SeenSource, SourceOK
  <2>6. QED BY <2>1, <2>4, <2>5
<1>4. \A q \in Requests : request'[q].state # "done" => Silent(q)'
  BY <1>1 DEF SourceInv
<1>5. QED BY <1>2, <1>3, <1>4 DEF SourceInv

\* The step with which the handler of job j commits.
LEMMA SourceCommits ==
  ASSUME SInv, SourceInv, SInv', NEW j \in JobIds,
         seen[j].status # "absent", UNCHANGED request,
         job'[j].status = "succeeded", RunOf(j)' = RunOf(j), job'[j].type = job[j].type,
         j \in Events => event'[j].status = event[j].status,
         j \in Events /\ Present(RunOf(j))' => run'[RunOf(j)].status = event[j].status
                                             \/ (UNCHANGED run /\ seen[j].status = event[j].status),
         j \notin Events => job[j].type = "execute_run" /\ run'[RunOf(j)].status = "succeeded",
         \A r \in Requests, status \in RunStatuses : HasCommitted(r, status) => HasCommitted(r, status)',
         \A r \in Requests, status \in RunStatuses :
           r # RunOf(j) => (HasCommitted(r, status)' <=> HasCommitted(r, status)),
         \A r \in Requests : r # RunOf(j) => run'[r] = run[r],
         \A i \in JobIds : seen'[i].status # "absent" => seen'[i] = seen[i] /\ RunOf(i)' = RunOf(i)
  PROVE  SourceInv'
<1>1. RunOf(j) \in Requests /\ request[RunOf(j)].state = "done"
  BY DEF SInv, JobOK, SourceInv, SeenSource
<1>2. \A r \in Requests : r # RunOf(j) => (Silent(r)' <=> Silent(r))
  BY DEF Silent
<1>3. ASSUME NEW r \in Requests PROVE SourceOK(r)'
  <2>1. CASE r # RunOf(j)
    <3>1. (Present(r)' <=> Present(r)) /\ run[r].status \in RunStatuses
      BY <2>1 DEF Present, SInv, TypeOK, Run
    <3>2. QED BY <2>1, <3>1, <1>2 DEF SourceOK, SourceInv
  <2>2. CASE r = RunOf(j) /\ j \notin Events
    <3>1. HasCommitted(r, "succeeded")'
      BY <2>2 DEF HasCommitted
    <3>2. QED BY <2>2, <3>1 DEF SourceOK
  <2>3. CASE r = RunOf(j) /\ j \in Events
    <3>1. HasCommitted(r, event[j].status)'
      BY <2>3 DEF HasCommitted
    <3>2. CASE run'[r].status = event[j].status
      BY <2>3, <3>1, <3>2 DEF SourceOK
    <3>3. CASE UNCHANGED run /\ seen[j].status = event[j].status
      <4>1. SUFFICES ASSUME Present(r)' PROVE SourceOK(r)'
        BY DEF SourceOK
      <4>2. Present(r) /\ run[r].status \in RunStatuses
        BY <3>3, <4>1 DEF Present, SInv, TypeOK, Run
      <4>3. CASE HasCommitted(r, run[r].status)
        BY <4>2, <4>3, <3>3 DEF SourceOK
      <4>4. CASE run[r].status = "pending" /\ Silent(r)
        <5>1. seen[j].status \in RunStatuses
          BY DEF SInv, TypeOK, Run
        <5>2. seen[j].status = "pending"
          BY <5>1, <4>4, <2>3 DEF SourceInv, SeenSource, Silent
        <5>3. run'[r].status = event'[j].status
          BY <2>3, <3>3, <4>4, <5>2
        <5>4. QED BY <3>1, <5>3 DEF SourceOK
      <4>5. QED BY <2>3, <4>2, <4>3, <4>4 DEF SourceInv, SourceOK
    <3>4. QED BY <2>3, <3>2, <3>3 DEF SourceOK
  <2>4. QED BY <2>1, <2>2, <2>3
<1>4. ASSUME NEW i \in JobIds PROVE SeenSource(i)'
  <2>1. SUFFICES ASSUME seen'[i].status # "absent" PROVE SeenSource(i)'
    BY DEF SeenSource
  <2>2. RunOf(i)' \in Requests /\ seen'[i].status \in RunStatuses
    BY <2>1 DEF SInv, JobOK, TypeOK, Run
  <2>3. QED BY <2>1, <2>2 DEF SeenSource, SourceInv
<1>5. ASSUME NEW q \in Requests, request'[q].state # "done" PROVE Silent(q)'
  BY <1>1, <1>2, <1>5 DEF SourceInv
<1>6. QED BY <1>3, <1>4, <1>5 DEF SourceInv

\* What HasCommitted depends on, for a run that has been named.
LEMMA CommittedKeeps ==
  ASSUME NEW r \in Requests, NEW status,
         \A j \in JobIds :
           /\ job'[j].status = "succeeded" /\ RunOf(j)' = r
              <=> job[j].status = "succeeded" /\ RunOf(j) = r
           /\ job[j].status = "succeeded" /\ RunOf(j) = r =>
                job'[j].type = job[j].type /\ (j \in Events => event'[j].status = event[j].status)
  PROVE  HasCommitted(r, status)' <=> HasCommitted(r, status)
BY DEF HasCommitted

LEMMA SourceStep ==
  ASSUME SInv, SourceInv, SInv', [Next]_vars
  PROVE  SourceInv'
<1> DEFINE Same(r) == \A status \in RunStatuses : HasCommitted(r, status)' <=> HasCommitted(r, status)
           SameRequests == \A q \in Requests : request[q].state = "done" => request'[q].state = "done"
           SameRuns == \A r \in Requests : Present(r)' =>
                         run'[r].status = run[r].status \/
                         (run'[r].status = "pending" /\ request[r].state # "done")
           SameSeen == \A j \in JobIds : seen'[j].status # "absent" =>
                         \/ seen'[j] = seen[j] /\ RunOf(j)' = RunOf(j)
                         \/ Present(RunOf(j)) /\ seen'[j] = run[RunOf(j)] /\ RunOf(j)' = RunOf(j)
<1>1. CASE UNCHANGED vars
  <2>1. \A r \in Requests : Same(r)
    BY <1>1 DEF vars, HasCommitted, RunOf
  <2>2. SameRequests /\ SameRuns /\ SameSeen
    BY <1>1 DEF vars, RunOf
  <2>3. QED BY <2>1, <2>2, SourceStays
<1>2. CASE \E q \in Requests : Client(q)
  <2>1. PICK q \in Requests : Client(q)
    BY <1>2
  <2>2. UNCHANGED <<event, seen>> /\ SameRequests
    BY <2>1 DEF Client, LookUp, Insert, SInv, TypeOK
  <2>3. CASE UNCHANGED <<job, run>>
    <3>1. \A r \in Requests : Same(r)
      BY <2>2, <2>3 DEF HasCommitted, RunOf
    <3>2. SameRuns /\ SameSeen
      BY <2>2, <2>3 DEF RunOf
    <3>3. QED BY <2>2, <3>1, <3>2, SourceStays
  <2>4. CASE \E n : request[q].state = "looked" /\ Inserted(q, n)
    <3>1. PICK n : request[q].state = "looked" /\ Inserted(q, n)
      BY <2>4
    <3>2. ~Exists(q) /\ q \in JobIds /\ job'[q].status = "pending"
          /\ \A j \in JobIds : j # q => job'[j] = job[j]
      BY <3>1, NewJobFields DEF Inserted, SInv, RequestOK, TypeOK, JobIds
    <3>3. \A j \in JobIds : j # q => RunOf(j)' = RunOf(j)
      BY <2>2, <3>2 DEF RunOf
    <3>4. ASSUME NEW r \in Requests PROVE Same(r)
      BY <3>2, <3>3, <2>2, CommittedKeeps DEF Exists
    <3>5. SameRuns
      <4>1. run' = run \/ run' = [run EXCEPT ![q] = [status |-> "pending", version |-> 1]]
        BY <3>1 DEF Inserted
      <4>2. QED BY <4>1, <3>1 DEF SInv, TypeOK
    <3>6. SameSeen
      <4>1. seen[q].status = "absent"
        BY <3>2 DEF SInv, JobOK
      <4>2. QED BY <4>1, <2>2, <3>3
    <3>7. QED BY <2>2, <3>4, <3>5, <3>6, SourceStays
  <2>5. QED BY <2>1, <2>3, <2>4 DEF Client, LookUp, Insert
<1>3. ASSUME NEW e \in Events, NEW n \in Requests, Ingest(e, n) PROVE SourceInv'
  <2>1. UNCHANGED <<request, run, seen>> /\ ~Exists(e) /\ e \in JobIds
    BY <1>3 DEF Ingest, Fresh, SInv, EventOK, JobIds
  <2>2. job'[e].status = "pending" /\ (\A j \in JobIds : j # e => job'[j] = job[j])
    BY <1>3, <2>1, NewJobFields DEF Ingest, Projecting
  <2>3. \A d \in Events : d # e => event'[d] = event[d]
    BY <1>3 DEF Ingest, Ingested
  <2>4. \A j \in JobIds : j # e => RunOf(j)' = RunOf(j)
    BY <2>2, <2>3 DEF RunOf
  <2>5. ASSUME NEW r \in Requests PROVE Same(r)
    BY <2>1, <2>2, <2>3, <2>4, CommittedKeeps DEF Exists
  <2>6. SameSeen
    <3>1. seen[e].status = "absent"
      BY <2>1 DEF SInv, JobOK
    <3>2. QED BY <3>1, <2>1, <2>4
  <2>7. QED BY <2>1, <2>5, <2>6, SourceStays
<1>4. ASSUME NEW j \in JobIds, Lease(j) \/ Compare(j) \/ Fail(j) \/ Stop(j) \/ Cancel(j) PROVE SourceInv'
  <2>1. UNCHANGED <<request, run, event>>
    BY <1>4 DEF Lease, Compare, Fail, Stop, Cancel
  <2>2. \A i \in JobIds : job'[i].type = job[i].type /\ job'[i].run = job[i].run
                         /\ (i # j => job'[i] = job[i])
    BY <1>4 DEF Lease, Compare, Fail, Stop, Cancel, Done, SInv, TypeOK, Job
  <2>3. \A i \in JobIds : RunOf(i)' = RunOf(i)
    BY <2>1, <2>2 DEF RunOf
  <2>4. job[j].type = "comparison" \/ (job[j].status = "succeeded" <=> job'[j].status = "succeeded")
    <3>1. CASE Compare(j)
      BY <3>1 DEF Compare
    <3>2. CASE Lease(j)
      BY <3>2 DEF Lease, SInv, TypeOK, Job
    <3>3. CASE Fail(j)
      <4>1. job'[j].status \in {"retry", "dead_letter"} /\ job[j].status = "running"
        BY <3>3 DEF Fail, SInv, TypeOK, Job
      <4>2. QED BY <4>1
    <3>4. CASE Stop(j)
      BY <3>4 DEF Stop, SInv, TypeOK, Job
    <3>5. CASE Cancel(j)
      <4>1. job'[j].status = IF job[j].status \in {"pending", "retry"} THEN "cancelled"
                             ELSE job[j].status
        BY <3>5 DEF Cancel, SInv, TypeOK, Job
      <4>2. QED BY <4>1
    <3>6. QED BY <1>4, <3>1, <3>2, <3>3, <3>4, <3>5
  <2>5. job[j].type = "comparison" => j \notin Events
    BY <1>4 DEF SInv, EventOK, Exists, Lease, Compare, Fail, Stop, Cancel
  <2>6. \A r \in Requests : Same(r)
    BY <2>1, <2>2, <2>3, <2>4, <2>5 DEF HasCommitted
  <2>7. SameSeen
    <3>1. \A i \in JobIds : i # j => seen'[i] = seen[i]
      BY <1>4 DEF Lease, Compare, Fail, Stop, Cancel, Closed, SInv, TypeOK
    <3>2. seen'[j].status # "absent" =>
            seen'[j] = seen[j] \/ (Present(RunOf(j)) /\ seen'[j] = run[RunOf(j)])
      BY <1>4 DEF Lease, Compare, Fail, Stop, Cancel, Closed, SInv, TypeOK, NoRun
    <3>3. QED BY <3>1, <3>2, <2>3
  <2>8. QED BY <2>1, <2>6, <2>7, SourceStays
<1>5. ASSUME NEW n \in Requests, DeleteRun(n) PROVE SourceInv'
  <2>1. UNCHANGED <<request, job, seen>>
    BY <1>5 DEF DeleteRun
  <2>2. \A e \in Events : event'[e].run = event[e].run /\ event'[e].status = event[e].status
    BY <1>5 DEF DeleteRun, SInv, TypeOK, Event
  <2>3. \A j \in JobIds : RunOf(j)' = RunOf(j)
    BY <2>1, <2>2 DEF RunOf
  <2>4. \A r \in Requests : Same(r)
    BY <2>1, <2>2, <2>3 DEF HasCommitted
  <2>5. SameRuns
    BY <1>5 DEF DeleteRun, SInv, TypeOK, Present, NoRun
  <2>6. QED BY <2>1, <2>3, <2>4, <2>5, SourceStays
<1>6. ASSUME NEW c \in Streams, Follow(c) \/ Poll(c) \/ Cut(c) \/ GiveUp(c) PROVE SourceInv'
  <2>1. UNCHANGED <<request, job, run, event, seen>>
    BY <1>6 DEF Follow, Connect, Tell, Poll, Cut, GiveUp
  <2>2. \A r \in Requests : Same(r)
    BY <2>1 DEF HasCommitted, RunOf
  <2>3. SameSeen
    BY <2>1 DEF RunOf
  <2>4. QED BY <2>1, <2>2, <2>3, SourceStays
<1>7. ASSUME NEW j \in JobIds, Project(j) PROVE SourceInv'
  <2>1. UNCHANGED <<request, event>> /\ seen[j].status # "absent" /\ j \in Events
    BY <1>7 DEF Project
  <2>2. RunOf(j) \in Requests /\ RunOf(j) = event[j].run
    BY <2>1 DEF SInv, JobOK, RunOf
  <2>3. job'[j].status = "succeeded" /\ job[j].status = "running"
        /\ (\A i \in JobIds : job'[i].type = job[i].type /\ job'[i].run = job[i].run
                              /\ (i # j => job'[i] = job[i]))
    BY <1>7 DEF Project, Done, SInv, TypeOK, Job
  <2>4. \A i \in JobIds : RunOf(i)' = RunOf(i)
    BY <2>1, <2>3 DEF RunOf
  <2>5. \A i \in JobIds : seen'[i].status # "absent" => seen'[i] = seen[i]
    BY <1>7 DEF Project, Closed, SInv, TypeOK, NoRun
  <2>6. \/ Written(j, event[j].status)
        \/ UNCHANGED run /\ (seen[j].status = event[j].status \/ ~Present(RunOf(j)))
    BY <1>7, <2>2 DEF Project
  <2>7. Written(j, event[j].status) => run'[RunOf(j)].status = event[j].status
    BY <2>2 DEF Written, SInv, TypeOK
  <2>8. Present(RunOf(j))' => run'[RunOf(j)].status = event[j].status
                              \/ (UNCHANGED run /\ seen[j].status = event[j].status)
    BY <2>2, <2>4, <2>6, <2>7 DEF Present
  <2>9. \A r \in Requests : r # RunOf(j) => run'[r] = run[r]
    BY <2>2, <2>6 DEF Written, SInv, TypeOK
  <2>10. \A r \in Requests, status \in RunStatuses : HasCommitted(r, status) => HasCommitted(r, status)'
    BY <2>1, <2>3, <2>4 DEF HasCommitted
  <2>11. \A r \in Requests, status \in RunStatuses :
           r # RunOf(j) => (HasCommitted(r, status)' <=> HasCommitted(r, status))
    BY <2>1, <2>3, <2>4 DEF HasCommitted
  <2>12. QED
    BY <2>1, <2>3, <2>4, <2>5, <2>8, <2>9, <2>10, <2>11, SourceCommits
<1>8. ASSUME NEW j \in JobIds, NEW E \in SUBSET Events, Execute(j, E) PROVE SourceInv'
  <2>1. UNCHANGED request /\ seen[j].status # "absent" /\ job[j].type = "execute_run"
        /\ job[j].status = "running" /\ E \subseteq Fresh /\ Written(j, "succeeded")
    BY <1>8 DEF Execute
  <2>2. RunOf(j) \in Requests /\ j \notin Events
    BY <2>1 DEF SInv, JobOK, EventOK, Exists
  <2>3. \A e \in E : e \in JobIds /\ ~Exists(e) /\ e # j /\ job'[e].status = "pending" /\ seen[e].status = "absent"
    <3>1. \A e \in E : e \in JobIds /\ ~Exists(e) /\ job'[e] = NewJob("project_event", e, None)
      BY <1>8, <2>1 DEF Execute, Projecting, Fresh, SInv, EventOK, JobIds
    <3>2. QED BY <3>1, <2>1, NewJobFields DEF Exists, SInv, JobOK
  <2>4. job'[j].status = "succeeded" /\ job'[j].type = job[j].type /\ job'[j].run = job[j].run
        /\ (\A i \in JobIds \ E : i # j => job'[i] = job[i])
    <3>1. job' = Projecting(Done(job, j), E) /\ j \notin E
      BY <1>8, <2>3 DEF Execute
    <3>2. job'[j] = [job[j] EXCEPT !.status = "succeeded"] /\ \A i \in JobIds \ E : i # j => job'[i] = job[i]
      BY <3>1 DEF Projecting, Done, SInv, TypeOK
    <3>3. QED BY <3>2 DEF SInv, TypeOK, Job
  <2>5. \A e \in Events \ E : event'[e] = event[e]
    BY <1>8 DEF Execute, Ingested
  <2>6. \A i \in JobIds \ E : RunOf(i)' = RunOf(i)
    BY <2>4, <2>5 DEF RunOf
  <2>7. \A i \in JobIds : seen'[i].status # "absent" => seen'[i] = seen[i] /\ i \notin E
    <3>1. seen'[j].status = "absent" /\ \A i \in JobIds : i # j => seen'[i] = seen[i]
      BY <1>8 DEF Execute, Closed, SInv, TypeOK, NoRun
    <3>2. QED BY <3>1, <2>3
  <2>8. run'[RunOf(j)].status = "succeeded" /\ \A r \in Requests : r # RunOf(j) => run'[r] = run[r]
    BY <2>1, <2>2 DEF Written, SInv, TypeOK
  <2>9. \A i \in JobIds : i # j =>
          (job'[i].status = "succeeded" <=> job[i].status = "succeeded")
          /\ (job[i].status = "succeeded" => i \notin E /\ job'[i] = job[i])
    BY <2>3, <2>4 DEF Exists
  <2>10. \A r \in Requests, status \in RunStatuses :
           r # RunOf(j) => (HasCommitted(r, status)' <=> HasCommitted(r, status))
    BY <2>3, <2>4, <2>5, <2>6, <2>9 DEF HasCommitted
  <2>11. \A r \in Requests, status \in RunStatuses : HasCommitted(r, status) => HasCommitted(r, status)'
    BY <2>1, <2>3, <2>4, <2>5, <2>6, <2>9 DEF HasCommitted
  <2>12. QED
    BY <2>1, <2>2, <2>3, <2>4, <2>6, <2>7, <2>8, <2>10, <2>11, SourceCommits
<1>9. QED
  BY <1>1, <1>2, <1>3, <1>4, <1>5, <1>6, <1>7, <1>8 DEF Next, Work

LEMMA SourceInvariance == Spec => []SourceInv
<1>1. Init => SourceInv
  BY DEF Init, SourceInv, SourceOK, SeenSource, Silent, HasCommitted, Present, NoRun, NoJob
<1>2. SInv /\ SInv' /\ SourceInv /\ [Next]_vars => SourceInv'
  BY SourceStep
<1>3. QED BY <1>1, <1>2, Inductive, PTL DEF Spec

\* A run shows a status that the handler of one of its jobs has committed, or
\* "pending" and none has committed any (workers.py:240, workers.py:265).
THEOREM StatusComesFromHandlers == Spec => []StatusHasSource
<1>1. SourceInv => StatusHasSource
  BY SourceIsStatus DEF SourceInv
<1>2. QED BY <1>1, SourceInvariance, PTL

-----------------------------------------------------------------------------
(* Who may change a run.  A handler that holds the run's version holds the  *)
(* run as it is (ReadOK): versions only grow, and a run is inserted once.   *)

ReadOK(j) ==
  seen[j].status # "absent" /\ Present(RunOf(j)) =>
    /\ seen[j].version <= run[RunOf(j)].version
    /\ seen[j].version = run[RunOf(j)].version => seen[j] = run[RunOf(j)]

\* The handler of job j commits what it makes of run r.
Commits(j, r) ==
  /\ job[j].status = "running" /\ job'[j].status = "succeeded" /\ RunOf(j) = r
  /\ seen[j].status # "absent"
  /\ \/ j \in Events /\ run'[r].status = event[j].status
     \/ job[j].type = "execute_run" /\ run'[r].status = "succeeded"

\* A run that stays changes only by a handler that commits, and that had read
\* it as it was until then.
RunStep(r) ==
  Present(r) /\ Present(r)' /\ run'[r] # run[r]
    => \E j \in JobIds : Commits(j, r) /\ seen[j] = run[r]

\* The ways in which the row of a run changes.
LEMMA RowsChange ==
  ASSUME SInv, Next, NEW r \in Requests, run'[r] # run[r]
  PROVE  \/ ~Present(r)'
         \/ ~Present(r) /\ request[r].state # "done"
         \/ \E j \in JobIds : /\ Commits(j, r) /\ seen[j].version = run[r].version
                              /\ run'[r].version = run[r].version + 1
<1>1. run \in [Requests -> Run] /\ job \in [JobIds -> Job]
  BY DEF SInv, TypeOK
<1>2. CASE \E q \in Requests : Client(q)
  <2>1. PICK q \in Requests, n \in Requests \cup {None, "own"} : Insert(q, n)
    BY <1>2 DEF Client, LookUp
  <2>2. /\ request[q].state = "looked"
        /\ run' = run \/ run' = [run EXCEPT ![q] = [status |-> "pending", version |-> 1]]
    BY <2>1 DEF Insert, Inserted
  <2>3. r = q
    BY <1>1, <2>2
  <2>4. QED BY <2>2, <2>3 DEF SInv, RequestOK
<1>3. ASSUME NEW j \in JobIds, NEW status, Written(j, status),
             job[j].status = "running", seen[j].status # "absent", job'[j].status = "succeeded",
             (j \in Events /\ status = event[j].status) \/
             (job[j].type = "execute_run" /\ status = "succeeded")
      PROVE  \E i \in JobIds : /\ Commits(i, r) /\ seen[i].version = run[r].version
                               /\ run'[r].version = run[r].version + 1
  <2>1. RunOf(j) \in Requests
    BY <1>3 DEF SInv, JobOK
  <2>2. RunOf(j) = r
    BY <1>1, <1>3, <2>1 DEF Written
  <2>3. run'[r].status = status /\ run'[r].version = run[r].version + 1
        /\ seen[j].version = run[r].version
    BY <1>1, <1>3, <2>1, <2>2 DEF Written
  <2>4. QED BY <1>3, <2>2, <2>3 DEF Commits
<1>4. ASSUME NEW j \in JobIds, Project(j)
      PROVE  \E i \in JobIds : /\ Commits(i, r) /\ seen[i].version = run[r].version
                               /\ run'[r].version = run[r].version + 1
  <2>1. Written(j, event[j].status) /\ job'[j].status = "succeeded"
    BY <1>1, <1>4 DEF Project, Done, Job
  <2>2. QED BY <1>3, <1>4, <2>1 DEF Project
<1>5. ASSUME NEW j \in JobIds, NEW E \in SUBSET Events, Execute(j, E)
      PROVE  \E i \in JobIds : /\ Commits(i, r) /\ seen[i].version = run[r].version
                               /\ run'[r].version = run[r].version + 1
  <2>1. j \notin E
    <3>1. j \in E => ~Exists(j)
      BY <1>5 DEF Execute, Fresh, SInv, EventOK
    <3>2. QED BY <1>5, <3>1 DEF Execute, Exists
  <2>2. job'[j].status = "succeeded"
    BY <1>1, <1>5, <2>1 DEF Execute, Projecting, Done, Job
  <2>3. QED BY <1>3, <1>5, <2>2 DEF Execute
<1>6. ASSUME NEW n \in Requests, DeleteRun(n) PROVE ~Present(r)'
  BY <1>1, <1>6 DEF DeleteRun, Present, NoRun
<1>7. QED
  BY <1>2, <1>4, <1>5, <1>6
     DEF Next, Work, Ingest, Lease, Compare, Fail, Stop, Cancel, Follow, Connect, Tell, Poll, Cut, GiveUp

\* What the handler of a job that goes on has read.
LEMMA ReadsStay ==
  ASSUME SInv, Next, NEW j \in JobIds, seen'[j].status # "absent"
  PROVE  /\ RunOf(j)' = RunOf(j)
         /\ \/ seen'[j] = seen[j]
            \/ UNCHANGED run /\ Present(RunOf(j)) /\ seen'[j] = run[RunOf(j)]
<1>1. /\ seen \in [JobIds -> Run] /\ job \in [JobIds -> Job] /\ event \in [Events -> Event]
      /\ seen[j].status # "absent" => Exists(j)
  BY DEF SInv, TypeOK, JobOK
<1>2. ASSUME UNCHANGED <<job, event, seen>> PROVE RunOf(j)' = RunOf(j) /\ seen'[j] = seen[j]
  BY <1>2 DEF RunOf
<1>3. CASE \E q \in Requests : Client(q)
  <2>1. PICK q \in Requests : Client(q)
    BY <1>3
  <2>2. UNCHANGED <<event, seen>>
    BY <2>1 DEF Client, LookUp, Insert
  <2>3. CASE UNCHANGED job
    BY <1>2, <2>2, <2>3
  <2>4. CASE \E n : request[q].state = "looked" /\ Inserted(q, n)
    <3>1. ~Exists(q)
      BY <2>4 DEF SInv, RequestOK
    <3>2. j # q
      BY <1>1, <2>2, <3>1
    <3>3. job'[j] = job[j]
      BY <1>1, <2>4, <3>2 DEF Inserted
    <3>4. QED BY <2>2, <3>3 DEF RunOf
  <2>5. QED BY <2>1, <2>3, <2>4 DEF Client, LookUp, Insert
<1>4. ASSUME NEW e \in Events, NEW n \in Requests, Ingest(e, n)
      PROVE  RunOf(j)' = RunOf(j) /\ seen'[j] = seen[j]
  <2>1. ~Exists(e) /\ UNCHANGED seen
    BY <1>4 DEF Ingest, Fresh, SInv, EventOK
  <2>2. j # e
    BY <1>1, <2>1
  <2>3. job'[j] = job[j] /\ (j \in Events => event'[j] = event[j])
    BY <1>4, <2>2 DEF Ingest, Ingested, Projecting
  <2>4. QED BY <2>1, <2>3 DEF RunOf
<1>5. ASSUME NEW i \in JobIds, Lease(i) \/ Compare(i) \/ Fail(i) \/ Stop(i) \/ Cancel(i) \/ Project(i)
      PROVE  /\ RunOf(j)' = RunOf(j)
             /\ \/ seen'[j] = seen[j]
                \/ UNCHANGED run /\ Present(RunOf(j)) /\ seen'[j] = run[RunOf(j)]
  <2>1. UNCHANGED event /\ job'[j].run = job[j].run
    BY <1>1, <1>5 DEF Lease, Compare, Fail, Stop, Cancel, Project, Done, Job
  <2>2. RunOf(j)' = RunOf(j)
    BY <2>1 DEF RunOf
  <2>3. CASE Lease(i)
    BY <1>1, <2>2, <2>3 DEF Lease, NoRun
  <2>4. CASE Compare(i) \/ Fail(i) \/ Stop(i) \/ Cancel(i) \/ Project(i)
    BY <1>1, <2>2, <2>4 DEF Compare, Fail, Stop, Cancel, Project, Closed, NoRun
  <2>5. QED BY <1>5, <2>3, <2>4
<1>6. ASSUME NEW i \in JobIds, NEW E \in SUBSET Events, Execute(i, E)
      PROVE  RunOf(j)' = RunOf(j) /\ seen'[j] = seen[j]
  <2>1. \A e \in E : ~Exists(e)
    BY <1>6 DEF Execute, Fresh, SInv, EventOK
  <2>2. seen'[j] = seen[j]
    BY <1>1, <1>6 DEF Execute, Closed, NoRun
  <2>3. j \notin E
    BY <1>1, <2>1, <2>2
  <2>4. job'[j].run = job[j].run /\ (j \in Events => event'[j] = event[j])
    BY <1>1, <1>6, <2>3 DEF Execute, Projecting, Done, Ingested, Job
  <2>5. QED BY <2>2, <2>4 DEF RunOf
<1>7. ASSUME NEW n \in Requests, DeleteRun(n) PROVE RunOf(j)' = RunOf(j) /\ seen'[j] = seen[j]
  <2>1. UNCHANGED <<job, seen>> /\ (j \in Events => event'[j].run = event[j].run)
    BY <1>1, <1>7 DEF DeleteRun, Event
  <2>2. QED BY <2>1 DEF RunOf
<1>8. ASSUME NEW c \in Streams, Follow(c) \/ Poll(c) \/ Cut(c) \/ GiveUp(c)
      PROVE  UNCHANGED <<job, event, seen>>
  BY <1>8 DEF Follow, Connect, Tell, Poll, Cut, GiveUp
<1>9. QED
  BY <1>2, <1>3, <1>4, <1>5, <1>6, <1>7, <1>8 DEF Next, Work

LEMMA ReadKept ==
  ASSUME SInv, SourceInv, SInv', [Next]_vars, NEW j \in JobIds, ReadOK(j)
  PROVE  ReadOK(j)'
<1>1. CASE UNCHANGED vars
  BY <1>1 DEF vars, ReadOK, Present, RunOf
<1>2. CASE Next
  <2>1. SUFFICES ASSUME seen'[j].status # "absent", Present(RunOf(j))' PROVE ReadOK(j)'
    BY DEF ReadOK
  <2> DEFINE r == RunOf(j)
  <2>2. /\ RunOf(j)' = r
        /\ seen'[j] = seen[j] \/ (UNCHANGED run /\ Present(r) /\ seen'[j] = run[r])
    BY <1>2, <2>1, ReadsStay
  <2>3. r \in Requests
    BY <2>1, <2>2 DEF SInv, JobOK
  <2>4. /\ run[r].version \in Nat /\ run'[r].version \in Nat /\ seen[j].version \in Nat
        /\ Present(r) <=> run[r].version # 0
    BY <2>3, RunServiceAssumption DEF SInv, TypeOK, Run, RunOK, Present, JobIds
  <2>5. CASE UNCHANGED run /\ Present(r) /\ seen'[j] = run[r]
    BY <2>2, <2>4, <2>5 DEF ReadOK
  <2>6. CASE seen'[j] = seen[j] /\ run'[r] = run[r]
    BY <2>1, <2>2, <2>6 DEF ReadOK, Present
  <2>7. CASE seen'[j] = seen[j] /\ run'[r] # run[r]
    <3>1. request[r].state = "done"
      BY <2>1, <2>7 DEF SourceInv, SeenSource
    <3>2. PICK i \in JobIds : /\ Commits(i, r) /\ seen[i].version = run[r].version
                              /\ run'[r].version = run[r].version + 1
      BY <1>2, <2>1, <2>2, <2>3, <2>7, <3>1, RowsChange DEF Present
    <3>3. Present(r)
      BY <2>4, <3>2 DEF SInv, JobOK, Commits
    <3>4. seen[j].version <= run[r].version
      BY <2>1, <2>7, <3>3 DEF ReadOK
    <3>5. QED BY <2>2, <2>4, <2>7, <3>2, <3>4 DEF ReadOK
  <2>8. QED BY <2>2, <2>5, <2>6, <2>7
<1>3. QED BY <1>1, <1>2

\* Where FinalStatusStays fails nothing is lost: whoever changes a run, final or
\* not, is a handler that commits, reports what its own event or execution says,
\* and had read the very row that it replaces (workers.py:240, workers.py:265).
THEOREM NoLostUpdate == Spec => [][\A r \in Requests : RunStep(r)]_vars
<1> DEFINE Reads == \A j \in JobIds : ReadOK(j)
<1>1. Init => Reads
  BY DEF Init, ReadOK, NoRun
<1>2. SInv /\ SInv' /\ SourceInv /\ Reads /\ [Next]_vars => Reads'
  BY ReadKept
<1>3. ASSUME SInv, Reads, Next, NEW r \in Requests PROVE RunStep(r)
  <2>1. SUFFICES ASSUME Present(r), Present(r)', run'[r] # run[r]
                 PROVE  \E j \in JobIds : Commits(j, r) /\ seen[j] = run[r]
    BY DEF RunStep
  <2>2. PICK j \in JobIds : Commits(j, r) /\ seen[j].version = run[r].version
    BY <1>3, <2>1, RowsChange
  <2>3. ReadOK(j)
    BY <1>3
  <2>4. QED BY <2>1, <2>2, <2>3 DEF ReadOK, Commits
<1>4. SInv /\ Reads /\ [Next]_vars => [\A r \in Requests : RunStep(r)]_vars
  BY <1>3
<1>5. Spec => []SourceInv
  BY SourceInvariance
<1> HIDE DEF Reads
<1>6. QED BY <1>1, <1>2, <1>4, <1>5, Inductive, PTL DEF Spec
=============================================================================
