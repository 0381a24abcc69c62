----------------------------- MODULE RunService -----------------------------
(***************************************************************************)
(* The service as its clients see it: POST /runs and POST /jobs with an    *)
(* Idempotency-Key, POST /events, the handlers of workers.py that write    *)
(* the status of a run, the removal of a run, and GET /runs/{id}/events,   *)
(* the stream of server-sent events with its client (api.py).              *)
(*                                                                         *)
(* Jobs are taken to live as JobLifecycle says, which JobQueue implements: *)
(* at most one worker commits a job, and what its handler wrote commits    *)
(* with it.  A run and a job carry the name of the request that inserted   *)
(* them, the job that projects an event the name of the event.             *)
(***************************************************************************)
EXTENDS Naturals

CONSTANTS
  Keys,         \* values of the Idempotency-Key header
  Requests,     \* POST /runs and POST /jobs requests
  Events,       \* events that may be ingested
  Streams,      \* clients that follow the status of a run
  Reports,      \* statuses that run.status events carry
  MaxAttempts,  \* max_attempts of a job
  MaxCuts,      \* how often a client's stream ends before a final status
  None

JobIds == Requests \cup Events

ASSUME RunServiceAssumption ==
  /\ MaxAttempts \in Nat \ {0}
  /\ MaxCuts \in Nat
  /\ None \notin JobIds \cup Keys
  /\ Requests \cap Events = {}
  /\ Keys \cap Events = {}
  /\ "own" \notin Requests
  /\ "absent" \notin Reports

VARIABLES
  request,  \* each request: how far it is and what it asks for
  answer,   \* the job and the run its response names
  job,      \* the jobs table
  run,      \* the runs table
  event,    \* the events table
  seen,     \* the run's row as the handler of a running job has read it
  stream    \* each client with the server's end of its stream

vars == <<request, answer, job, run, event, seen, stream>>

Final == {"succeeded", "failed", "cancelled", "dead_letter"}
RunStatuses == {"absent", "pending", "succeeded"} \cup Reports
JobStatuses == {"absent", "pending", "retry", "running", "succeeded",
                "cancelled", "dead_letter"}
Settled == {"succeeded", "cancelled", "dead_letter"}

Request == [state: {"new", "looked", "done"}, call: {"runs", "jobs"},
            type: {"execute_run", "comparison"}, key: Keys \cup {None},
            names: Requests \cup {None, "own"}]
Answer == [code: {"none", "accepted", "conflict", "unavailable", "error"},
           job: JobIds \cup {None}, run: Requests \cup {None}]
Job == [status: JobStatuses, attempts: Nat, cancel: BOOLEAN,
        type: {"execute_run", "comparison", "project_event"},
        key: Keys \cup Events \cup {None}, run: Requests \cup {None}]
Run == [status: RunStatuses, version: Nat]
Event == [stored: BOOLEAN, run: Requests \cup {None}, status: Reports]
Stream == [state: {"off", "on", "done"}, run: Requests \cup {None},
           previous: RunStatuses \cup {None}, sequence: Nat,
           last_id: Nat, known: RunStatuses \cup {None}, cuts: 0 .. MaxCuts]

NoAnswer == [code |-> "none", job |-> None, run |-> None]
NoJob == [status |-> "absent", attempts |-> 0, cancel |-> FALSE,
          type |-> "comparison", key |-> None, run |-> None]
NoRun == [status |-> "absent", version |-> 0]
NewJob(type, key, r) == [NoJob EXCEPT !.status = "pending", !.type = type,
                                      !.key = key, !.run = r]

Init ==
  /\ request = [q \in Requests |-> [state |-> "new", call |-> "runs",
                                    type |-> "execute_run", key |-> None,
                                    names |-> "own"]]
  /\ answer = [q \in Requests |-> NoAnswer]
  /\ job = [j \in JobIds |-> NoJob]
  /\ run = [r \in Requests |-> NoRun]
  /\ event \in [Events -> [stored: {FALSE}, run: {None}, status: Reports]]
  /\ seen = [j \in JobIds |-> NoRun]
  /\ stream = [c \in Streams |->
                 [state |-> "off", run |-> None, previous |-> None,
                  sequence |-> 0, last_id |-> 0, known |-> None, cuts |-> 0]]

-----------------------------------------------------------------------------
(* POST /runs and POST /jobs.                                              *)

Present(r) == r # None /\ run[r].status # "absent"

\* The job a key was used for; the unique constraint on (workspace_id,
\* idempotency_key) leaves at most one.
UsedBy(k) == {j \in JobIds : job[j].status # "absent" /\ job[j].key = k}

\* The replay of a key: the job it was used for, if it was used for the same
\* operation.  create_run needs the job's run as well, and fails if that was
\* deleted.
Replayed(call, type, j) ==
  CASE call = "jobs" /\ job[j].type # type -> [NoAnswer EXCEPT !.code = "conflict"]
    [] call = "jobs" /\ job[j].type = type -> [code |-> "accepted", job |-> j, run |-> None]
    [] call = "runs" /\ (job[j].type # "execute_run" \/ job[j].run = None) ->
         [NoAnswer EXCEPT !.code = "conflict"]
    [] OTHER -> IF Present(job[j].run)
                THEN [code |-> "accepted", job |-> j, run |-> job[j].run]
                ELSE [NoAnswer EXCEPT !.code = "error"]

\* create_run and create_job up to the look-up of the key, and the answer if
\* the key is known.
LookUp(q, call, type, k) ==
  /\ request[q].state = "new"
  /\ request' = [request EXCEPT ![q] =
                   [state |-> IF UsedBy(k) = {} THEN "looked" ELSE "done",
                    call |-> call, type |-> type, key |-> k, names |-> "own"]]
  /\ IF UsedBy(k) = {} THEN UNCHANGED answer
     ELSE answer' = [answer EXCEPT ![q] = Replayed(call, type, CHOOSE j \in UsedBy(k) : TRUE)]
  /\ UNCHANGED <<job, run, event, seen, stream>>

\* What a payload may name as its run: with POST /runs nothing ("own"), and
\* anything else it names is taken over; None is no run, and a request that is
\* done stands for the id of its run, which may be gone or may never have been.
Named(q) ==
  LET known == {None} \cup {r \in Requests : request[r].state = "done"} IN
  CASE request[q].call = "runs" -> known \cup {"own"}
    [] request[q].call = "jobs" /\ request[q].type = "execute_run" -> known
    [] OTHER -> {None}

\* The rows of a request whose job names run r: POST /runs inserts a run and
\* answers with it, whatever the job names.
Inserted(q, r) ==
  /\ job' = [job EXCEPT ![q] = NewJob(request[q].type, request[q].key, r)]
  /\ run' = IF request[q].call = "runs"
            THEN [run EXCEPT ![q] = [status |-> "pending", version |-> 1]] ELSE run
  /\ answer' = [answer EXCEPT ![q] =
                  [code |-> "accepted", job |-> q,
                   run |-> IF request[q].call = "runs" THEN q ELSE None]]

\* Faulty variant: without the unique constraint of jobs.
InsertTwice(q, n) ==
  /\ request[q].state = "looked" /\ n \in Named(q)
  /\ request' = [request EXCEPT ![q].state = "done", ![q].names = n]
  /\ Inserted(q, IF n = "own" THEN q ELSE n)
  /\ UNCHANGED <<event, seen, stream>>

\* The key was free: the job, and with POST /runs its run, are inserted in one
\* transaction.  If the key was used in the meantime, the unique constraint
\* fails the commit and the client is told to try again (503).
Insert(q, n) ==
  /\ request[q].state = "looked" /\ n \in Named(q)
  /\ request' = [request EXCEPT ![q].state = "done", ![q].names = n]
  /\ IF UsedBy(request[q].key) = {} THEN Inserted(q, IF n = "own" THEN q ELSE n)
     ELSE /\ answer' = [answer EXCEPT ![q].code = "unavailable"]
          /\ UNCHANGED <<job, run>>
  /\ UNCHANGED <<event, seen, stream>>

-----------------------------------------------------------------------------
(* Events and jobs.                                                        *)

\* EventIngestor.ingest for the events E of run r, with the project_event job
\* of each.
Ingested(E, r) == [e \in Events |-> IF e \in E THEN [event[e] EXCEPT !.stored = TRUE, !.run = r]
                                    ELSE event[e]]

\* Faulty variant: the job is not part of the transaction.
ProjectingLater(jobs, E) == jobs

Projecting(jobs, E) == [j \in JobIds |-> IF j \in E THEN NewJob("project_event", j, None)
                                         ELSE jobs[j]]
Fresh == {e \in Events : event[e].run = None}

\* POST /events.
Ingest(e, r) ==
  /\ e \in Fresh /\ Present(r)
  /\ event' = Ingested({e}, r)
  /\ job' = Projecting(job, {e})
  /\ UNCHANGED <<request, answer, run, seen, stream>>

RunOf(j) == IF j \in Events THEN event[j].run ELSE job[j].run

\* A worker leases the job, and the handler reads what it goes by.
Lease(j) ==
  /\ job[j].status \in {"pending", "retry"} /\ ~job[j].cancel
  /\ job' = [job EXCEPT ![j].status = "running", ![j].attempts = @ + 1]
  /\ seen' = [seen EXCEPT ![j] = IF Present(RunOf(j)) THEN run[RunOf(j)] ELSE NoRun]
  /\ UNCHANGED <<request, answer, run, event, stream>>

\* Faulty variant: the handler's writes are committed before the job is settled.
DoneLater(jobs, j) == jobs

Done(jobs, j) == [jobs EXCEPT ![j].status = "succeeded"]

\* The handler's session is closed.
Closed(j) == seen' = [seen EXCEPT ![j] = NoRun]

\* The commit of a changed run compares and increments its version.
Written(j, status) ==
  /\ run[RunOf(j)].version = seen[j].version
  /\ run' = [run EXCEPT ![RunOf(j)] = [status |-> status, version |-> @.version + 1]]

\* _project_event: the run takes the status the event reports.  An assignment
\* that changes nothing is not written, and a run that went away after its event
\* was read is passed over.
Project(j) ==
  /\ j \in Events /\ job[j].status = "running" /\ ~job[j].cancel
  /\ seen[j].status # "absent"
  /\ IF seen[j].status = event[j].status \/ ~Present(event[j].run) THEN UNCHANGED run
     ELSE Written(j, event[j].status)
  /\ job' = Done(job, j)
  /\ Closed(j)
  /\ UNCHANGED <<request, answer, event, stream>>

\* _execute_run: the events of the payload are ingested and the run has
\* succeeded, in one transaction.
Execute(j, E) ==
  /\ job[j].type = "execute_run" /\ job[j].status = "running" /\ ~job[j].cancel
  /\ seen[j].status # "absent" /\ E \subseteq Fresh
  /\ Written(j, "succeeded")
  /\ event' = Ingested(E, RunOf(j))
  /\ job' = Projecting(Done(job, j), E)
  /\ Closed(j)
  /\ UNCHANGED <<request, answer, stream>>

\* _comparison, which writes into its own payload only.
Compare(j) ==
  /\ job[j].type = "comparison" /\ job[j].status = "running" /\ ~job[j].cancel
  /\ job' = Done(job, j)
  /\ Closed(j)
  /\ UNCHANGED <<request, answer, run, event, stream>>

\* Faulty variant: a job fails with the status of a run that fails.
FailAsRun(j) ==
  /\ job[j].status = "running"
  /\ job' = [job EXCEPT ![j].status = IF job[j].attempts < MaxAttempts THEN "retry" ELSE "failed"]
  /\ Closed(j)
  /\ UNCHANGED <<request, answer, run, event, stream>>

\* The handler raises, its row is stale, or its worker is lost.
Fail(j) ==
  /\ job[j].status = "running"
  /\ job' = [job EXCEPT ![j].status = IF job[j].attempts < MaxAttempts THEN "retry" ELSE "dead_letter"]
  /\ Closed(j)
  /\ UNCHANGED <<request, answer, run, event, stream>>

\* A running job whose cancellation was asked for ends without effects.
Stop(j) ==
  /\ job[j].status = "running" /\ job[j].cancel
  /\ job' = [job EXCEPT ![j].status = "cancelled"]
  /\ Closed(j)
  /\ UNCHANGED <<request, answer, run, event, stream>>

\* POST /jobs/{id}/cancel.
Cancel(j) ==
  /\ job[j].status # "absent" /\ ~job[j].cancel
  /\ job' = [job EXCEPT ![j].cancel = TRUE,
                        ![j].status = IF @ \in {"pending", "retry"} THEN "cancelled" ELSE @]
  /\ UNCHANGED <<request, answer, run, event, seen, stream>>

\* delete_run of retention.py: the run goes with its events; the jobs stay.
DeleteRun(r) ==
  /\ Present(r)
  /\ run' = [run EXCEPT ![r] = NoRun]
  /\ event' = [e \in Events |-> [event[e] EXCEPT !.stored = @ /\ event[e].run # r]]
  /\ UNCHANGED <<request, answer, job, seen, stream>>

-----------------------------------------------------------------------------
(* GET /runs/{id}/events and its client.                                   *)

\* Faulty variant: the server takes it that the client knows the status.
ConnectInformed(c, r) ==
  /\ stream[c].state = "off" /\ stream[c].run \in {None, r}
  /\ Present(r) \/ stream[c].run = r
  /\ stream' = [stream EXCEPT ![c].state = "on", ![c].run = r, ![c].sequence = stream[c].last_id,
                              ![c].previous = IF stream[c].run = r THEN run[r].status ELSE None]
  /\ UNCHANGED <<request, answer, job, run, event, seen>>

\* Faulty variant: the server ignores Last-Event-ID.
ConnectAnew(c, r) ==
  /\ stream[c].state = "off" /\ stream[c].run \in {None, r}
  /\ Present(r) \/ stream[c].run = r
  /\ stream' = [stream EXCEPT ![c].state = "on", ![c].run = r, ![c].previous = None,
                              ![c].sequence = 0]
  /\ UNCHANGED <<request, answer, job, run, event, seen>>

\* stream_status: the server counts on from Last-Event-ID and knows nothing of
\* what the client was told before.
Connect(c, r) ==
  /\ stream[c].state = "off" /\ stream[c].run \in {None, r}
  /\ Present(r) \/ stream[c].run = r
  /\ stream' = [stream EXCEPT ![c].state = "on", ![c].run = r, ![c].previous = None,
                              ![c].sequence = stream[c].last_id]
  /\ UNCHANGED <<request, answer, job, run, event, seen>>

\* A round of the loop of status_stream that yields something: the new status,
\* or that there is no such run.
Tell(c) ==
  LET status == run[stream[c].run].status
      next == stream[c].sequence + 1
  IN
  /\ stream[c].state = "on" /\ status # stream[c].previous
  /\ stream' = [stream EXCEPT
       ![c] = IF status = "absent"
              THEN [@ EXCEPT !.state = "done", !.known = status]
              ELSE [@ EXCEPT !.state = IF status \in Final THEN "done" ELSE "on",
                             !.known = status, !.previous = status,
                             !.sequence = next, !.last_id = next]]
  /\ UNCHANGED <<request, answer, job, run, event, seen>>

\* The connection is lost, with the event that was on its way if there was one.
Cut(c) ==
  /\ stream[c].state = "on" /\ stream[c].cuts < MaxCuts
  /\ stream' = [stream EXCEPT ![c].state = "off", ![c].cuts = @ + 1]
  /\ UNCHANGED <<request, answer, job, run, event, seen>>

\* After sixty rounds the stream ends with the advice to poll, under an id of
\* its own.
GiveUp(c) ==
  /\ stream[c].state = "on" /\ stream[c].cuts < MaxCuts
  /\ stream' = [stream EXCEPT ![c].state = "off", ![c].cuts = @ + 1,
                              ![c].last_id = stream[c].sequence + 1]
  /\ UNCHANGED <<request, answer, job, run, event, seen>>

\* GET /runs/{id}, to which a client falls back after a stream that ended early.
Poll(c) ==
  LET status == run[stream[c].run].status IN
  /\ stream[c].state = "off" /\ stream[c].run # None
  /\ stream' = [stream EXCEPT ![c].known = status,
                              ![c].state = IF status \in Final \cup {"absent"} THEN "done" ELSE "off"]
  /\ UNCHANGED <<request, answer, job, run, event, seen>>

-----------------------------------------------------------------------------
Client(q) ==
  \/ \E k \in Keys : \/ LookUp(q, "runs", "execute_run", k)
                     \/ \E t \in {"execute_run", "comparison"} : LookUp(q, "jobs", t, k)
  \/ \E n \in Requests \cup {None, "own"} : Insert(q, n)

Work(j) == Lease(j) \/ Project(j) \/ Compare(j) \/ Fail(j) \/ Stop(j)
           \/ \E E \in SUBSET Events : Execute(j, E)

Follow(c) == Tell(c) \/ \E r \in Requests : Connect(c, r)

Next ==
  \/ \E q \in Requests : Client(q)
  \/ \E e \in Events, r \in Requests : Ingest(e, r)
  \/ \E j \in JobIds : Work(j) \/ Cancel(j)
  \/ \E r \in Requests : DeleteRun(r)
  \/ \E c \in Streams : Follow(c) \/ Poll(c) \/ Cut(c) \/ GiveUp(c)

Spec == Init /\ [][Next]_vars

\* Streams are served, and a client whose stream ended early connects again.
FairSpec == Spec /\ \A c \in Streams : WF_vars(Follow(c))

-----------------------------------------------------------------------------
(* Properties.                                                             *)

TypeOK ==
  /\ request \in [Requests -> Request]
  /\ answer \in [Requests -> Answer]
  /\ job \in [JobIds -> Job]
  /\ run \in [Requests -> Run]
  /\ event \in [Events -> Event]
  /\ seen \in [JobIds -> Run]
  /\ stream \in [Streams -> Stream]

\* However requests with one key race, those that are accepted name one job,
\* and those of POST /runs one run, even if it is deleted meanwhile: only the
\* request that inserted the job may name another than the replays do, namely
\* when its payload named a run (api.py:196, api.py:223, api.py:302).
AnswersAgree ==
  \A p, q \in Requests :
    (/\ answer[p].code = "accepted" /\ answer[q].code = "accepted"
     /\ request[p].key = request[q].key)
    => LET j == answer[p].job IN
       /\ j = answer[q].job
       /\ (/\ request[p].call = "runs" /\ request[q].call = "runs"
           /\ j \notin {p, q} \/ request[j].names = "own")
          => answer[p].run = answer[q].run

\* A run exists only with its job, which executes it unless the payload named
\* another run, and a report only with the job that projects it: neither can be
\* forgotten (api.py:215, ingestion.py:191).
NothingForgotten ==
  /\ \A q \in Requests : Present(q) =>
       /\ job[q].status # "absent" /\ job[q].type = "execute_run"
       /\ job[q].run = IF request[q].names = "own" THEN q ELSE request[q].names
  /\ \A e \in Events : event[e].stored =>
       job[e].status # "absent" /\ Present(event[e].run)

HasCommitted(r, status) ==
  \E j \in JobIds :
    /\ job[j].status = "succeeded" /\ RunOf(j) = r
    /\ \/ j \in Events /\ event[j].status = status
       \/ job[j].type = "execute_run" /\ status = "succeeded"

\* The status of a run is "pending" until a handler has committed one, and
\* then one that a handler has committed, however handlers raced and failed
\* (workers.py:240, workers.py:265).
StatusHasSource ==
  \A r \in Requests : Present(r) =>
    \/ HasCommitted(r, run[r].status)
    \/ run[r].status = "pending" /\ \A status \in RunStatuses : ~HasCommitted(r, status)

\* Whatever a client is told comes under a higher id than anything it was told
\* before, over all its connections (api.py:403, api.py:420).
IdsIncrease ==
  [][\A c \in Streams :
       /\ stream'[c].last_id >= stream[c].last_id
       /\ stream'[c].previous \notin {None, stream[c].previous}
          => stream'[c].last_id > stream[c].last_id]_vars

\* A client that keeps following a run ends up knowing its status, or was told
\* a final one, whatever was lost on the way (api.py:405).
ClientLearns ==
  \A c \in Streams :
    <>[](stream[c].run # None =>
           \/ stream[c].known = run[stream[c].run].status
           \/ stream[c].state = "done" /\ stream[c].known \in Final)

\* The stream ends at a final status and polling_response stops advising to
\* poll: a final status should be the last (api.py:232, api.py:423).
FinalStatusStays ==
  [][\A r \in Requests : run[r].status \in Final /\ Present(r)'
                         => run'[r].status = run[r].status]_vars

=============================================================================
