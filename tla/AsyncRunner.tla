---------------------------- MODULE AsyncRunner ----------------------------
(***************************************************************************)
(* blackbox/runtime/runner.py: one run of AsyncRunner over a list of       *)
(* cases.  Each case is an asyncio task that waits for a slot, then talks  *)
(* to the adapter under one deadline for all of its attempts and pauses.   *)
(* A task runs without interruption between two awaits; the adapter        *)
(* answers, fails or stays silent as it likes.                             *)
(***************************************************************************)
EXTENDS Naturals, FiniteSets

CONSTANTS
  Cases,       \* the cases of the run
  Slots,       \* RunnerConfig.concurrency
  MaxRetries,  \* RunnerConfig.max_retries
  Messages,    \* the number of messages of a case
  Threads      \* does the adapter run the agent in a thread, which goes on
               \* when the task that awaits it is cancelled (in_process.py)?

ASSUME RunnerAssumption ==
  /\ IsFiniteSet(Cases)
  /\ Slots \in Nat \ {0} /\ MaxRetries \in Nat /\ Messages \in Nat
  /\ Threads \in BOOLEAN

VARIABLES
  at,           \* where each task is: the call it awaits
  tries,        \* attempts of each case
  sent,         \* messages sent in this attempt
  outcome,      \* status of each case's CaseExecution
  interrupted,  \* tasks that will find CancelledError at their await
  busy,         \* cases whose agent is at work
  cancel,       \* the _cancel event
  run,          \* where run() is
  report        \* status of the ExecutionRun

vars == <<at, tries, sent, outcome, interrupted, busy, cancel, run, report>>

Init ==
  /\ at = [c \in Cases |-> "queued"]
  /\ tries = [c \in Cases |-> 0]
  /\ sent = [c \in Cases |-> 0]
  /\ outcome = [c \in Cases |-> "none"]
  /\ interrupted = {}
  /\ busy = {}
  /\ cancel = FALSE
  /\ run = "gathering"
  /\ report = "none"

-----------------------------------------------------------------------------
(* A case.                                                                 *)

Calls == {"prepare", "start", "send", "finish"}
Executing == {c \in Cases : at[c] \in Calls \cup {"backoff"}}
Running(c) == c \in Executing /\ c \notin interrupted

Goto(c, a) == at' = [at EXCEPT ![c] = a]

\* The task returns its CaseExecution, or ends without one.
Settle(c, o) ==
  /\ Goto(c, "over")
  /\ outcome' = [outcome EXCEPT ![c] = o]
  /\ interrupted' = interrupted \ {c}

\* Faulty variant: the loop does not look at _cancel again.
AttemptAnyway(c) ==
  /\ tries' = [tries EXCEPT ![c] = @ + 1]
  /\ sent' = [sent EXCEPT ![c] = 0]
  /\ Goto(c, "prepare") /\ UNCHANGED <<outcome, interrupted>>

\* The loop of _execute: count the attempt, look at _cancel, call prepare.
Attempt(c) ==
  /\ tries' = [tries EXCEPT ![c] = @ + 1]
  /\ sent' = [sent EXCEPT ![c] = 0]
  /\ IF cancel THEN Settle(c, "cancelled")
     ELSE Goto(c, "prepare") /\ UNCHANGED <<outcome, interrupted>>

\* Faulty variant: a semaphore with one slot too many.
FreeSlotExtra == Cardinality(Executing) <= Slots

FreeSlot == Cardinality(Executing) < Slots

Admit(c) ==
  /\ at[c] = "queued" /\ c \notin interrupted /\ FreeSlot
  /\ IF cancel THEN Settle(c, "cancelled") /\ UNCHANGED <<tries, sent>>
     ELSE Attempt(c)
  /\ UNCHANGED <<busy, cancel, run, report>>

\* The next message, if there is one and nobody has cancelled, or the end of
\* the conversation.
Proceed(c) ==
  IF sent[c] = Messages
  THEN /\ Goto(c, "finish")
       /\ busy' = busy \ {c}
       /\ UNCHANGED <<sent, outcome, interrupted>>
  ELSE IF cancel
  THEN /\ Settle(c, "cancelled")
       /\ busy' = busy \ {c}
       /\ UNCHANGED sent
  ELSE /\ Goto(c, "send")
       /\ sent' = [sent EXCEPT ![c] = @ + 1]
       /\ busy' = busy \cup {c}
       /\ UNCHANGED <<outcome, interrupted>>

\* The awaited call returns; what finish returns becomes the trace, which may
\* turn out to be invalid.
Answer(c) ==
  /\ Running(c)
  /\ \/ /\ at[c] = "prepare" /\ Goto(c, "start")
        /\ UNCHANGED <<sent, outcome, interrupted, busy>>
     \/ at[c] \in {"start", "send"} /\ Proceed(c)
     \/ /\ at[c] = "finish" /\ \E o \in {"completed", "failed"} : Settle(c, o)
        /\ UNCHANGED <<sent, busy>>
  /\ UNCHANGED <<tries, cancel, run, report>>

\* Faulty variant: one retry too many.
TriedTooOften(c) == tries[c] > MaxRetries + 1

TriedOut(c) == tries[c] > MaxRetries

TransientError(c) ==
  /\ Running(c) /\ at[c] \in Calls
  /\ IF TriedOut(c) THEN Settle(c, "failed")
     ELSE Goto(c, "backoff") /\ UNCHANGED <<outcome, interrupted>>
  /\ busy' = busy \ {c}
  /\ UNCHANGED <<tries, sent, cancel, run, report>>

Wake(c) ==
  /\ Running(c) /\ at[c] = "backoff"
  /\ Attempt(c)
  /\ UNCHANGED <<busy, cancel, run, report>>

PermanentError(c) ==
  /\ Running(c) /\ at[c] \in Calls
  /\ Settle(c, "failed")
  /\ busy' = busy \ {c}
  /\ UNCHANGED <<tries, sent, cancel, run, report>>

\* What becomes of the agent when the task that awaits it is interrupted.
Abandoned(c) == IF Threads THEN busy ELSE busy \ {c}

\* Faulty variant: a deadline for send only.
TimeoutOfSend(c) ==
  /\ Running(c) /\ at[c] = "send"
  /\ Settle(c, "timed_out")
  /\ busy' = Abandoned(c)
  /\ UNCHANGED <<tries, sent, cancel, run, report>>

Timeout(c) ==
  /\ Running(c)
  /\ Settle(c, "timed_out")
  /\ busy' = Abandoned(c)
  /\ UNCHANGED <<tries, sent, cancel, run, report>>

\* Faulty variant: every CancelledError is taken for a cancelled case.
UnwoundAlways == "cancelled"

\* CancelledError is a result if _cancel is set and ends the task otherwise.
Unwound == IF cancel THEN "cancelled" ELSE "none"

\* It comes from a task of the adapter's own that was cancelled.
AdapterCancelled(c) ==
  /\ Running(c) /\ at[c] \in Calls
  /\ Settle(c, Unwound)
  /\ busy' = Abandoned(c)
  /\ UNCHANGED <<tries, sent, cancel, run, report>>

\* Or from task.cancel(), which also ends the wait for a slot.
Interrupt(c) ==
  /\ c \in interrupted
  /\ Settle(c, IF at[c] = "queued" THEN "none" ELSE Unwound)
  /\ busy' = Abandoned(c)
  /\ UNCHANGED <<tries, sent, cancel, run, report>>

\* A thread nobody waits for comes to its end.
AgentEnds(c) ==
  /\ c \in busy /\ at[c] = "over"
  /\ busy' = busy \ {c}
  /\ UNCHANGED <<at, tries, sent, outcome, interrupted, cancel, run, report>>

-----------------------------------------------------------------------------
(* run().                                                                  *)

Pending == {c \in Cases : at[c] # "over"}
Lost == {c \in Cases : at[c] = "over" /\ outcome[c] = "none"}

\* cancel().
Cancel ==
  /\ ~cancel /\ cancel' = TRUE
  /\ UNCHANGED <<at, tries, sent, outcome, interrupted, busy, run, report>>

\* Whoever awaits run() is cancelled: gather passes it on to the tasks.
RunCancelled ==
  /\ run = "gathering"
  /\ interrupted' = Pending
  /\ run' = "breaking"
  /\ UNCHANGED <<at, tries, sent, outcome, busy, cancel, report>>

Gathered ==
  /\ run = "gathering" /\ Pending = {} /\ Lost = {}
  /\ run' = "closing"
  /\ UNCHANGED <<at, tries, sent, outcome, interrupted, busy, cancel, report>>

\* gather raises CancelledError with the first task that was cancelled; run
\* cancels the others.
GatherRaises ==
  /\ \/ run \in {"gathering", "breaking"} /\ Lost # {}
     \/ run = "breaking" /\ Pending = {}
  /\ cancel' = TRUE
  /\ interrupted' = Pending
  /\ run' = "draining"
  /\ UNCHANGED <<at, tries, sent, outcome, busy, report>>

\* Faulty variant: the tasks are cancelled and not awaited.
DrainedAtOnce ==
  /\ run = "draining"
  /\ run' = "raising"
  /\ UNCHANGED <<at, tries, sent, outcome, interrupted, busy, cancel, report>>

Drained ==
  /\ run = "draining" /\ Pending = {}
  /\ run' = "raising"
  /\ UNCHANGED <<at, tries, sent, outcome, interrupted, busy, cancel, report>>

\* The status of the run.
Status(statuses) ==
  IF statuses = {"completed"} THEN "completed"
  ELSE IF statuses \subseteq {"failed", "timed_out"} THEN "failed"
  ELSE IF statuses = {"cancelled"} THEN "cancelled"
  ELSE "partial"

\* The adapter is closed in any case; if that raises, there is no result.
Close ==
  /\ \/ /\ run = "closing" /\ run' = "reported"
        /\ report' = Status({outcome[c] : c \in Cases})
     \/ /\ run \in {"closing", "raising"} /\ run' = "raised"
        /\ UNCHANGED report
  /\ UNCHANGED <<at, tries, sent, outcome, interrupted, busy, cancel>>

RunOver == run \in {"reported", "raised"}

\* Nothing is left to do.
Terminated == RunOver /\ busy = {} /\ cancel /\ UNCHANGED vars

Next ==
  \/ Cancel \/ RunCancelled \/ Gathered \/ GatherRaises \/ Drained \/ Close \/ Terminated
  \/ \E c \in Cases : \/ Admit(c) \/ Answer(c) \/ Wake(c) \/ Timeout(c)
                      \/ TransientError(c) \/ PermanentError(c) \/ AdapterCancelled(c)
                      \/ Interrupt(c) \/ AgentEnds(c)

Spec == Init /\ [][Next]_vars

\* The event loop runs what is ready, timers fire, and close returns; nothing
\* is asked of the adapter's other calls or of the agents.
Fairness ==
  /\ WF_vars(Gathered) /\ WF_vars(GatherRaises) /\ WF_vars(Drained) /\ WF_vars(Close)
  /\ \A c \in Cases : WF_vars(Admit(c)) /\ WF_vars(Timeout(c)) /\ WF_vars(Interrupt(c))

FairSpec == Spec /\ Fairness

-----------------------------------------------------------------------------
TypeOK ==
  /\ at \in [Cases -> Calls \cup {"queued", "backoff", "over"}]
  /\ tries \in [Cases -> 0 .. MaxRetries + 1]
  /\ sent \in [Cases -> 0 .. Messages]
  /\ outcome \in [Cases -> {"none", "completed", "failed", "timed_out", "cancelled"}]
  /\ interrupted \subseteq Cases /\ busy \subseteq Cases
  /\ cancel \in BOOLEAN
  /\ run \in {"gathering", "breaking", "draining", "closing", "raising", "reported", "raised"}
  /\ report \in {"none", "completed", "failed", "cancelled", "partial"}

(* No more agents are at work than RunnerConfig.concurrency allows, deadlines *)
(* and cancellations included.                                               *)
BoundedAgents == Cardinality(busy) <= Slots

(* What the semaphore does guarantee, threads or not: so many cases at most  *)
(* wait for an agent, and an agent nobody waits for was left behind by a     *)
(* deadline or a cancellation.                                               *)
BoundedWaiting ==
  /\ Cardinality(busy \cap Executing) <= Slots
  /\ \A c \in busy \ Executing : outcome[c] \in {"timed_out", "cancelled", "none"}

(* The adapter is closed after the last task has ended, however run() ends:  *)
(* no case talks to a closed adapter.                                        *)
ClosedLast == RunOver => Pending = {}

(* Once cancellation was asked for, no case sends a message or makes a new   *)
(* attempt; calls under way may end.                                         *)
NothingNewAfterCancel ==
  [][cancel => \A c \in Cases : /\ sent'[c] <= sent[c]
                                /\ tries'[c] # tries[c] => at'[c] = "over"]_vars

(* Cases are settled once and for all and the run's status follows from all  *)
(* of them: see RunReport.                                                   *)
Report == INSTANCE RunReport
            WITH asked <- cancel,
                 report <- IF run = "raised" THEN "raised" ELSE report
ImplementsRunReport == Report!Spec

(* A run ends even if the adapter never answers: the deadline of each case   *)
(* covers every call it awaits.                                              *)
EventuallyOver == <>RunOver
=============================================================================
