------------------------- MODULE AsyncRunnerProofs -------------------------
(***************************************************************************)
(* Proofs about the runner, for any number of cases, slots, retries and    *)
(* messages: types, the order of its shutdown, the bound on agents at      *)
(* work, what cancellation stops, and that it implements RunReport.        *)
(***************************************************************************)
EXTENDS AsyncRunner, FiniteSetTheorems, TLAPS

\* A case with an outcome is over, nobody interrupts it, and it was cancelled
\* only on request; a case that tries again has a retry left.
CaseOK(c) ==
  /\ outcome[c] # "none" => at[c] = "over"
  /\ outcome[c] = "cancelled" => cancel
  /\ c \in interrupted => at[c] # "over"
  /\ at[c] = "queued" => tries[c] = 0
  /\ at[c] = "backoff" => tries[c] <= MaxRetries

\* What has to be over before run() goes on.
RunOK ==
  /\ run \in {"closing", "raising", "reported", "raised"} => Pending = {}
  /\ run \in {"closing", "reported"} => Lost = {}
  /\ report = "none" <=> run # "reported"

RInv ==
  /\ TypeOK
  /\ \A c \in Cases : CaseOK(c)
  /\ RunOK

CaseActions(c) ==
  \/ Admit(c) \/ Answer(c) \/ Wake(c) \/ Timeout(c)
  \/ TransientError(c) \/ PermanentError(c) \/ AdapterCancelled(c) \/ Interrupt(c)

RunActions ==
  \/ Cancel \/ RunCancelled \/ Gathered \/ GatherRaises \/ Drained \/ Close

Ats == Calls \cup {"queued", "backoff", "over"}

-----------------------------------------------------------------------------
(* Steps.                                                                  *)

\* What one step of a task does to its own case; the other cases, cancel,
\* run and report stay as they are.
CaseStep(c) ==
  /\ at[c] # "over"
  /\ at' = [at EXCEPT ![c] = at'[c]] /\ at'[c] \in Ats \ {"queued"}
  /\ tries' = [tries EXCEPT ![c] = tries'[c]]
  /\ sent' = [sent EXCEPT ![c] = sent'[c]]
  /\ outcome' = [outcome EXCEPT ![c] = outcome'[c]]
  /\ tries'[c] \in 0 .. MaxRetries + 1 /\ sent'[c] \in 0 .. Messages
  /\ at'[c] = "backoff" => tries'[c] <= MaxRetries
  /\ outcome'[c] \in {"none", "completed", "failed", "timed_out", "cancelled"}
  /\ outcome'[c] # "none" => at'[c] = "over"
  /\ outcome'[c] = "cancelled" => cancel
  /\ interrupted' = IF at'[c] = "over" THEN interrupted \ {c} ELSE interrupted
  /\ busy' \subseteq busy \cup {c}
  /\ UNCHANGED <<cancel, run, report>>

\* Every action of a task is such a step.
LEMMA CaseSteps ==
  ASSUME RInv, NEW c \in Cases, CaseActions(c)
  PROVE  CaseStep(c)
<1> USE RunnerAssumption DEF CaseStep, Settle, Goto, Ats, Calls
<1>1. /\ at[c] \in Ats /\ tries[c] \in 0 .. MaxRetries + 1 /\ sent[c] \in 0 .. Messages
      /\ at \in [Cases -> Ats] /\ tries \in [Cases -> 0 .. MaxRetries + 1]
      /\ sent \in [Cases -> 0 .. Messages]
      /\ outcome \in [Cases -> {"none", "completed", "failed", "timed_out", "cancelled"}]
      /\ CaseOK(c)
  BY DEF RInv, TypeOK
<1>2. at[c] # "over" => outcome[c] = "none"
  BY <1>1 DEF CaseOK
<1>3. ASSUME Attempt(c), at[c] \in {"queued", "backoff"},
             UNCHANGED <<busy, cancel, run, report>>
      PROVE  CaseStep(c)
  BY <1>1, <1>2, <1>3 DEF Attempt, CaseOK
<1>4. CASE Admit(c)
  BY <1>1, <1>2, <1>3, <1>4 DEF Admit
<1>5. CASE Answer(c)
  BY <1>1, <1>2, <1>5 DEF Answer, Proceed, Running, Executing
<1>6. CASE Wake(c)
  BY <1>3, <1>6 DEF Wake
<1>7. CASE TransientError(c)
  BY <1>1, <1>2, <1>7 DEF TransientError, TriedOut, Running, Executing
<1>8. CASE Timeout(c) \/ PermanentError(c) \/ AdapterCancelled(c) \/ Interrupt(c)
  BY <1>1, <1>2, <1>8
     DEF Timeout, PermanentError, AdapterCancelled, Interrupt, Unwound, Abandoned,
         Running, Executing, CaseOK
<1>9. QED BY <1>4, <1>5, <1>6, <1>7, <1>8 DEF CaseActions

\* Steps of the runner leave every case where it is.
LEMMA RunSteps ==
  ASSUME RunActions \/ Terminated \/ UNCHANGED vars \/ \E c \in Cases : AgentEnds(c)
  PROVE  UNCHANGED <<at, tries, sent, outcome>> /\ (cancel => cancel') /\ busy' \subseteq busy
BY DEF RunActions, Cancel, RunCancelled, Gathered, GatherRaises, Drained, Close,
       Terminated, AgentEnds, vars

\* A step is one of the two.
LEMMA AllSteps ==
  ASSUME RInv, [Next]_vars
  PROVE  \/ \E c \in Cases : CaseStep(c)
         \/ RunActions \/ Terminated \/ UNCHANGED vars \/ \E c \in Cases : AgentEnds(c)
BY CaseSteps DEF Next, CaseActions, RunActions

-----------------------------------------------------------------------------
(* The invariant.                                                          *)

\* Statuses of a run.
LEMMA StatusType ==
  ASSUME NEW S PROVE Status(S) \in {"completed", "failed", "cancelled", "partial"}
BY DEF Status

\* A step of a task keeps the invariant.
LEMMA CaseStepInvariant ==
  ASSUME RInv, NEW c \in Cases, CaseStep(c)
  PROVE  RInv'
<1> USE DEF CaseStep
<1>1. TypeOK'
  BY DEF RInv, TypeOK, Ats, Calls
<1>2. ASSUME NEW d \in Cases PROVE CaseOK(d)'
  <2>1. CASE d = c
    BY <2>1 DEF RInv, TypeOK, CaseOK
  <2>2. CASE d # c
    BY <2>2 DEF RInv, TypeOK, CaseOK
  <2>3. QED BY <2>1, <2>2
<1>3. RunOK'
  <2>1. Pending # {}
    BY DEF Pending
  <2>2. QED BY <2>1 DEF RInv, RunOK
<1>4. QED BY <1>1, <1>2, <1>3 DEF RInv

\* So does a step of the runner.
LEMMA RunStepInvariant ==
  ASSUME RInv, RunActions \/ Terminated \/ UNCHANGED vars \/ \E c \in Cases : AgentEnds(c)
  PROVE  RInv'
<1>1. /\ UNCHANGED <<at, tries, sent, outcome>> /\ (cancel => cancel')
      /\ Pending' = Pending /\ Lost' = Lost
  BY RunSteps DEF Pending, Lost
<1>2. TypeOK'
  <2>1. CASE Close
    BY <1>1, <2>1, StatusType DEF RInv, TypeOK, Close
  <2>2. CASE Cancel \/ RunCancelled \/ Gathered \/ GatherRaises \/ Drained
    BY <1>1, <2>2 DEF RInv, TypeOK, Cancel, RunCancelled, Gathered, GatherRaises, Drained,
                      Pending
  <2>3. CASE Terminated \/ UNCHANGED vars \/ \E c \in Cases : AgentEnds(c)
    BY <2>3 DEF RInv, TypeOK, Terminated, AgentEnds, vars
  <2>4. QED BY <2>1, <2>2, <2>3 DEF RunActions
<1>3. ASSUME NEW c \in Cases PROVE CaseOK(c)'
  <2>1. c \in interrupted' => at[c] # "over"
    BY DEF RunActions, Cancel, RunCancelled, Gathered, GatherRaises, Drained, Close,
           Terminated, AgentEnds, vars, RInv, CaseOK, Pending
  <2>2. QED BY <1>1, <2>1 DEF RInv, CaseOK
<1>4. RunOK'
  <2>1. CASE Close
    BY <1>1, <2>1, StatusType DEF RInv, RunOK, Close
  <2>2. CASE Cancel \/ RunCancelled \/ Gathered \/ GatherRaises \/ Drained
    BY <1>1, <2>2 DEF RInv, RunOK, Cancel, RunCancelled, Gathered, GatherRaises, Drained
  <2>3. CASE Terminated \/ UNCHANGED vars \/ \E c \in Cases : AgentEnds(c)
    BY <1>1, <2>3 DEF RInv, RunOK, Terminated, AgentEnds, vars
  <2>4. QED BY <2>1, <2>2, <2>3 DEF RunActions
<1>5. QED BY <1>2, <1>3, <1>4 DEF RInv

\* The invariant holds of every reachable state.
THEOREM RunnerInvariance == Spec => []RInv
<1>1. Init => RInv
  <2> SUFFICES ASSUME Init PROVE RInv
    OBVIOUS
  <2>1. TypeOK
    <3>1. 0 \in 0 .. MaxRetries + 1 /\ 0 \in 0 .. Messages
      BY RunnerAssumption
    <3>2. QED BY <3>1 DEF Init, TypeOK
  <2>2. ASSUME NEW c \in Cases PROVE CaseOK(c)
    BY DEF Init, CaseOK
  <2>3. RunOK
    BY DEF Init, RunOK
  <2>4. QED BY <2>1, <2>2, <2>3 DEF RInv
<1>2. RInv /\ [Next]_vars => RInv'
  BY AllSteps, CaseStepInvariant, RunStepInvariant
<1>3. QED BY <1>1, <1>2, PTL DEF Spec

\* Every variable keeps its type; no case is tried more often than allowed.
THEOREM RunnerTypeCorrect == Spec => []TypeOK
BY RunnerInvariance, PTL DEF RInv

\* The adapter is closed after the last task has ended.
THEOREM AdapterClosedLast == Spec => []ClosedLast
<1>1. RInv => ClosedLast
  BY DEF RInv, RunOK, ClosedLast, RunOver
<1>2. QED BY <1>1, RunnerInvariance, PTL

-----------------------------------------------------------------------------
(* Cancellation.                                                           *)

\* After cancel() no case sends a message and none makes a further attempt.
THEOREM CancellationStopsNewWork == Spec => NothingNewAfterCancel
<1>1. ASSUME RInv, [Next]_vars, cancel, NEW d \in Cases
      PROVE  sent'[d] <= sent[d] /\ (tries'[d] # tries[d] => at'[d] = "over")
  <2>1. /\ tries \in [Cases -> 0 .. MaxRetries + 1] /\ sent \in [Cases -> 0 .. Messages]
        /\ at \in [Cases -> Ats]
        /\ tries[d] \in Nat /\ sent[d] \in Nat
    BY <1>1, RunnerAssumption DEF RInv, TypeOK, Ats
  <2>2. CASE UNCHANGED <<tries, sent>>
    BY <2>1, <2>2
  <2>3. ASSUME NEW c \in Cases, Attempt(c)
        PROVE  sent'[d] <= sent[d] /\ (tries'[d] # tries[d] => at'[d] = "over")
    BY <1>1, <2>1, <2>3 DEF Attempt, Settle, Goto
  <2>4. ASSUME NEW c \in Cases, Proceed(c), UNCHANGED tries
        PROVE  sent'[d] <= sent[d] /\ (tries'[d] # tries[d] => at'[d] = "over")
    BY <1>1, <2>1, <2>4 DEF Proceed
  <2>5. QED
    BY <1>1, <2>2, <2>3, <2>4
       DEF Next, vars, Admit, Answer, Wake, Timeout, TransientError, PermanentError,
           AdapterCancelled, Interrupt, AgentEnds, Cancel, RunCancelled, Gathered,
           GatherRaises, Drained, Close, Terminated
<1>2. RInv /\ [Next]_vars
        => [cancel => \A c \in Cases : /\ sent'[c] <= sent[c]
                                       /\ tries'[c] # tries[c] => at'[c] = "over"]_vars
  BY <1>1
<1>3. QED BY <1>2, RunnerInvariance, PTL DEF Spec, NothingNewAfterCancel

-----------------------------------------------------------------------------
(* Bounded concurrency.                                                    *)

\* An agent is at work for a case that awaits send, or was left behind in its
\* thread by a deadline or a cancellation.
AgentOK(c) ==
  c \in busy => \/ at[c] = "send"
                \/ Threads /\ at[c] = "over" /\ outcome[c] \in {"timed_out", "cancelled", "none"}

\* A case that awaits anything of the adapter's holds a slot of the semaphore.
SlotsOK ==
  /\ \A c \in Cases : AgentOK(c)
  /\ Cardinality(Executing) <= Slots

\* What a task does about its agent.
LEMMA AgentSteps ==
  ASSUME RInv, NEW c \in Cases, AgentOK(c), CaseActions(c)
  PROVE  AgentOK(c)'
<1>1. at[c] # "over" /\ at \in [Cases -> Ats] /\ outcome \in [Cases -> Report!Outcomes \cup {"none"}]
  BY CaseSteps DEF CaseStep, RInv, TypeOK, Ats, Report!Outcomes
<1>2. CASE Answer(c)
  <2>1. CASE at[c] \in {"start", "send"}
    BY <1>1, <1>2, <2>1 DEF Answer, Proceed, Goto, AgentOK
  <2>2. CASE at[c] \in {"prepare", "finish"}
    <3>1. c \notin busy'
      BY <1>1, <1>2, <2>2 DEF Answer, AgentOK
    <3>2. QED BY <3>1 DEF AgentOK
  <2>3. QED BY <1>2, <2>1, <2>2 DEF Answer
<1>3. CASE Admit(c) \/ Wake(c)
  <2>1. c \notin busy'
    BY <1>1, <1>3 DEF Admit, Wake, AgentOK
  <2>2. QED BY <2>1 DEF AgentOK
<1>4. CASE TransientError(c) \/ PermanentError(c)
  <2>1. c \notin busy'
    BY <1>4 DEF TransientError, PermanentError
  <2>2. QED BY <2>1 DEF AgentOK
<1>5. CASE Timeout(c) \/ AdapterCancelled(c) \/ Interrupt(c)
  <2>1. busy' = Abandoned(c) /\ \E o \in {"timed_out", "cancelled", "none"} : Settle(c, o)
    BY <1>5 DEF Timeout, AdapterCancelled, Interrupt, Unwound
  <2>2. at'[c] = "over" /\ outcome'[c] \in {"timed_out", "cancelled", "none"}
    BY <1>1, <2>1 DEF Settle, Goto
  <2>3. c \in busy' => Threads
    BY <2>1 DEF Abandoned
  <2>4. QED BY <2>2, <2>3 DEF AgentOK
<1>6. QED BY <1>2, <1>3, <1>4, <1>5 DEF CaseActions

\* Only Admit gives a task a slot.
LEMMA SlotSteps ==
  ASSUME RInv, NEW c \in Cases, CaseActions(c)
  PROVE  \/ Executing' \subseteq Executing
         \/ FreeSlot /\ Executing' = Executing \cup {c}
<1>1. CaseStep(c)
  BY CaseSteps
<1>2. at \in [Cases -> Ats]
  BY DEF RInv, TypeOK, Ats
<1>3. \A d \in Cases \ {c} : d \in Executing' <=> d \in Executing
  BY <1>1, <1>2 DEF CaseStep, Executing
<1>4. at[c] \in Calls \cup {"backoff", "queued"}
  BY <1>1, <1>2 DEF CaseStep, Ats
<1>5. at[c] = "queued" => FreeSlot \/ at'[c] = "over"
  <2>1. CASE Admit(c)
    BY <2>1 DEF Admit
  <2>2. CASE Interrupt(c)
    BY <1>2, <2>2 DEF Interrupt, Settle, Goto
  <2>3. CASE Answer(c) \/ Wake(c) \/ Timeout(c) \/ TransientError(c) \/ PermanentError(c)
             \/ AdapterCancelled(c)
    BY <2>3 DEF Answer, Wake, Timeout, TransientError, PermanentError, AdapterCancelled,
                Running, Executing, Calls
  <2>4. QED BY <2>1, <2>2, <2>3 DEF CaseActions
<1>6. c \in Executing' => c \in Executing \/ FreeSlot
  BY <1>4, <1>5 DEF Executing, Calls
<1>7. Executing' \subseteq Cases /\ Executing \subseteq Cases
  BY DEF Executing
<1>8. QED BY <1>3, <1>6, <1>7

\* The invariant of slots and agents.
LEMMA SlotsInvariance == Spec => []SlotsOK
<1>1. Init => SlotsOK
  <2>1. Init => Executing = {} /\ busy = {}
    BY DEF Init, Executing, Calls
  <2>2. QED BY <2>1, FS_EmptySet, RunnerAssumption DEF SlotsOK, AgentOK
<1>2. RInv /\ SlotsOK /\ [Next]_vars => SlotsOK'
  <2> SUFFICES ASSUME RInv, SlotsOK, [Next]_vars PROVE SlotsOK'
    OBVIOUS
  <2>1. IsFiniteSet(Executing) /\ Cardinality(Executing) \in Nat
    BY RunnerAssumption, FS_Subset, FS_CardinalityType DEF Executing
  <2>2. ASSUME NEW c \in Cases, CaseActions(c) PROVE SlotsOK'
    <3>1. ASSUME NEW d \in Cases PROVE AgentOK(d)'
      <4>1. CASE d = c
        BY <2>2, <4>1, AgentSteps DEF SlotsOK
      <4>2. CASE d # c
        <5>1. CaseStep(c) /\ AgentOK(d)
          BY <2>2, CaseSteps DEF SlotsOK
        <5>2. at'[d] = at[d] /\ outcome'[d] = outcome[d] /\ (d \in busy' => d \in busy)
          BY <4>2, <5>1 DEF CaseStep, RInv, TypeOK
        <5>3. QED BY <5>1, <5>2 DEF AgentOK
      <4>3. QED BY <4>1, <4>2
    <3>2. CASE Executing' \subseteq Executing
      <4>1. Cardinality(Executing') <= Cardinality(Executing) /\ Cardinality(Executing') \in Nat
        BY <2>1, <3>2, FS_Subset, FS_CardinalityType
      <4>2. QED BY <2>1, <3>1, <4>1, RunnerAssumption DEF SlotsOK
    <3>3. CASE FreeSlot /\ Executing' = Executing \cup {c}
      <4>1. \/ Cardinality(Executing') = Cardinality(Executing)
            \/ Cardinality(Executing') = Cardinality(Executing) + 1
        BY <2>1, <3>3, FS_AddElement
      <4>2. QED BY <2>1, <3>1, <3>3, <4>1, RunnerAssumption DEF SlotsOK, FreeSlot
    <3>4. QED BY <2>2, <3>2, <3>3, SlotSteps
  <2>3. CASE RunActions \/ Terminated \/ UNCHANGED vars \/ \E c \in Cases : AgentEnds(c)
    <3>1. UNCHANGED <<at, outcome>> /\ busy' \subseteq busy
      BY <2>3, RunSteps
    <3>2. QED BY <3>1 DEF SlotsOK, AgentOK, Executing
  <2>4. QED BY <2>2, <2>3 DEF Next, CaseActions, RunActions
<1>3. QED BY <1>1, <1>2, RunnerInvariance, PTL DEF Spec

\* No more cases than slots wait for an agent, and agents that go on alone
\* were left behind by a deadline or a cancellation, whatever the adapter.
THEOREM WaitingBounded == Spec => []BoundedWaiting
<1>1. RInv /\ SlotsOK => BoundedWaiting
  <2> SUFFICES ASSUME RInv, SlotsOK PROVE BoundedWaiting
    OBVIOUS
  <2>1. /\ IsFiniteSet(Executing) /\ Cardinality(Executing) \in Nat
        /\ Cardinality(busy \cap Executing) <= Cardinality(Executing)
        /\ Cardinality(busy \cap Executing) \in Nat
    BY RunnerAssumption, FS_Subset, FS_CardinalityType DEF Executing
  <2>2. Cardinality(busy \cap Executing) <= Slots
    BY <2>1, RunnerAssumption DEF SlotsOK
  <2>3. \A c \in busy \ Executing : outcome[c] \in {"timed_out", "cancelled", "none"}
    BY DEF RInv, TypeOK, SlotsOK, AgentOK, Executing, Calls
  <2>4. QED BY <2>2, <2>3 DEF BoundedWaiting
<1>2. QED BY <1>1, SlotsInvariance, RunnerInvariance, PTL

\* No more agents than slots are at work, if they stop with the task that
\* awaits them.
THEOREM ConcurrencyBounded ==
  ASSUME ~Threads
  PROVE  Spec => []BoundedAgents
<1>1. RInv /\ SlotsOK /\ BoundedWaiting => BoundedAgents
  <2> SUFFICES ASSUME RInv, SlotsOK, BoundedWaiting PROVE BoundedAgents
    OBVIOUS
  <2>1. busy \cap Executing = busy
    BY DEF RInv, TypeOK, SlotsOK, AgentOK, Executing, Calls
  <2>2. QED BY <2>1 DEF BoundedWaiting, BoundedAgents
<1>2. QED BY <1>1, WaitingBounded, SlotsInvariance, RunnerInvariance, PTL

-----------------------------------------------------------------------------
(* Refinement.                                                             *)

\* The status of a run fits the outcomes of its cases.
LEMMA StatusFits ==
  ASSUME RInv, Pending = {}, Lost = {}
  PROVE  /\ Report!None({"none"})
         /\ Report!Fits(Status({outcome[c] : c \in Cases}))
<1> DEFINE S == {outcome[c] : c \in Cases}
<1>1. \A c \in Cases : outcome[c] \in {"completed", "failed", "timed_out", "cancelled"}
  BY DEF RInv, TypeOK, Pending, Lost
<1>2. Report!None({"none"})
  BY <1>1 DEF Report!None
<1>3. CASE S = {"completed"}
  <2>1. Status(S) = "completed" BY <1>3 DEF Status
  <2>2. \A c \in Cases : outcome[c] = "completed" BY <1>3
  <2>3. QED BY <1>2, <2>1, <2>2 DEF Report!Fits, Report!All
<1>4. CASE S \subseteq {"failed", "timed_out"}
  <2>1. Status(S) = "failed" BY <1>4 DEF Status
  <2>2. \A c \in Cases : outcome[c] \in {"failed", "timed_out"} BY <1>4
  <2>3. QED BY <1>2, <2>1, <2>2 DEF Report!Fits, Report!None
<1>5. CASE S = {"cancelled"}
  <2>1. Status(S) = "cancelled" BY <1>5 DEF Status
  <2>2. \A c \in Cases : outcome[c] = "cancelled" BY <1>5
  <2>3. QED BY <1>2, <2>1, <2>2 DEF Report!Fits, Report!All
<1>6. CASE S # {"completed"} /\ ~(S \subseteq {"failed", "timed_out"}) /\ S # {"cancelled"}
  <2>1. Status(S) = "partial" BY <1>6 DEF Status
  <2>2. S # {} BY <1>6
  <2>3. ~Report!All({"completed"})
    <3>1. ASSUME \A c \in Cases : outcome[c] = "completed" PROVE S \subseteq {"completed"}
      BY <3>1
    <3>2. QED BY <1>6, <2>2, <3>1 DEF Report!All
  <2>4. ~Report!All({"cancelled"})
    <3>1. ASSUME \A c \in Cases : outcome[c] = "cancelled" PROVE S \subseteq {"cancelled"}
      BY <3>1
    <3>2. QED BY <1>6, <2>2, <3>1 DEF Report!All
  <2>5. ~Report!None({"completed", "cancelled"})
    <3>1. ASSUME \A c \in Cases : outcome[c] \notin {"completed", "cancelled"}
          PROVE  S \subseteq {"failed", "timed_out"}
      BY <1>1, <3>1
    <3>2. QED BY <1>6, <3>1 DEF Report!None
  <2>6. QED BY <1>2, <2>1, <2>3, <2>4, <2>5 DEF Report!Fits
<1>7. QED BY <1>3, <1>4, <1>5, <1>6

\* The runner implements RunReport.
THEOREM RunReportImplemented == Spec => ImplementsRunReport
<1> DEFINE R == IF run = "raised" THEN "raised" ELSE report
<1>1. Init => Report!Init
  BY DEF Init, Report!Init
<1>2. ASSUME RInv, NEW c \in Cases, CaseStep(c)
      PROVE  [Report!Next]_(Report!vars)
  <2>1. c \in Pending
    BY <1>2 DEF CaseStep, Pending
  <2>2. R = "none" /\ R' = R /\ outcome[c] = "none" /\ UNCHANGED cancel
    BY <1>2, <2>1 DEF RInv, RunOK, CaseOK, CaseStep
  <2>3. outcome \in [Cases -> {"none", "completed", "failed", "timed_out", "cancelled"}]
    BY <1>2 DEF RInv, TypeOK
  <2>4. CASE outcome'[c] = "none"
    <3>1. outcome' = outcome
      BY <1>2, <2>2, <2>3, <2>4 DEF CaseStep
    <3>2. QED BY <2>2, <3>1 DEF Report!vars
  <2>5. CASE outcome'[c] # "none"
    <3>1. outcome'[c] \in Report!Outcomes /\ Report!Settle(c, outcome'[c])
      BY <1>2, <2>2, <2>5 DEF CaseStep, Report!Settle, Report!Outcomes
    <3>2. QED BY <3>1 DEF Report!Next
  <2>6. QED BY <2>4, <2>5
<1>3. ASSUME RInv, RunActions \/ Terminated \/ UNCHANGED vars \/ \E c \in Cases : AgentEnds(c)
      PROVE  [Report!Next]_(Report!vars)
  <2>1. UNCHANGED outcome
    BY <1>3, RunSteps
  <2>2. CASE Close
    <3>1. R = "none" /\ Pending = {} /\ UNCHANGED cancel
      BY <1>3, <2>2 DEF RInv, RunOK, Close
    <3>2. CASE run' = "raised"
      BY <2>1, <3>1, <3>2 DEF Report!Next, Report!Raise
    <3>3. CASE run' # "raised"
      <4>1. run = "closing" /\ Lost = {} /\ R' = Status({outcome[c] : c \in Cases})
        BY <1>3, <2>2, <3>3 DEF RInv, RunOK, Close
      <4>2. Report!Publish(R')
        BY <1>3, <2>1, <3>1, <4>1, StatusFits DEF Report!Publish
      <4>3. R' \in {"completed", "cancelled", "failed", "partial"}
        BY <4>1, StatusType
      <4>4. QED BY <4>2, <4>3 DEF Report!Next
    <3>4. QED BY <3>2, <3>3
  <2>3. CASE Cancel \/ RunCancelled \/ Gathered \/ GatherRaises \/ Drained
    <3>1. R' = R /\ (cancel' = TRUE \/ cancel' = cancel)
      BY <1>3, <2>3 DEF RInv, RunOK, Cancel, RunCancelled, Gathered, GatherRaises, Drained
    <3>2. QED BY <2>1, <3>1 DEF Report!Next, Report!Ask, Report!vars
  <2>4. CASE Terminated \/ UNCHANGED vars \/ \E c \in Cases : AgentEnds(c)
    BY <2>4 DEF Terminated, AgentEnds, vars, Report!vars
  <2>5. QED BY <1>3, <2>2, <2>3, <2>4 DEF RunActions
<1>4. RInv /\ [Next]_vars => [Report!Next]_(Report!vars)
  BY <1>2, <1>3, AllSteps
<1>5. QED BY <1>1, <1>4, RunnerInvariance, PTL DEF Spec, ImplementsRunReport, Report!Spec
=============================================================================
