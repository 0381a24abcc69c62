--------------------------- MODULE JobQueueProofs ---------------------------
(***************************************************************************)
(* Proofs about JobQueue for every set of jobs, workers and clients and    *)
(* every retry budget.  The argument rests on one fact about the table,    *)
(* RowsMoveForward: whatever a step does to a row, it increments the       *)
(* version or leaves status, owner and cancel flag alone.                  *)
(***************************************************************************)
EXTENDS JobQueue, TLAPS

\* The columns of one row fit together.
RowOK(r) ==
  /\ r.status = "absent" => r = AbsentRow
  /\ r.status = "running" <=> r.owner # NoWorker
  /\ r.attempts <= r.max
  /\ r.status \in {"pending", "retry"} => r.attempts < r.max

\* A worker between two jobs has none in hand; one in a transaction has.
HandsOK(w) ==
  /\ pc[w] \notin {"idle", "next"} => cur[w] \in Jobs
  /\ pc[w] = "cancelling" => snap[w].cancel

RequestOK(c) ==
  request[c] # NoRequest => /\ request[c].job \in Jobs
                            /\ request[c].seen.status # "absent"

IInv ==
  /\ TypeOK
  /\ \A j \in Jobs : RowOK(row[j])
  /\ \A w \in Workers : HandsOK(w)
  /\ \A c \in Clients : RequestOK(c)
  /\ FencedWrites
  /\ EffectsExactlyOnce

-----------------------------------------------------------------------------
(* Steps on the table.                                                     *)

LEMMA AbsentRowType == AbsentRow \in Row /\ NoRow \in LoadedRow
BY JobQueueAssumption DEF AbsentRow, Row, Statuses, Terminal, NoRow, Loaded, LoadedRow

LEMMA LoadedType == \A r \in Row : Loaded(r) \in LoadedRow
BY DEF Row, Loaded, LoadedRow

\* How one row may change in one step: its version grows, or nothing a
\* decision was made from changes.
Forward(r, s) ==
  /\ r.version <= s.version
  /\ r.version = s.version =>
       s.status = r.status /\ s.owner = r.owner /\ s.cancel = r.cancel

LEMMA RowOperations ==
  ASSUME NEW r \in Row, NEW w \in Workers, NEW l \in LoadedRow
  PROVE  /\ Leased(r, w) \in Row
         /\ Completed(r, l) \in Row
         /\ Failed(r) \in Row
         /\ Recovered(r) \in Row
<1> DEFINE parked == IF r.attempts >= r.max THEN "dead_letter" ELSE "retry"
           done == IF l.cancel THEN "cancelled" ELSE "succeeded"
           recovered == IF r.cancel THEN "cancelled" ELSE parked
<1>1. r.attempts + 1 \in Nat /\ r.version + 1 \in Nat
  BY DEF Row
<1>2. {parked, done, recovered, "running"} \subseteq Statuses
  BY DEF Statuses, Terminal, LoadedRow
<1> HIDE DEF parked, done, recovered
<1>3. Leased(r, w) \in Row
  BY <1>1, <1>2, Zenon DEF Row, Leased
<1>4. Completed(r, l) \in Row
  <2>1. Completed(r, l) = [r EXCEPT !.status = done, !.owner = NoWorker,
                             !.expired = FALSE, !.version = @ + 1]
    BY DEF Completed, done
  <2>2. QED BY <2>1, <1>1, <1>2, Zenon DEF Row
<1>5. Failed(r) \in Row
  <2>1. Failed(r) = [r EXCEPT !.status = parked, !.owner = NoWorker,
                       !.expired = FALSE, !.due = FALSE, !.version = @ + 1]
    BY DEF Failed, parked
  <2>2. QED BY <2>1, <1>1, <1>2, Zenon DEF Row
<1>6. Recovered(r) \in Row
  <2>1. CASE r.status = "running" /\ r.expired
    <3>1. Recovered(r) = [r EXCEPT !.status = recovered, !.owner = NoWorker,
                            !.expired = FALSE, !.due = TRUE, !.version = @ + 1]
      BY <2>1 DEF Recovered, recovered, parked
    <3>2. QED BY <3>1, <1>1, <1>2, Zenon DEF Row
  <2>2. CASE ~(r.status = "running" /\ r.expired)
    BY <2>2 DEF Recovered
  <2>3. QED BY <2>1, <2>2
<1>7. QED BY <1>3, <1>4, <1>5, <1>6

LEMMA CancelRequestedType ==
  ASSUME NEW l \in LoadedRow
  PROVE  CancelRequested(l) \in LoadedRow
<1> DEFINE asked == IF l.status \in {"pending", "retry"} THEN "cancelled"
                    ELSE l.status
<1>1. asked \in Statuses
  BY DEF Statuses, Terminal, LoadedRow
<1> HIDE DEF asked
<1>2. CancelRequested(l) = [l EXCEPT !.cancel = TRUE, !.status = asked]
  BY DEF CancelRequested, asked
<1>3. QED BY <1>1, <1>2, Zenon DEF LoadedRow

\* What recover_expired followed by lease leaves of a row.
LEMMA RecoveredRow ==
  ASSUME NEW r \in Row, RowOK(r)
  PROVE  RowOK(Recovered(r)) /\ Forward(r, Recovered(r))
BY DEF Recovered, RowOK, Forward, Row, Statuses, Terminal

LEMMA LeasedRow ==
  ASSUME NEW r \in Row, RowOK(r), Leasable(r), NEW w \in Workers
  PROVE  RowOK(Leased(r, w)) /\ Leased(r, w).version > r.version
BY JobQueueAssumption DEF Leased, Leasable, RowOK, Row, Statuses, Terminal

LEMMA ReleasedRow ==
  ASSUME NEW r \in Row, RowOK(r), r.status = "running", NEW l \in LoadedRow
  PROVE  /\ RowOK(Completed(r, l)) /\ Completed(r, l).version > r.version
         /\ RowOK(Failed(r)) /\ Failed(r).version > r.version
BY DEF Completed, Failed, RowOK, Row, Statuses, Terminal

LEMMA AskedRow ==
  ASSUME NEW r \in Row, RowOK(r), NEW l \in LoadedRow,
         l.status = r.status, l.cancel = r.cancel, l.status # "absent",
         NEW s, s = Flushed(r, CancelRequested(l))
  PROVE  s \in Row /\ RowOK(s) /\ Forward(r, s)
<1>1. CancelRequested(l) \in LoadedRow
  BY CancelRequestedType
<1>2. r.version + 1 \in Nat
  BY DEF Row
<1>3. s \in Row
  <2>1. CancelRequested(l).cancel \in BOOLEAN /\ CancelRequested(l).status \in Statuses
    BY <1>1 DEF LoadedRow
  <2>2. QED BY <2>1, <1>2, Zenon DEF Row, Flushed
<1>4. /\ s.status = IF r.status \in {"pending", "retry"} THEN "cancelled" ELSE r.status
      /\ s.owner = r.owner /\ s.attempts = r.attempts /\ s.max = r.max
      /\ s.version = r.version + 1
  BY DEF CancelRequested, Flushed, Row, LoadedRow
<1>5. QED BY <1>3, <1>4 DEF RowOK, Forward, Row, AbsentRow

\* What every step does to the table, row by row.
TableStep == /\ row' \in [Jobs -> Row]
             /\ \A j \in Jobs : RowOK(row'[j]) /\ Forward(row[j], row'[j])

LEMMA OneRow ==
  ASSUME TypeOK, \A j \in Jobs : RowOK(row[j]),
         NEW j \in Jobs, NEW s \in Row, RowOK(s), Forward(row[j], s),
         row' = [row EXCEPT ![j] = s]
  PROVE  TableStep
BY DEF TableStep, TypeOK, Forward, Row

LEMMA SameTable ==
  ASSUME TypeOK, \A j \in Jobs : RowOK(row[j]), row' = row
  PROVE  TableStep
BY DEF TableStep, TypeOK, Forward, Row

LEMMA RowsMoveForward == IInv /\ [Next]_vars => TableStep
<1> SUFFICES ASSUME IInv, [Next]_vars PROVE TableStep
  OBVIOUS
<1>1. TypeOK /\ \A j \in Jobs : row[j] \in Row /\ RowOK(row[j])
  BY DEF IInv, TypeOK
<1>2. ASSUME NEW j \in Jobs, Submit(j) PROVE TableStep
  <2>1. PICK m \in 1 .. MaxAttempts : row' = [row EXCEPT ![j] = NewRow(m)]
    BY <1>2 DEF Submit
  <2>3. NewRow(m) \in Row /\ RowOK(NewRow(m))
    BY JobQueueAssumption DEF NewRow, Row, Statuses, RowOK
  <2>4. row[j].version = 0
    BY <1>1, <1>2 DEF Submit, RowOK, AbsentRow
  <2>5. Forward(row[j], NewRow(m))
    BY <2>4 DEF Forward, NewRow
  <2>6. QED BY <1>1, <2>1, <2>3, <2>5, OneRow
<1>3. ASSUME NEW c \in Clients, CommitCancel(c) PROVE TableStep
  <2> DEFINE j == request[c].job
             l == request[c].seen
             s == Flushed(row[j], CancelRequested(l))
  <2>1. j \in Jobs /\ l \in LoadedRow /\ l.status # "absent"
    BY <1>3 DEF CommitCancel, IInv, RequestOK, TypeOK
  <2>2. CASE CancelRequested(l) # l /\ row[j].version = l.version
    <3>1. l = Loaded(row[j])
      BY <1>3, <2>2 DEF IInv, FencedWrites, CommitCancel
    <3>2. l.status = row[j].status /\ l.cancel = row[j].cancel
      BY <3>1 DEF Loaded
    <3>3. s \in Row /\ RowOK(s) /\ Forward(row[j], s)
      BY <1>1, <2>1, <3>2, AskedRow
    <3>4. row' = [row EXCEPT ![j] = s]
      BY <1>3, <2>2, Zenon DEF CommitCancel
    <3> HIDE DEF s, j
    <3>5. QED BY <1>1, <2>1, <3>3, <3>4, OneRow
  <2>3. CASE ~(CancelRequested(l) # l /\ row[j].version = l.version)
    BY <1>1, <1>3, <2>3, SameTable DEF CommitCancel
  <2>4. QED BY <2>2, <2>3
<1>4. ASSUME NEW w \in Workers, RunOnce(w) PROVE TableStep
  <2> DEFINE t == [j \in Jobs |-> Recovered(row[j])]
  <2>1. PICK S \in Batches({j \in Jobs : Leasable(t[j])}) :
          row' = [j \in Jobs |-> IF j \in S THEN Leased(t[j], w) ELSE t[j]]
    BY <1>4 DEF RunOnce
  <2>2. ASSUME NEW j \in Jobs
        PROVE  row'[j] \in Row /\ RowOK(row'[j]) /\ Forward(row[j], row'[j])
    <3>1. /\ t[j] \in Row /\ RowOK(t[j]) /\ Forward(row[j], t[j])
      BY <1>1, RecoveredRow, RowOperations, AbsentRowType
    <3>2. CASE j \in S
      <4>1. Leasable(t[j])
        BY <2>1, <3>2 DEF Batches
      <4>2. row'[j] = Leased(t[j], w)
        BY <2>1, <3>2
      <4> HIDE DEF t
      <4>3. Leased(t[j], w) \in Row
        BY <3>1, RowOperations, AbsentRowType
      <4>4. RowOK(Leased(t[j], w)) /\ Leased(t[j], w).version > t[j].version
        BY <3>1, <4>1, LeasedRow
      <4>5. QED BY <1>1, <3>1, <4>2, <4>3, <4>4 DEF Forward, Row
    <3>3. CASE j \notin S
      BY <2>1, <3>1, <3>3
    <3>4. QED BY <3>2, <3>3
  <2>3. row' = [j \in Jobs |-> row'[j]]
    BY <2>1
  <2>4. QED BY <2>2, <2>3 DEF TableStep
<1>5. ASSUME NEW w \in Workers, Complete(w) PROVE TableStep
  <2> DEFINE j == cur[w]
  <2>1. j \in Jobs /\ snap[w] \in LoadedRow
    BY <1>5 DEF Complete, IInv, HandsOK, TypeOK
  <2>2. row[j].status = "running" /\ row' = [row EXCEPT ![j] = Completed(row[j], snap[w])]
    BY <1>5 DEF Complete, Owned
  <2> DEFINE s == Completed(row[j], snap[w])
  <2>3. s \in Row /\ RowOK(s) /\ s.version > row[j].version
    BY <1>1, <2>1, <2>2, RowOperations, ReleasedRow
  <2>4. Forward(row[j], s)
    BY <1>1, <2>1, <2>3 DEF Forward, Row
  <2> HIDE DEF j, s
  <2>5. QED BY <1>1, <2>1, <2>2, <2>3, <2>4, OneRow DEF s
<1>6. ASSUME NEW w \in Workers, SettleCommit(w) PROVE TableStep
  <2> DEFINE j == cur[w]
             s == IF pc[w] = "failing" THEN Failed(row[j]) ELSE Completed(row[j], snap[w])
  <2>1. /\ j \in Jobs /\ snap[w] \in LoadedRow /\ pc[w] \in InTransaction
    BY <1>6 DEF SettleCommit, IInv, HandsOK, TypeOK, InTransaction
  <2>2. CASE Fresh(w)
    <3>1. row[j].status = "running"
      BY <2>1, <2>2 DEF IInv, FencedWrites, Owned
    <3>2. row' = [row EXCEPT ![j] = s]
      BY <1>6, <2>2 DEF SettleCommit
    <3>3. s \in Row /\ RowOK(s) /\ s.version > row[j].version
      BY <1>1, <2>1, <3>1, RowOperations, ReleasedRow
    <3>4. Forward(row[j], s)
      BY <1>1, <2>1, <3>3 DEF Forward, Row
    <3> HIDE DEF j, s
    <3>5. QED BY <1>1, <2>1, <3>2, <3>3, <3>4, OneRow
  <2>3. CASE ~Fresh(w)
    BY <1>1, <1>6, <2>3, SameTable DEF SettleCommit
  <2>4. QED BY <2>2, <2>3
<1>7. ASSUME NEW j \in Jobs, NEW s, row' = [row EXCEPT ![j] = s],
             \/ s = [row[j] EXCEPT !.expired = FALSE]
             \/ s = [row[j] EXCEPT !.expired = TRUE]
             \/ s = [row[j] EXCEPT !.due = TRUE],
             row[j].status # "absent"
      PROVE  TableStep
  <2>1. s \in Row
    BY <1>1, <1>7, Zenon DEF Row
  <2>2. /\ s.status = row[j].status /\ s.owner = row[j].owner
        /\ s.cancel = row[j].cancel /\ s.version = row[j].version
        /\ s.attempts = row[j].attempts /\ s.max = row[j].max
    BY <1>1, <1>7 DEF Row
  <2>3. RowOK(s) /\ Forward(row[j], s)
    BY <1>1, <1>7, <2>2 DEF RowOK, Forward, Row
  <2>4. QED BY <1>1, <1>7, <2>1, <2>3, OneRow
<1>8. ASSUME NEW j \in Jobs, LeaseExpires(j) \/ BackoffElapses(j) PROVE TableStep
  BY <1>7, <1>8 DEF LeaseExpires, BackoffElapses
<1>9. ASSUME NEW w \in Workers, NEW j \in Jobs, Heartbeat(w, j) PROVE TableStep
  BY <1>7, <1>9 DEF Heartbeat, Renewable, Owned
<1>10. ASSUME row' = row PROVE TableStep
  BY <1>1, <1>10, SameTable
<1>11. QED
  BY <1>2, <1>3, <1>4, <1>5, <1>6, <1>8, <1>9, <1>10
     DEF Next, WorkerStep, vars, RequestCancel, Begin, HandlerReturns, HandlerRaises,
         CompleteRefused, FailBegin, LostBegin, Crash, HeartbeatLost

-----------------------------------------------------------------------------
(* What a step does to a worker's and to a client's transaction: it leaves *)
(* what was loaded alone, or loads a row of the table as it stands.        *)

HeldOver(w) ==
  /\ pc'[w] \in InTransaction =>
       pc[w] \in InTransaction /\ cur'[w] = cur[w] /\ snap'[w] = snap[w]
  /\ pc'[w] = "cancelling" => pc[w] = "cancelling"

JustRead(w) ==
  /\ cur'[w] \in Jobs /\ row' = row
  /\ Owned(row[cur'[w]], w) /\ snap'[w] = Loaded(row[cur'[w]])
  /\ pc'[w] = "cancelling" => row[cur'[w]].cancel

LEMMA WorkerMoves ==
  IInv /\ [Next]_vars =>
    \A w \in Workers : (HeldOver(w) \/ JustRead(w))
                       /\ (pc'[w] \notin {"idle", "next"} => cur'[w] \in Jobs)
<1> SUFFICES ASSUME IInv, [Next]_vars, NEW v \in Workers
             PROVE  (HeldOver(v) \/ JustRead(v))
                    /\ (pc'[v] \notin {"idle", "next"} => cur'[v] \in Jobs)
  OBVIOUS
<1> DEFINE Goal == (HeldOver(v) \/ JustRead(v))
                   /\ (pc'[v] \notin {"idle", "next"} => cur'[v] \in Jobs)
<1>1. /\ pc \in [Workers -> Labels] /\ batch \in [Workers -> SUBSET Jobs]
      /\ cur \in [Workers -> Jobs \cup {NoJob}] /\ snap \in [Workers -> LoadedRow]
      /\ HandsOK(v)
  BY DEF IInv, TypeOK
<1>2. ASSUME pc'[v] = pc[v], cur'[v] = cur[v], snap'[v] = snap[v] PROVE Goal
  BY <1>1, <1>2 DEF HeldOver, HandsOK
<1>3. ASSUME pc'[v] \in {"idle", "next"} PROVE Goal
  BY <1>3 DEF HeldOver, InTransaction
<1>4. ASSUME NEW w \in Workers, RunOnce(w) PROVE Goal
  BY <1>1, <1>2, <1>3, <1>4 DEF RunOnce
<1>5. ASSUME NEW w \in Workers, Crash(w) PROVE Goal
  BY <1>1, <1>2, <1>3, <1>5 DEF Crash, Down, Goto
<1>6. ASSUME NEW w \in Workers, NextJob(w) PROVE Goal
  BY <1>1, <1>2, <1>3, <1>6 DEF NextJob, Goto
<1>7. ASSUME NEW w \in Workers, Begin(w) PROVE Goal
  <2>1. CASE w = v
    <3>1. PICK j \in batch[v] :
            /\ cur' = [cur EXCEPT ![v] = j]
            /\ IF Owned(row[j], v)
               THEN /\ snap' = [snap EXCEPT ![v] = Loaded(row[j])]
                    /\ Goto(v, IF row[j].cancel THEN "committing" ELSE "handling")
               ELSE Goto(v, "failed") /\ UNCHANGED snap
      BY <1>7, <2>1 DEF Begin
    <3>2. cur'[v] = j /\ j \in Jobs /\ row' = row
      BY <1>1, <1>7, <3>1 DEF Begin
    <3>3. CASE Owned(row[j], v)
      <4>1. snap'[v] = Loaded(row[j]) /\ pc'[v] \in {"committing", "handling"}
        BY <1>1, <3>1, <3>3 DEF Goto
      <4>2. QED BY <3>2, <3>3, <4>1 DEF JustRead
    <3>4. CASE ~Owned(row[j], v)
      <4>1. pc'[v] = "failed"
        BY <1>1, <3>1, <3>4 DEF Goto
      <4>2. QED BY <3>2, <4>1 DEF HeldOver, InTransaction
    <3>5. QED BY <3>3, <3>4
  <2>2. CASE w # v
    BY <1>1, <1>2, <1>7, <2>2 DEF Begin, Goto
  <2>3. QED BY <2>1, <2>2
<1>8. ASSUME NEW w \in Workers, HandlerReturns(w) \/ HandlerRaises(w) \/ CompleteRefused(w)
      PROVE  Goal
  <2>1. CASE w = v
    <3>1. /\ pc[v] \in {"handling", "committing"} /\ cur' = cur /\ snap' = snap
          /\ pc'[v] \in {"lost", "committing", "failed"}
      BY <1>1, <1>8, <2>1 DEF HandlerReturns, HandlerRaises, CompleteRefused, Goto
    <3>2. QED BY <1>1, <3>1 DEF HeldOver, InTransaction, HandsOK
  <2>2. CASE w # v
    BY <1>1, <1>2, <1>8, <2>2
       DEF HandlerReturns, HandlerRaises, CompleteRefused, Goto
  <2>3. QED BY <2>1, <2>2
<1>9. ASSUME NEW w \in Workers, FailBegin(w) \/ LostBegin(w) PROVE Goal
  <2>1. CASE NextJob(w)
    BY <1>6, <2>1
  <2>2. CASE ~NextJob(w)
    <3>1. /\ pc[w] \in {"failed", "lost"} /\ Owned(row[cur[w]], w) /\ row' = row
          /\ snap' = [snap EXCEPT ![w] = Loaded(row[cur[w]])] /\ cur' = cur
          /\ \/ pc' = [pc EXCEPT ![w] = "failing"]
             \/ pc' = [pc EXCEPT ![w] = "cancelling"] /\ row[cur[w]].cancel
      BY <1>9, <2>2 DEF FailBegin, LostBegin, Read, Goto
    <3>2. CASE w = v
      BY <1>1, <3>1, <3>2 DEF JustRead, HandsOK
    <3>3. CASE w # v
      BY <1>1, <1>2, <3>1, <3>3
    <3>4. QED BY <3>2, <3>3
  <2>3. QED BY <2>1, <2>2
<1>10. ASSUME NEW w \in Workers, Complete(w) PROVE Goal
  BY <1>6, <1>10 DEF Complete
<1>11. ASSUME NEW w \in Workers, SettleCommit(w) PROVE Goal
  <2>1. NextJob(w) \/ Down(w)
    BY <1>11 DEF SettleCommit
  <2>2. QED BY <1>1, <1>2, <1>3, <1>6, <2>1 DEF Down, Goto
<1>12. ASSUME UNCHANGED <<pc, cur, snap>> PROVE Goal
  BY <1>2, <1>12
<1>13. QED
  BY <1>4, <1>5, <1>7, <1>8, <1>9, <1>10, <1>11, <1>12
     DEF Next, WorkerStep, vars, workerVars, Submit, LeaseExpires, BackoffElapses,
         RequestCancel, CommitCancel, Heartbeat, HeartbeatLost

RequestMoves(c) ==
  \/ request'[c] = NoRequest
  \/ request'[c] = request[c]
  \/ /\ request'[c].job \in Jobs /\ row' = row
     /\ request'[c].seen = Loaded(row[request'[c].job])
     /\ row[request'[c].job].status # "absent"

LEMMA ClientMoves == IInv /\ [Next]_vars => \A c \in Clients : RequestMoves(c)
<1> SUFFICES ASSUME IInv, [Next]_vars, NEW d \in Clients PROVE RequestMoves(d)
  OBVIOUS
<1>1. request \in [Clients -> [job: Jobs \cup {NoJob}, seen: LoadedRow]]
  BY DEF IInv, TypeOK
<1>2. ASSUME NEW c \in Clients, CommitCancel(c) PROVE RequestMoves(d)
  BY <1>1, <1>2 DEF CommitCancel, RequestMoves
<1>3. ASSUME NEW c \in Clients, NEW j \in Jobs, RequestCancel(c, j)
      PROVE RequestMoves(d)
  BY <1>1, <1>3 DEF RequestCancel, RequestMoves
<1>4. ASSUME request' = request PROVE RequestMoves(d)
  BY <1>4 DEF RequestMoves
<1>5. QED
  BY <1>2, <1>3, <1>4
     DEF Next, WorkerStep, vars, Submit, LeaseExpires, BackoffElapses, RunOnce,
         Begin, HandlerReturns, HandlerRaises, Complete, CompleteRefused, FailBegin,
         LostBegin, SettleCommit, Crash, Heartbeat, HeartbeatLost

LEMMA FencePreserved ==
  IInv /\ [Next]_vars => FencedWrites' /\ (\A w \in Workers : HandsOK(w)')
                         /\ (\A c \in Clients : RequestOK(c)')
<1> SUFFICES ASSUME IInv, [Next]_vars
             PROVE  FencedWrites' /\ (\A w \in Workers : HandsOK(w)')
                    /\ (\A c \in Clients : RequestOK(c)')
  OBVIOUS
<1>1. /\ TableStep
      /\ \A w \in Workers : (HeldOver(w) \/ JustRead(w))
                            /\ (pc'[w] \notin {"idle", "next"} => cur'[w] \in Jobs)
      /\ \A c \in Clients : RequestMoves(c)
  BY RowsMoveForward, WorkerMoves, ClientMoves
<1>2. row \in [Jobs -> Row] /\ snap \in [Workers -> LoadedRow]
      /\ request \in [Clients -> [job: Jobs \cup {NoJob}, seen: LoadedRow]]
  BY DEF IInv, TypeOK
<1>3. ASSUME NEW w \in Workers PROVE HandsOK(w)'
  <2>1. ASSUME pc'[w] = "cancelling" PROVE snap'[w].cancel
    <3>1. CASE HeldOver(w)
      BY <2>1, <3>1 DEF HeldOver, InTransaction, IInv, HandsOK
    <3>2. CASE JustRead(w)
      BY <2>1, <3>2 DEF JustRead, Loaded
    <3>3. QED BY <1>1, <3>1, <3>2
  <2>2. QED BY <1>1, <2>1 DEF HandsOK
<1>4. ASSUME NEW w \in Workers, pc'[w] \in InTransaction
      PROVE  /\ snap'[w].version <= row'[cur'[w]].version
             /\ row'[cur'[w]].version = snap'[w].version =>
                  Owned(row'[cur'[w]], w) /\ row'[cur'[w]].cancel = snap'[w].cancel
  <2> DEFINE j == cur'[w]
  <2>1. j \in Jobs
    BY <1>1, <1>4 DEF InTransaction
  <2>2. Forward(row[j], row'[j]) /\ row[j] \in Row /\ row'[j] \in Row
    BY <1>1, <1>2, <2>1 DEF TableStep
  <2>3. CASE HeldOver(w)
    <3>1. cur[w] = j /\ snap'[w] = snap[w] /\ pc[w] \in InTransaction
      BY <1>4, <2>3 DEF HeldOver
    <3>2. /\ snap[w].version <= row[j].version
          /\ row[j].version = snap[w].version =>
               Owned(row[j], w) /\ row[j].cancel = snap[w].cancel
      BY <3>1 DEF IInv, FencedWrites, Fresh
    <3>3. snap[w].version \in Nat /\ row[j].version \in Nat /\ row'[j].version \in Nat
      BY <1>2, <2>2 DEF Row, LoadedRow
    <3> HIDE DEF j
    <3>4. QED BY <2>2, <3>1, <3>2, <3>3 DEF Forward, Owned, j
  <2>4. CASE JustRead(w)
    BY <2>2, <2>4 DEF JustRead, Loaded, Row
  <2>5. QED BY <1>1, <2>3, <2>4
<1>5. ASSUME NEW c \in Clients, request'[c] # NoRequest
      PROVE  /\ request'[c].job \in Jobs /\ request'[c].seen.status # "absent"
             /\ request'[c].seen.version <= row'[request'[c].job].version
             /\ row'[request'[c].job].version = request'[c].seen.version =>
                  request'[c].seen = Loaded(row'[request'[c].job])
  <2> DEFINE j == request'[c].job
             l == request'[c].seen
  <2>1. CASE request'[c] = request[c]
    <3>1. j \in Jobs /\ l.status # "absent" /\ l.version <= row[j].version
          /\ (row[j].version = l.version => l = Loaded(row[j]))
      BY <1>5, <2>1 DEF IInv, RequestOK, FencedWrites
    <3>2. Forward(row[j], row'[j]) /\ row[j] \in Row /\ row'[j] \in Row
      BY <1>1, <1>2, <3>1 DEF TableStep
    <3>3. l.version \in Nat /\ row[j].version \in Nat /\ row'[j].version \in Nat
      BY <1>2, <2>1, <3>2 DEF Row, LoadedRow
    <3> HIDE DEF j, l
    <3>4. QED BY <3>1, <3>2, <3>3 DEF Forward, Loaded, j, l
  <2>2. CASE /\ j \in Jobs /\ row' = row /\ l = Loaded(row[j])
             /\ row[j].status # "absent"
    BY <1>2, <2>2 DEF Loaded, Row
  <2>3. QED BY <1>1, <1>5, <2>1, <2>2 DEF RequestMoves
<1>6. \A c \in Clients : RequestOK(c)'
  BY <1>5 DEF RequestOK
<1>7. FencedWrites'
  BY <1>4, <1>5 DEF FencedWrites, Fresh
<1>8. QED BY <1>3, <1>6, <1>7

-----------------------------------------------------------------------------
(* The life of a job.                                                      *)

L(j) == [status |-> row[j].status, attempts |-> row[j].attempts, max |-> row[j].max,
         cancel |-> row[j].cancel, effects |-> applied[j]]

LifeStep(j) == L(j)' = L(j) \/ Lifecycle!Lives(L(j), L(j)')

\* The columns of a row a client can tell apart.
Same(r, s) == /\ s.status = r.status /\ s.attempts = r.attempts
              /\ s.max = r.max /\ s.cancel = r.cancel

LEMMA SameLife ==
  ASSUME NEW j \in Jobs, Same(row[j], row'[j]), applied'[j] = applied[j]
  PROVE  LifeStep(j)
BY DEF Same, LifeStep, L

\* The step of each job, from what the statements do to its row.
LEMMA CancelAskedLife ==
  ASSUME NEW j \in Jobs, row[j] \in Row, row[j].status # "absent",
         row'[j] = Flushed(row[j], CancelRequested(Loaded(row[j]))),
         applied'[j] = applied[j]
  PROVE  LifeStep(j)
<1>1. /\ row'[j].status = IF row[j].status \in {"pending", "retry"} THEN "cancelled"
                          ELSE row[j].status
      /\ row'[j].cancel = TRUE
      /\ row'[j].attempts = row[j].attempts /\ row'[j].max = row[j].max
  BY DEF Flushed, CancelRequested, Loaded, Row
<1>2. Lifecycle!CancelAsked(L(j), L(j)')
  BY <1>1 DEF Lifecycle!CancelAsked, Lifecycle!Keeps, L
<1>3. QED BY <1>2 DEF LifeStep, Lifecycle!Lives

\* A row that is given up by its owner.
LEMMA ReleasedLife ==
  ASSUME NEW j \in Jobs, row[j] \in Row, RowOK(row[j]), row[j].status = "running",
         applied'[j] = applied[j],
         row'[j].attempts = row[j].attempts, row'[j].max = row[j].max,
         row'[j].cancel = row[j].cancel,
         \/ row'[j].status = IF row[j].attempts >= row[j].max THEN "dead_letter"
                              ELSE "retry"
         \/ row[j].cancel /\ row'[j].status = "cancelled"
  PROVE  LifeStep(j)
<1>1. CASE row'[j].status = IF row[j].attempts >= row[j].max THEN "dead_letter"
                            ELSE "retry"
  <2>1. Lifecycle!Released(L(j), L(j)')
    BY <1>1 DEF Lifecycle!Released, Lifecycle!Keeps, L, Row
  <2>2. QED BY <2>1 DEF LifeStep, Lifecycle!Lives
<1>2. CASE row[j].cancel /\ row'[j].status = "cancelled"
  <2>1. Lifecycle!Cancelled(L(j), L(j)')
    BY <1>2 DEF Lifecycle!Cancelled, Lifecycle!Keeps, L
  <2>2. QED BY <2>1 DEF LifeStep, Lifecycle!Lives
<1>3. QED BY <1>1, <1>2

LEMMA LeasedLife ==
  ASSUME NEW j \in Jobs, row[j] \in Row, RowOK(row[j]), NEW w \in Workers,
         Leasable(Recovered(row[j])), row'[j] = Leased(Recovered(row[j]), w),
         applied'[j] = applied[j]
  PROVE  LifeStep(j)
<1>1. /\ row[j].status \in {"pending", "retry", "running"} /\ ~row[j].cancel
      /\ row[j].attempts < row[j].max
      /\ row'[j].status = "running" /\ row'[j].attempts = row[j].attempts + 1
      /\ row'[j].max = row[j].max /\ row'[j].cancel = row[j].cancel
  BY DEF Leasable, Recovered, Leased, RowOK, Row
<1>2. Lifecycle!Attempted(L(j), L(j)')
  BY <1>1 DEF Lifecycle!Attempted, Lifecycle!Keeps, L
<1>3. QED BY <1>2 DEF LifeStep, Lifecycle!Lives

LEMMA RecoveredLife ==
  ASSUME NEW j \in Jobs, row[j] \in Row, RowOK(row[j]),
         row'[j] = Recovered(row[j]), applied'[j] = applied[j]
  PROVE  LifeStep(j)
<1>1. CASE row[j].status = "running" /\ row[j].expired
  <2>1. /\ row'[j].attempts = row[j].attempts /\ row'[j].max = row[j].max
        /\ row'[j].cancel = row[j].cancel
        /\ row'[j].status = IF row[j].cancel THEN "cancelled"
                            ELSE IF row[j].attempts >= row[j].max THEN "dead_letter"
                            ELSE "retry"
    BY <1>1 DEF Recovered, Row
  <2>2. QED BY <1>1, <2>1, ReleasedLife
<1>2. CASE ~(row[j].status = "running" /\ row[j].expired)
  BY <1>2, SameLife DEF Recovered, Same
<1>3. QED BY <1>1, <1>2

LEMMA SubmittedLife ==
  ASSUME NEW j \in Jobs, row[j] = AbsentRow, NEW m \in 1 .. MaxAttempts,
         row'[j] = NewRow(m), applied'[j] = applied[j]
  PROVE  LifeStep(j)
<1>1. Lifecycle!Submitted(L(j), L(j)')
  BY DEF Lifecycle!Submitted, Lifecycle!Keeps, L, AbsentRow, NewRow
<1>2. QED BY <1>1 DEF LifeStep, Lifecycle!Lives

LEMMA CompletedLife ==
  ASSUME NEW j \in Jobs, row[j] \in Row, RowOK(row[j]), row[j].status = "running",
         NEW l \in LoadedRow, l.cancel = row[j].cancel,
         row'[j] = Completed(row[j], l),
         applied'[j] = IF l.cancel THEN applied[j] ELSE applied[j] + 1
  PROVE  LifeStep(j)
<1>1. /\ row'[j].status = IF l.cancel THEN "cancelled" ELSE "succeeded"
      /\ row'[j].attempts = row[j].attempts /\ row'[j].max = row[j].max
      /\ row'[j].cancel = row[j].cancel
  BY DEF Completed, Row
<1>2. CASE l.cancel
  BY <1>1, <1>2, ReleasedLife
<1>3. CASE ~l.cancel
  <2>1. Lifecycle!Succeeded(L(j), L(j)')
    BY <1>1, <1>3 DEF Lifecycle!Succeeded, Lifecycle!Keeps, L
  <2>2. QED BY <2>1 DEF LifeStep, Lifecycle!Lives
<1>4. QED BY <1>2, <1>3

LEMMA StepLives == IInv /\ [Next]_vars => \A j \in Jobs : LifeStep(j)
<1> SUFFICES ASSUME IInv, [Next]_vars, NEW j \in Jobs PROVE LifeStep(j)
  OBVIOUS
<1>1. /\ row \in [Jobs -> Row] /\ row[j] \in Row /\ RowOK(row[j])
      /\ applied \in [Jobs -> Nat]
  BY DEF IInv, TypeOK
<1>2. ASSUME row'[j] = row[j], applied'[j] = applied[j] PROVE LifeStep(j)
  BY <1>2, SameLife DEF Same
<1>3. ASSUME NEW i \in Jobs, Submit(i) PROVE LifeStep(j)
  <2>1. PICK m \in 1 .. MaxAttempts : row' = [row EXCEPT ![i] = NewRow(m)]
    BY <1>3 DEF Submit
  <2>2. applied' = applied /\ row[i] = AbsentRow
    BY <1>3 DEF Submit, IInv, RowOK
  <2>3. CASE i = j
    <3>1. row'[j] = NewRow(m)
      BY <1>1, <2>1, <2>3
    <3>2. QED BY <2>2, <2>3, <3>1, SubmittedLife
  <2>4. CASE i # j
    BY <1>1, <1>2, <2>1, <2>2, <2>4
  <2>5. QED BY <2>3, <2>4
<1>4. ASSUME NEW c \in Clients, CommitCancel(c) PROVE LifeStep(j)
  <2> DEFINE i == request[c].job
             l == request[c].seen
  <2>1. i \in Jobs /\ l \in LoadedRow /\ l.status # "absent" /\ applied' = applied
    BY <1>4 DEF CommitCancel, IInv, RequestOK, TypeOK
  <2>2. CASE CancelRequested(l) # l /\ row[i].version = l.version /\ i = j
    <3>1. l = Loaded(row[j])
      BY <1>4, <2>2 DEF IInv, FencedWrites, CommitCancel
    <3>2. row'[j] = Flushed(row[j], CancelRequested(l))
      BY <1>1, <1>4, <2>2, Zenon DEF CommitCancel
    <3>3. row[j].status # "absent"
      BY <2>1, <3>1 DEF Loaded
    <3>4. QED BY <1>1, <2>1, <3>1, <3>2, <3>3, CancelAskedLife
  <2>3. CASE ~(CancelRequested(l) # l /\ row[i].version = l.version /\ i = j)
    <3>1. row' = row \/ (row' = [row EXCEPT ![i] = Flushed(@, CancelRequested(l))] /\ i # j)
      BY <1>4, <2>3 DEF CommitCancel
    <3>2. row'[j] = row[j]
      BY <1>1, <3>1
    <3>3. QED BY <1>2, <2>1, <3>2
  <2>4. QED BY <2>2, <2>3
<1>5. ASSUME NEW w \in Workers, RunOnce(w) PROVE LifeStep(j)
  <2> DEFINE t == [i \in Jobs |-> Recovered(row[i])]
  <2>1. PICK S \in Batches({i \in Jobs : Leasable(t[i])}) :
          row' = [i \in Jobs |-> IF i \in S THEN Leased(t[i], w) ELSE t[i]]
    BY <1>5 DEF RunOnce
  <2>2. applied' = applied /\ t[j] = Recovered(row[j])
    BY <1>5 DEF RunOnce
  <2>3. CASE j \in S
    <3>1. Leasable(t[j])
      BY <2>1, <2>3 DEF Batches
    <3>2. row'[j] = Leased(t[j], w)
      BY <2>1, <2>3
    <3> HIDE DEF t
    <3>3. QED BY <1>1, <2>2, <3>1, <3>2, LeasedLife
  <2>4. CASE j \notin S
    <3>1. row'[j] = t[j]
      BY <2>1, <2>4
    <3> HIDE DEF t
    <3>2. QED BY <1>1, <2>2, <3>1, RecoveredLife
  <2>5. QED BY <2>3, <2>4
<1>6. ASSUME NEW w \in Workers, Complete(w) PROVE LifeStep(j)
  <2> DEFINE i == cur[w]
  <2>1. /\ i \in Jobs /\ snap[w] \in LoadedRow
        /\ row[i].status = "running" /\ snap[w].cancel = row[i].cancel
    BY <1>6 DEF Complete, Owned, IInv, HandsOK, TypeOK, FencedWrites, InTransaction
  <2>2. /\ row' = [row EXCEPT ![i] = Completed(row[i], snap[w])]
        /\ applied' = IF snap[w].cancel THEN applied
                      ELSE [applied EXCEPT ![i] = applied[i] + 1]
    BY <1>6 DEF Complete
  <2>3. CASE i = j
    <3>1. /\ row'[j] = Completed(row[j], snap[w])
          /\ applied'[j] = IF snap[w].cancel THEN applied[j] ELSE applied[j] + 1
      BY <1>1, <2>1, <2>2, <2>3
    <3>2. QED BY <1>1, <2>1, <2>3, <3>1, CompletedLife
  <2>4. CASE i # j
    BY <1>1, <1>2, <2>1, <2>2, <2>4
  <2>5. QED BY <2>3, <2>4
<1>7. ASSUME NEW w \in Workers, SettleCommit(w) PROVE LifeStep(j)
  <2> DEFINE i == cur[w]
  <2>1. /\ i \in Jobs /\ snap[w] \in LoadedRow /\ pc[w] \in {"failing", "cancelling"}
        /\ pc[w] = "cancelling" => snap[w].cancel
        /\ applied' = applied
    BY <1>7 DEF SettleCommit, IInv, HandsOK, TypeOK
  <2>2. CASE Fresh(w) /\ i = j
    <3>1. row[j].status = "running" /\ row[j].cancel = snap[w].cancel
      BY <2>1, <2>2 DEF IInv, FencedWrites, InTransaction, Owned
    <3>2. CASE pc[w] = "failing"
      <4>1. row'[j] = Failed(row[j])
        BY <1>1, <1>7, <2>2, <3>2 DEF SettleCommit
      <4>2. /\ row'[j].status = IF row[j].attempts >= row[j].max THEN "dead_letter"
                                ELSE "retry"
            /\ row'[j].attempts = row[j].attempts /\ row'[j].max = row[j].max
            /\ row'[j].cancel = row[j].cancel
        BY <1>1, <4>1 DEF Failed, Row
      <4>3. QED BY <1>1, <2>1, <3>1, <4>2, ReleasedLife
    <3>3. CASE pc[w] = "cancelling"
      <4>1. row'[j] = Completed(row[j], snap[w])
        BY <1>1, <1>7, <2>2, <3>3 DEF SettleCommit
      <4>2. QED BY <1>1, <2>1, <3>1, <3>3, <4>1, CompletedLife
    <3>4. QED BY <2>1, <3>2, <3>3
  <2>3. CASE ~Fresh(w) \/ i # j
    <3>1. row'[j] = row[j]
      BY <1>1, <1>7, <2>1, <2>3 DEF SettleCommit
    <3>2. QED BY <1>2, <2>1, <3>1
  <2>4. QED BY <2>2, <2>3
<1>8. ASSUME NEW i \in Jobs, NEW s, row' = [row EXCEPT ![i] = s], applied' = applied,
             \/ s = [row[i] EXCEPT !.expired = FALSE]
             \/ s = [row[i] EXCEPT !.expired = TRUE]
             \/ s = [row[i] EXCEPT !.due = TRUE]
      PROVE  LifeStep(j)
  <2>1. row[i] \in Row
    BY <1>1
  <2>2. Same(row[i], s)
    BY <1>8, <2>1 DEF Same, Row
  <2>3. row'[j] = row[j] \/ (i = j /\ row'[j] = s)
    BY <1>1, <1>8
  <2>4. QED BY <1>2, <1>8, <2>2, <2>3, SameLife
<1>9. ASSUME NEW i \in Jobs, LeaseExpires(i) \/ BackoffElapses(i) PROVE LifeStep(j)
  BY <1>8, <1>9 DEF LeaseExpires, BackoffElapses
<1>10. ASSUME NEW w \in Workers, NEW i \in Jobs, Heartbeat(w, i) PROVE LifeStep(j)
  BY <1>8, <1>10 DEF Heartbeat
<1>11. ASSUME row' = row, applied' = applied PROVE LifeStep(j)
  BY <1>2, <1>11
<1>12. QED
  BY <1>3, <1>4, <1>5, <1>6, <1>7, <1>9, <1>10, <1>11
     DEF Next, WorkerStep, vars, RequestCancel, Begin, HandlerReturns, HandlerRaises,
         CompleteRefused, FailBegin, LostBegin, Crash, HeartbeatLost

LEMMA EffectsPreserved ==
  ASSUME IInv, \A j \in Jobs : LifeStep(j)
  PROVE  EffectsExactlyOnce'
<1> SUFFICES ASSUME NEW j \in Jobs
             PROVE  applied'[j] = IF row'[j].status = "succeeded" THEN 1 ELSE 0
  BY DEF EffectsExactlyOnce
<1>1. applied[j] = IF row[j].status = "succeeded" THEN 1 ELSE 0
  BY DEF IInv, EffectsExactlyOnce
<1>2. CASE L(j)' = L(j)
  BY <1>1, <1>2 DEF L
<1>3. CASE Lifecycle!Lives(L(j), L(j)')
  BY <1>1, <1>3 DEF L, Lifecycle!Lives, Lifecycle!Keeps, Lifecycle!Submitted,
     Lifecycle!Attempted, Lifecycle!Succeeded, Lifecycle!Released,
     Lifecycle!CancelAsked, Lifecycle!Cancelled
<1>4. QED BY <1>2, <1>3 DEF LifeStep

-----------------------------------------------------------------------------
(* The inductive invariant.                                                *)

WorkersTyped ==
  /\ pc \in [Workers -> Labels]
  /\ batch \in [Workers -> SUBSET Jobs]
  /\ cur \in [Workers -> Jobs \cup {NoJob}]
  /\ snap \in [Workers -> LoadedRow]
  /\ beating \in [Workers -> SUBSET Jobs]
  /\ lost \in [Workers -> SUBSET Jobs]

LEMMA WorkersStayTyped == IInv /\ [Next]_vars => WorkersTyped'
<1> SUFFICES ASSUME IInv, [Next]_vars PROVE WorkersTyped'
  OBVIOUS
<1> USE DEF WorkersTyped, Labels
<1>1. WorkersTyped /\ NoRow \in LoadedRow
      /\ \A w \in Workers : pc[w] \notin {"idle", "next"} => cur[w] \in Jobs
  BY AbsentRowType DEF IInv, TypeOK, HandsOK
<1>2. \A j \in Jobs : Loaded(row[j]) \in LoadedRow
  BY LoadedType DEF IInv, TypeOK
<1>3. ASSUME NEW w \in Workers, RunOnce(w) PROVE WorkersTyped'
  <2> DEFINE ready == {j \in Jobs : Leasable([i \in Jobs |-> Recovered(row[i])][j])}
  <2>1. PICK S \in Batches(ready) :
          /\ batch' = [batch EXCEPT ![w] = S]
          /\ beating' = [beating EXCEPT ![w] = S]
          /\ pc' = [pc EXCEPT ![w] = IF S = {} THEN "idle" ELSE "next"]
    BY <1>3 DEF RunOnce
  <2>2. S \in SUBSET Jobs
    BY <2>1 DEF Batches
  <2>3. QED BY <1>1, <1>3, <2>1, <2>2 DEF RunOnce
<1>4. ASSUME NEW w \in Workers, NextJob(w) PROVE WorkersTyped'
  BY <1>1, <1>4 DEF NextJob, Goto
<1>5. ASSUME NEW w \in Workers, Down(w) PROVE WorkersTyped'
  BY <1>1, <1>5 DEF Down, Goto
<1>6. ASSUME NEW w \in Workers, Begin(w) PROVE WorkersTyped'
  BY <1>1, <1>2, <1>6 DEF Begin, Goto
<1>7. ASSUME NEW w \in Workers, HandlerReturns(w) \/ HandlerRaises(w) \/ CompleteRefused(w)
      PROVE  WorkersTyped'
  BY <1>1, <1>7 DEF HandlerReturns, HandlerRaises, CompleteRefused, Goto
<1>8. ASSUME NEW w \in Workers, FailBegin(w) PROVE WorkersTyped'
  BY <1>1, <1>2, <1>4, <1>8 DEF FailBegin, Read, Goto
<1>9. ASSUME NEW w \in Workers, LostBegin(w) PROVE WorkersTyped'
  BY <1>1, <1>2, <1>4, <1>9 DEF LostBegin, Read, Goto
<1>10. ASSUME NEW w \in Workers, Complete(w) \/ SettleCommit(w) \/ Crash(w)
       PROVE  WorkersTyped'
  BY <1>4, <1>5, <1>10 DEF Complete, SettleCommit, Crash
<1>11. ASSUME NEW w \in Workers, NEW j \in Jobs, HeartbeatLost(w, j)
       PROVE  WorkersTyped'
  BY <1>1, <1>11 DEF HeartbeatLost
<1>12. ASSUME UNCHANGED workerVars PROVE WorkersTyped'
  BY <1>1, <1>12 DEF workerVars
<1>13. QED
  BY <1>3, <1>6, <1>7, <1>8, <1>9, <1>10, <1>11, <1>12
     DEF Next, WorkerStep, vars, Submit, LeaseExpires, BackoffElapses,
         RequestCancel, CommitCancel, Heartbeat

LEMMA TypePreserved == IInv /\ [Next]_vars => TypeOK'
<1> SUFFICES ASSUME IInv, [Next]_vars PROVE TypeOK'
  OBVIOUS
<1>1. TypeOK
  BY DEF IInv
<1>2. row' \in [Jobs -> Row]
  BY RowsMoveForward DEF TableStep
<1>3. WorkersTyped'
  BY WorkersStayTyped
<1>4. request' \in [Clients -> [job: Jobs \cup {NoJob}, seen: LoadedRow]]
  <2> DEFINE Requests == [job: Jobs \cup {NoJob}, seen: LoadedRow]
  <2>1. request \in [Clients -> Requests]
    BY <1>1 DEF TypeOK
  <2>2. NoRequest \in Requests
    BY AbsentRowType DEF NoRequest
  <2>3. ASSUME NEW c \in Clients, NEW j \in Jobs, RequestCancel(c, j)
        PROVE  request' \in [Clients -> Requests]
    <3>1. Loaded(row[j]) \in LoadedRow
      BY <1>1, LoadedType DEF TypeOK
    <3>2. [job |-> j, seen |-> Loaded(row[j])] \in Requests
      BY <3>1
    <3> HIDE DEF Requests
    <3>3. QED BY <2>1, <2>3, <3>2 DEF RequestCancel
  <2> HIDE DEF Requests
  <2>4. ASSUME NEW c \in Clients, CommitCancel(c)
        PROVE  request' \in [Clients -> Requests]
    BY <2>1, <2>2, <2>4 DEF CommitCancel
  <2>5. ASSUME request' = request PROVE request' \in [Clients -> Requests]
    BY <2>1, <2>5
  <2>6. request' \in [Clients -> Requests]
    BY <2>3, <2>4, <2>5
       DEF Next, WorkerStep, vars, Submit, LeaseExpires, BackoffElapses, RunOnce,
           Begin, HandlerReturns, HandlerRaises, Complete, CompleteRefused, FailBegin,
           LostBegin, SettleCommit, Crash, Heartbeat, HeartbeatLost
  <2>7. QED BY <2>6 DEF Requests
<1>5. applied' \in [Jobs -> Nat]
  <2>1. applied \in [Jobs -> Nat]
    BY <1>1 DEF TypeOK
  <2>2. ASSUME NEW w \in Workers, Complete(w) PROVE applied' \in [Jobs -> Nat]
    <3>1. cur[w] \in Jobs
      BY <2>2 DEF IInv, HandsOK, Complete
    <3>2. applied' = applied \/ applied' = [applied EXCEPT ![cur[w]] = applied[cur[w]] + 1]
      BY <2>2 DEF Complete
    <3>3. QED BY <2>1, <3>1, <3>2
  <2>3. applied' = applied \/ \E w \in Workers : Complete(w)
    BY DEF Next, WorkerStep, vars, Submit, LeaseExpires, BackoffElapses, RunOnce,
           RequestCancel, CommitCancel, Begin, HandlerReturns, HandlerRaises,
           CompleteRefused, FailBegin, LostBegin, SettleCommit, Crash, Heartbeat,
           HeartbeatLost
  <2>4. QED BY <2>1, <2>2, <2>3
<1>6. QED BY <1>2, <1>3, <1>4, <1>5 DEF TypeOK, WorkersTyped

LEMMA InitEstablishes == Init => IInv
<1> SUFFICES ASSUME Init PROVE IInv
  OBVIOUS
<1>1. TypeOK
  BY AbsentRowType DEF Init, TypeOK, Labels, NoRequest
<1>2. \A j \in Jobs : row[j] = AbsentRow
  BY DEF Init
<1>3. RowOK(AbsentRow)
  BY JobQueueAssumption DEF RowOK, AbsentRow
<1>4. \A w \in Workers : HandsOK(w)
  BY DEF Init, HandsOK
<1>5. \A c \in Clients : request[c] = NoRequest
  BY DEF Init
<1>6. FencedWrites
  BY <1>5 DEF Init, FencedWrites, InTransaction
<1>7. EffectsExactlyOnce
  BY DEF Init, EffectsExactlyOnce, AbsentRow
<1>8. QED BY <1>1, <1>2, <1>3, <1>4, <1>5, <1>6, <1>7 DEF IInv, RequestOK

LEMMA StepPreserves == IInv /\ [Next]_vars => IInv'
<1> SUFFICES ASSUME IInv, [Next]_vars PROVE IInv'
  OBVIOUS
<1>1. TypeOK'
  BY TypePreserved
<1>2. \A j \in Jobs : RowOK(row'[j])
  BY RowsMoveForward DEF TableStep
<1>3. FencedWrites' /\ (\A w \in Workers : HandsOK(w)')
      /\ (\A c \in Clients : RequestOK(c)')
  BY FencePreserved
<1>4. EffectsExactlyOnce'
  BY StepLives, EffectsPreserved
<1>5. QED BY <1>1, <1>2, <1>3, <1>4 DEF IInv

LEMMA Invariance == Spec => []IInv
BY InitEstablishes, StepPreserves, PTL DEF Spec

(* The table, the workers' transactions and the clients' requests keep     *)
(* their types, attempts stay natural and max_attempts in its bounds       *)
(* (models.py:265-283, schemas.py:60).                                     *)
THEOREM TypeCorrect == Spec => []TypeOK
<1>1. IInv => TypeOK
  BY DEF IInv
<1>2. QED BY <1>1, Invariance, PTL

(* However leases run out and are taken over, a version that is still      *)
(* current proves that its reader owns the running job and knows its       *)
(* cancel flag, and that a cancel request has seen the row as it is        *)
(* (jobs.py:72-99, models.py:40-41).                                       *)
THEOREM Fencing == Spec => []FencedWrites
<1>1. IInv => FencedWrites
  BY DEF IInv
<1>2. QED BY <1>1, Invariance, PTL

(* Of all workers that run the same job, at most one can still commit it   *)
(* (workers.py:139-156).                                                   *)
THEOREM AtMostOneCommitter == Spec => []OneCommitter
<1>1. IInv => OneCommitter
  BY DEF IInv, FencedWrites, OneCommitter, Owned
<1>2. QED BY <1>1, Invariance, PTL

(* The writes of a job's handler are committed once if the job succeeded,  *)
(* and never otherwise (workers.py:152-156).                               *)
THEOREM EffectsAppliedOnce == Spec => []EffectsExactlyOnce
<1>1. IInv => EffectsExactlyOnce
  BY DEF IInv
<1>2. QED BY <1>1, Invariance, PTL

(* The queue with its workers, leases and crashes implements JobLifecycle: *)
(* every step moves every job by one step of its life or not at all.       *)
THEOREM LifecycleImplemented == Spec => ImplementsLifecycle
<1>1. Init => Lifecycle!Init
  BY DEF Init, Lifecycle!Init, Life, Lifecycle!NewLife, AbsentRow
<1>2. IInv /\ [Next]_vars => [Lifecycle!Next]_Life
  <2> SUFFICES ASSUME IInv, [Next]_vars PROVE Lifecycle!Next
    OBVIOUS
  <2>1. \A j \in Jobs : LifeStep(j)
    BY StepLives
  <2>2. \A j \in Jobs : Life[j] = L(j) /\ Life'[j] = L(j)'
    BY DEF Life, L
  <2>3. QED BY <2>1, <2>2 DEF Lifecycle!Next, LifeStep
<1>3. QED
  BY <1>1, <1>2, Invariance, PTL DEF Spec, ImplementsLifecycle, Lifecycle!Spec

-----------------------------------------------------------------------------
(* A job whose cancellation is recorded, and that waits for a retry which  *)
(* lease will not give it.                                                 *)

Stalled(j) == row[j].cancel /\ row[j].status = "retry"

\* fail is what stalls a job, request_cancel what gets it going again.
Stalls(j) == \E w \in Workers : pc[w] = "failing" /\ cur[w] = j /\ SettleCommit(w)
AskedAgain(j) == \E c \in Clients : request[c].job = j /\ CommitCancel(c)

StallStep(j) ==
  /\ ~Stalled(j) /\ Stalled(j)' => Stalls(j)
  /\ Stalled(j) /\ ~Stalled(j)' => AskedAgain(j) /\ row'[j].status = "cancelled"

\* lease passes over a stalled job, recover_expired does not see it and makes none.
LEMMA RunOnceStalls ==
  ASSUME NEW r \in Row, NEW w \in Workers
  PROVE  /\ Recovered(r).cancel = r.cancel
         /\ Recovered(r).cancel /\ Recovered(r).status = "retry" <=> r.cancel /\ r.status = "retry"
         /\ Leasable(Recovered(r)) => ~r.cancel /\ Leased(Recovered(r), w).cancel = r.cancel
<1>1. CASE r.status = "running" /\ r.expired
  <2>1. /\ Recovered(r).cancel = r.cancel
        /\ r.cancel => Recovered(r).status = "cancelled"
    BY <1>1 DEF Recovered, Row
  <2>2. Recovered(r) \in Row
    BY RowOperations, AbsentRowType
  <2>3. QED
    BY <1>1, <2>1, <2>2 DEF Leasable, Leased, Row
<1>2. CASE ~(r.status = "running" /\ r.expired)
  <2>1. Recovered(r) = r
    BY <1>2 DEF Recovered
  <2>2. QED
    BY <2>1 DEF Leasable, Leased, Row
<1>3. QED
  BY <1>1, <1>2

\* Every step stalls a job by fail only, and ends it by another request only.
LEMMA StepStalls == IInv /\ [Next]_vars => \A j \in Jobs : StallStep(j)
<1> SUFFICES ASSUME IInv, [Next]_vars, NEW j \in Jobs PROVE StallStep(j)
  OBVIOUS
<1>1. row \in [Jobs -> Row] /\ row[j] \in Row /\ RowOK(row[j])
  BY DEF IInv, TypeOK
<1>2. ASSUME row'[j].status = row[j].status, row'[j].cancel = row[j].cancel
      PROVE  StallStep(j)
  BY <1>2 DEF StallStep, Stalled
<1>3. ASSUME NEW i \in Jobs, Submit(i) PROVE StallStep(j)
  <2>1. PICK m \in 1 .. MaxAttempts : row' = [row EXCEPT ![i] = NewRow(m)]
    BY <1>3 DEF Submit
  <2>2. CASE i = j
    BY <1>1, <1>3, <2>1, <2>2 DEF Submit, NewRow, StallStep, Stalled
  <2>3. CASE i # j
    BY <1>1, <1>2, <2>1, <2>3
  <2>4. QED BY <2>2, <2>3
<1>4. ASSUME NEW c \in Clients, CommitCancel(c) PROVE StallStep(j)
  <2> DEFINE i == request[c].job
             l == request[c].seen
  <2>1. i \in Jobs /\ l \in LoadedRow
    BY <1>4 DEF CommitCancel, IInv, RequestOK, TypeOK
  <2>2. CASE CancelRequested(l) # l /\ row[i].version = l.version /\ i = j
    <3>1. l = Loaded(row[j])
      BY <1>4, <2>2 DEF IInv, FencedWrites, CommitCancel
    <3>2. row'[j] = Flushed(row[j], CancelRequested(l))
      BY <1>1, <1>4, <2>2, Zenon DEF CommitCancel
    <3>3. /\ row'[j].status = CancelRequested(l).status
          /\ l.status = row[j].status
      BY <1>1, <3>1, <3>2 DEF Flushed, Loaded, Row
    <3>4. CancelRequested(l).status = IF l.status \in {"pending", "retry"} THEN "cancelled"
                                      ELSE l.status
      BY <2>1 DEF CancelRequested, LoadedRow
    <3>5. AskedAgain(j)
      BY <1>4, <2>2 DEF AskedAgain
    <3>6. QED BY <3>3, <3>4, <3>5 DEF StallStep, Stalled
  <2>3. CASE ~(CancelRequested(l) # l /\ row[i].version = l.version /\ i = j)
    <3>1. row' = row \/ (row' = [row EXCEPT ![i] = Flushed(@, CancelRequested(l))] /\ i # j)
      BY <1>4, <2>3 DEF CommitCancel
    <3>2. row'[j] = row[j]
      BY <1>1, <3>1
    <3>3. QED BY <1>2, <3>2
  <2>4. QED BY <2>2, <2>3
<1>5. ASSUME NEW w \in Workers, RunOnce(w) PROVE StallStep(j)
  <2> DEFINE t == [i \in Jobs |-> Recovered(row[i])]
  <2>1. PICK S \in Batches({i \in Jobs : Leasable(t[i])}) :
          row' = [i \in Jobs |-> IF i \in S THEN Leased(t[i], w) ELSE t[i]]
    BY <1>5 DEF RunOnce
  <2>2. t[j] = Recovered(row[j])
    OBVIOUS
  <2>3. CASE j \in S
    <3>1. Leasable(t[j])
      BY <2>1, <2>3 DEF Batches
    <3>2. row'[j] = Leased(t[j], w)
      BY <2>1, <2>3
    <3> HIDE DEF t
    <3>3. ~row[j].cancel /\ ~row'[j].cancel
      BY <1>1, <2>2, <3>1, <3>2, RunOnceStalls
    <3>4. QED BY <3>3 DEF StallStep, Stalled
  <2>4. CASE j \notin S
    <3>1. row'[j] = Recovered(row[j])
      BY <2>1, <2>2, <2>4
    <3>2. QED BY <1>1, <3>1, RunOnceStalls DEF StallStep, Stalled
  <2>5. QED BY <2>3, <2>4
<1>6. ASSUME NEW w \in Workers, Complete(w) PROVE StallStep(j)
  <2> DEFINE i == cur[w]
  <2>1. row[i].status = "running" /\ row' = [row EXCEPT ![i] = Completed(row[i], snap[w])]
    BY <1>6 DEF Complete, Owned
  <2>2. CASE i = j
    <3>1. row'[j] = Completed(row[j], snap[w])
      BY <1>1, <2>1, <2>2
    <3>2. row'[j].status # "retry"
      BY <1>1, <3>1 DEF Completed, Row
    <3>3. QED BY <2>1, <2>2, <3>2 DEF StallStep, Stalled
  <2>3. CASE i # j
    BY <1>1, <1>2, <2>1, <2>3
  <2>4. QED BY <2>2, <2>3
<1>7. ASSUME NEW w \in Workers, SettleCommit(w) PROVE StallStep(j)
  <2> DEFINE i == cur[w]
  <2>1. i \in Jobs /\ pc[w] \in InTransaction
    BY <1>7 DEF SettleCommit, IInv, HandsOK, InTransaction
  <2>2. CASE Fresh(w) /\ i = j
    <3>1. row[j].status = "running"
      BY <2>1, <2>2 DEF IInv, FencedWrites, Owned
    <3>2. CASE pc[w] = "failing"
      BY <1>7, <2>2, <3>1, <3>2 DEF StallStep, Stalls, Stalled
    <3>3. CASE pc[w] # "failing"
      <4>1. row'[j] = Completed(row[j], snap[w])
        BY <1>1, <1>7, <2>2, <3>3 DEF SettleCommit
      <4>2. row'[j].status # "retry"
        BY <1>1, <4>1 DEF Completed, Row
      <4>3. QED BY <3>1, <4>2 DEF StallStep, Stalled
    <3>4. QED BY <3>2, <3>3
  <2>3. CASE ~Fresh(w) \/ i # j
    <3>1. row'[j] = row[j]
      BY <1>1, <1>7, <2>1, <2>3 DEF SettleCommit
    <3>2. QED BY <1>2, <3>1
  <2>4. QED BY <2>2, <2>3
<1>8. ASSUME NEW i \in Jobs, NEW s, row' = [row EXCEPT ![i] = s],
             \/ s = [row[i] EXCEPT !.expired = FALSE]
             \/ s = [row[i] EXCEPT !.expired = TRUE]
             \/ s = [row[i] EXCEPT !.due = TRUE]
      PROVE  StallStep(j)
  <2>1. s.status = row[i].status /\ s.cancel = row[i].cancel
    BY <1>1, <1>8 DEF Row
  <2>2. row'[j] = row[j] \/ (i = j /\ row'[j] = s)
    BY <1>1, <1>8
  <2>3. QED BY <1>2, <2>1, <2>2
<1>9. ASSUME NEW i \in Jobs, LeaseExpires(i) \/ BackoffElapses(i) PROVE StallStep(j)
  BY <1>8, <1>9 DEF LeaseExpires, BackoffElapses
<1>10. ASSUME NEW w \in Workers, NEW i \in Jobs, Heartbeat(w, i) PROVE StallStep(j)
  BY <1>8, <1>10 DEF Heartbeat
<1>11. ASSUME row' = row PROVE StallStep(j)
  BY <1>2, <1>11
<1>12. QED
  BY <1>3, <1>4, <1>5, <1>6, <1>7, <1>9, <1>10, <1>11
     DEF Next, WorkerStep, vars, RequestCancel, Begin, HandlerReturns, HandlerRaises,
         CompleteRefused, FailBegin, LostBegin, Crash, HeartbeatLost

(* The one way into the state in which CancelReachesFinalState fails, and  *)
(* the one way out of it: fail() schedules a retry without looking at      *)
(* cancel_requested (jobs.py:78-89), and only another cancel request makes *)
(* the job final.  No lease, recovery, heartbeat or restart does either.   *)
THEOREM StalledUntilAskedAgain == Spec => [][\A j \in Jobs : StallStep(j)]_vars
<1>1. IInv /\ [Next]_vars => [\A j \in Jobs : StallStep(j)]_vars
  BY StepStalls
<1>2. QED
  BY <1>1, Invariance, PTL DEF Spec
=============================================================================
