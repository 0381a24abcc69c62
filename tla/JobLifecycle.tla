---------------------------- MODULE JobLifecycle ----------------------------
(***************************************************************************)
(* What the queue promises about its jobs, without workers, leases or row  *)
(* versions: the states a client sees through GET /jobs/{id} and how they  *)
(* may follow one another, how often a job is attempted, and how often     *)
(* what its handler wrote takes effect.  One step of the queue may move    *)
(* several jobs, each of them by one step of its life.                     *)
(***************************************************************************)
EXTENDS Naturals

CONSTANTS Jobs, MaxAttempts

VARIABLE life

NewLife == [status |-> "absent", attempts |-> 0, max |-> 1,
            cancel |-> FALSE, effects |-> 0]

Keeps(a, b, columns) == \A f \in columns : b[f] = a[f]

Submitted(a, b) ==
  /\ a.status = "absent" /\ b.status = "pending"
  /\ b.max \in 1 .. MaxAttempts
  /\ Keeps(a, b, {"attempts", "cancel", "effects"})

\* An attempt begins; if the job was running, the previous one was abandoned.
Attempted(a, b) ==
  /\ a.status \in {"pending", "retry", "running"} /\ ~a.cancel
  /\ a.attempts < a.max
  /\ b.status = "running" /\ b.attempts = a.attempts + 1
  /\ Keeps(a, b, {"max", "cancel", "effects"})

\* The handler's writes take effect, and only while nobody has asked for the
\* job to be cancelled.
Succeeded(a, b) ==
  /\ a.status = "running" /\ ~a.cancel
  /\ b.status = "succeeded" /\ b.effects = a.effects + 1
  /\ Keeps(a, b, {"attempts", "max", "cancel"})

\* The attempt came to nothing.
Released(a, b) ==
  /\ a.status = "running"
  /\ b.status = IF a.attempts < a.max THEN "retry" ELSE "dead_letter"
  /\ Keeps(a, b, {"attempts", "max", "cancel", "effects"})

CancelAsked(a, b) ==
  /\ a.status # "absent" /\ b.cancel
  /\ b.status = IF a.status \in {"pending", "retry"} THEN "cancelled" ELSE a.status
  /\ Keeps(a, b, {"attempts", "max", "effects"})

Cancelled(a, b) ==
  /\ a.status = "running" /\ a.cancel
  /\ b.status = "cancelled"
  /\ Keeps(a, b, {"attempts", "max", "cancel", "effects"})

Lives(a, b) ==
  Submitted(a, b) \/ Attempted(a, b) \/ Succeeded(a, b) \/ Released(a, b)
  \/ CancelAsked(a, b) \/ Cancelled(a, b)

Init == life = [j \in Jobs |-> NewLife]

Next == \A j \in Jobs : life'[j] = life[j] \/ Lives(life[j], life'[j])

Spec == Init /\ [][Next]_life
=============================================================================
