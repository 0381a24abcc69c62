----------------------------- MODULE RunReport -----------------------------
(***************************************************************************)
(* What a run of the evaluation runner promises its caller: every case is  *)
(* settled once, as cancelled only if somebody asked for it; the run ends  *)
(* with one verdict on all of its cases, or raises, and nothing changes    *)
(* after that.                                                             *)
(***************************************************************************)
CONSTANT Cases

VARIABLES
  outcome,  \* how each case ended, "none" while it has not
  asked,    \* has cancellation been asked for?
  report    \* "none", "raised", or the status of the run

vars == <<outcome, asked, report>>

Outcomes == {"completed", "failed", "timed_out", "cancelled"}

Init ==
  /\ outcome = [c \in Cases |-> "none"]
  /\ asked = FALSE
  /\ report = "none"

Ask == asked' = TRUE /\ UNCHANGED <<outcome, report>>

Settle(c, o) ==
  /\ report = "none" /\ outcome[c] = "none"
  /\ o = "cancelled" => asked
  /\ outcome' = [outcome EXCEPT ![c] = o]
  /\ UNCHANGED <<asked, report>>

All(S) == \A c \in Cases : outcome[c] \in S
None(S) == \A c \in Cases : outcome[c] \notin S

\* The verdict; a run of no cases may be given any but "partial".
Fits(r) ==
  CASE r = "completed" -> All({"completed"})
    [] r = "cancelled" -> All({"cancelled"})
    [] r = "failed"    -> None({"completed", "cancelled"})
    [] r = "partial"   -> /\ ~All({"completed"}) /\ ~All({"cancelled"})
                          /\ ~None({"completed", "cancelled"})

Publish(r) ==
  /\ report = "none" /\ None({"none"})
  /\ Fits(r)
  /\ report' = r
  /\ UNCHANGED <<outcome, asked>>

Raise == report = "none" /\ report' = "raised" /\ UNCHANGED <<outcome, asked>>

Next ==
  \/ Ask \/ Raise
  \/ \E c \in Cases, o \in Outcomes : Settle(c, o)
  \/ \E r \in {"completed", "cancelled", "failed", "partial"} : Publish(r)

Spec == Init /\ [][Next]_vars
=============================================================================
