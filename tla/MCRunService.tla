---------------------------- MODULE MCRunService ----------------------------
(***************************************************************************)
(* Requests that race for a key, an event that reports something final or  *)
(* not, and a client that follows a run.                                   *)
(***************************************************************************)
EXTENDS RunService

CONSTANTS k1, k2, q1, q2, q3

MCReports == {"running", "failed"}

Used == {q \in Requests : request[q].state # "new"}
Followed == \E c \in Streams : stream[c].run # None

\* Requests are alike, and keys are: the next request is the first new one, and q1
\* takes k1.
InOrder ==
  /\ q2 \in Used => q1 \in Used
  /\ q3 \in Used => q2 \in Used
  /\ request[q1].key # k2

\* Bound: a client follows a run while there is one request, an event is ingested
\* while there are two.  With more than one request, jobs of requests have one attempt
\* and the event does not report a final status.
FewAtOnce ==
  /\ Followed => Used \subseteq {q1}
  /\ q3 \in Used => \A e \in Events : event[e].run = None
  /\ q2 \in Used => /\ \A e \in Events : event[e].status = "running"
                    /\ \A q \in Requests : job[q].attempts <= 1

\* The bounds are on what clients submit and workers lease, of which no fairness is
\* asked.
MCNext == Next /\ InOrder' /\ FewAtOnce'

MCSpec == Init /\ [][MCNext]_vars /\ \A c \in Streams : WF_vars(Follow(c))
=============================================================================
