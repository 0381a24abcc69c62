-------------------------- MODULE HandoffLifecycle --------------------------
(***************************************************************************)
(* What a reader of a trace may rely on about the handoffs in it: each is  *)
(* requested once, by a span that stays its source; it is given at most    *)
(* one target, before it is accepted; and it ends once.  One step may move *)
(* several handoffs, or one of them twice.                                 *)
(***************************************************************************)
CONSTANTS Handoffs, None

VARIABLE life

NewLife == [status |-> "none", source |-> None, target |-> None]

Final == {"completed", "failed", "cancelled"}

After == [none |-> {"requested"},
          requested |-> {"accepted", "failed", "cancelled"},
          accepted |-> Final, completed |-> {}, failed |-> {}, cancelled |-> {}]

\* One move, or two in one step: requested and given a target, given a target
\* and accepted.
Moves(a, b) ==
  /\ b.status # a.status => b.status \in After[a.status]
  /\ a.status # "none" => b.source = a.source
  /\ a.target # None => b.target = a.target
  /\ b.target # a.target => a.status \in {"none", "requested"}
                             /\ b.status \in {"requested", "accepted"}
  /\ b.status = "accepted" => b.target # None

Init == life = [h \in Handoffs |-> NewLife]

Next == \A h \in Handoffs : life'[h] = life[h] \/ Moves(life[h], life'[h])

Spec == Init /\ [][Next]_life
=============================================================================
