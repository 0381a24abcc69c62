----------------------------- MODULE MCRecorder -----------------------------
(***************************************************************************)
(* Two tasks, two conversations, two turns, three spans, one handoff and   *)
(* one agent.  Only the first task is told apart from the others.          *)
(***************************************************************************)
EXTENDS Recorder, FiniteSets, TLC

Symmetric == Permutations(Conversations) \cup Permutations(Turns) \cup Permutations(Spans)
             \cup Permutations(Agents)

\* Bound: a trace that a caller has misused is followed up to its second span,
\* one with a turn id that two conversations have up to its first.
MisusedIsSmall ==
  /\ misused => Cardinality(Present(span)) <= 2
  /\ reused # {} => Cardinality(Present(span)) <= 1
=============================================================================
