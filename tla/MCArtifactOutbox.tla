-------------------------- MODULE MCArtifactOutbox --------------------------
EXTENDS ArtifactOutbox

\* The trace in which the intent is one that delete_run has left: nothing else
\* leaves one before a workspace is deleted.
RunFirst == removal.all => \E k \in Keys : intent[k] # "none"

\* Bound: two sweepers are at work at a time only on one object, and before the
\* deletion of another is recorded.
OneObject ==
  \A s, u \in Sweepers :
    (s # u /\ sweep[s].key # NoKey /\ sweep[u].key # NoKey) =>
      \A k \in Keys : (intent[k] # "none" => (k = sweep[s].key /\ k = sweep[u].key))

MCNext == Next /\ OneObject'

MCSpec == Init /\ [][MCNext]_vars /\ Fairness
=============================================================================
