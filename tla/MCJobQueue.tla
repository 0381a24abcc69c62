---------------------------- MODULE MCJobQueue ----------------------------
EXTENDS JobQueue, FiniteSetsExt, TLC

CONSTANT Budget  \* attempts that all jobs may make together

Attempts(rows) == MapThenSumSet(LAMBDA j : rows[j].max, {j \in Jobs : rows[j].status # "absent"})

\* The bound is on what clients submit, of which no fairness is asked.
MCNext == Next /\ Attempts(row') <= Budget

MCSpec == Init /\ [][MCNext]_vars /\ Fairness

=============================================================================
