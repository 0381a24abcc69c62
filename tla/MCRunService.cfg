\* Three requests under two keys, one of which may name the run of another, an
\* event of a run and a client, whose stream ends early twice; no symmetry, since
\* temporal properties are checked.
SPECIFICATION MCSpec
CONSTANTS
  k1 = k1
  k2 = k2
  q1 = q1
  q2 = q2
  q3 = q3
  Keys = {k1, k2}
  Requests = {q1, q2, q3}
  Events = {e1}
  Streams = {c1}
  Reports <- MCReports
  MaxAttempts = 2
  MaxCuts = 2
  None = None
INVARIANTS TypeOK AnswersAgree NothingForgotten StatusHasSource
PROPERTIES IdsIncrease ClientLearns
CHECK_DEADLOCK FALSE
