\* One job with two attempts or two jobs in one batch with one each, two workers
\* that may overtake each other, one cancel request at a time; no symmetry, since
\* temporal properties are checked.
SPECIFICATION MCSpec
CONSTANTS
  Jobs = {j1, j2}
  Workers = {w1, w2}
  Clients = {c1}
  MaxAttempts = 2
  Budget = 2
  BatchSize = 2
  NoWorker = NoWorker
  NoJob = NoJob
INVARIANTS
  TypeOK
  FencedWrites
  OneCommitter
  EffectsExactlyOnce
PROPERTIES
  ImplementsLifecycle
  EventuallySettled
  OrphansReclaimed
