\* One job, two workers, one cancel request at a time; no symmetry, since
\* temporal properties are checked.
SPECIFICATION FairSpec
CONSTANTS
  Jobs = {j1}
  Workers = {w1, w2}
  Clients = {c1}
  MaxAttempts = 2
  BatchSize = 1
  Budget = 2
  NoWorker = NoWorker
  NoJob = NoJob
PROPERTIES
  CancelReachesFinalState
