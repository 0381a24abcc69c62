\* As MCArtifactOutbox with one event id, which may be ingested again while an
\* earlier object of it is still being deleted.
SPECIFICATION Spec
CONSTANTS
  Keys = {k1}
  Runs = {r1, r2}
  Requests = {q1}
  Handlers = {h1}
  Sweepers = {s1, s2}
  MaxAttempts = 2
  Overlap = TRUE
  NoRun = NoRun
  NoKey = NoKey
  NoSweeper = NoSweeper
INVARIANT
  RowHasBlob
