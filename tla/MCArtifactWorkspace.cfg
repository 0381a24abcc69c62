\* As MCArtifactOutbox with one event id and a request alone as ingester; a run is
\* deleted before the workspace is.
SPECIFICATION Spec
CONSTRAINT RunFirst
CONSTANTS
  Keys = {k1}
  Runs = {r1}
  Requests = {q1}
  Handlers = {}
  Sweepers = {s1, s2}
  MaxAttempts = 2
  Overlap = FALSE
  NoRun = NoRun
  NoKey = NoKey
  NoSweeper = NoSweeper
INVARIANT
  PendingHasJob
