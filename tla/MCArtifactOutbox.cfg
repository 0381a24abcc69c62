\* Two event ids ingested again and again by a request and a handler, a run that
\* comes and goes, two fair sweepers, two attempts; no event id is ingested again
\* while an earlier object of it is being deleted; no symmetry, since a temporal
\* property is checked.
SPECIFICATION MCSpec
CONSTANTS
  Keys = {k1, k2}
  Runs = {r1}
  Requests = {q1}
  Handlers = {h1}
  Sweepers = {s1, s2}
  MaxAttempts = 2
  Overlap = FALSE
  NoRun = NoRun
  NoKey = NoKey
  NoSweeper = NoSweeper
INVARIANTS
  TypeOK
  RowHasBlob
PROPERTY
  EventuallyDeleted
