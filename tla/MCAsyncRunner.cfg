\* Three cases of two messages on two slots, one retry, any failure and any
\* cancellation at any time.
SPECIFICATION FairSpec
CONSTANTS
  Cases = {c1, c2, c3}
  Slots = 2
  MaxRetries = 1
  Messages = 2
  Threads = TRUE
INVARIANTS
  TypeOK
  BoundedWaiting
  ClosedLast
PROPERTIES
  NothingNewAfterCancel
  ImplementsRunReport
  EventuallyOver
