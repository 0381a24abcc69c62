\* As MCAsyncRunner, without fairness.
SPECIFICATION Spec
CONSTANTS
  Cases = {c1, c2, c3}
  Slots = 2
  MaxRetries = 1
  Messages = 2
  Threads = TRUE
INVARIANT
  BoundedAgents
