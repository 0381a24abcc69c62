\* One request, whose run reports one event: no client, one attempt per job.
SPECIFICATION Spec
CONSTANTS
  k1 = k1
  k2 = k2
  q1 = q1
  q2 = q2
  q3 = q3
  Keys = {k1}
  Requests = {q1}
  Events = {e1}
  Streams = {}
  Reports = {"failed"}
  MaxAttempts = 1
  MaxCuts = 0
  None = None
PROPERTY FinalStatusStays
CHECK_DEADLOCK FALSE
