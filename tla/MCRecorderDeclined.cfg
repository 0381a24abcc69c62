SPECIFICATION Spec
CONSTANTS
  Main = t1
  Tasks = {t1}
  Conversations = {c1}
  Turns = {u1}
  Spans = {s1, s2}
  Handoffs = {h1}
  Agents = {a1, a2}
  None = None
CHECK_DEADLOCK FALSE
INVARIANTS
  StatusNeedsTarget
