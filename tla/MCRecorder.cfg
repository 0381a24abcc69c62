SPECIFICATION Spec
CONSTANTS
  Main = t1
  Tasks = {t1, t2}
  Conversations = {c1, c2}
  Turns = {u1, u2}
  Spans = {s1, s2, s3}
  Handoffs = {h1}
  Agents = {a1}
  None = None
SYMMETRY Symmetric
CONSTRAINT MisusedIsSmall
CHECK_DEADLOCK FALSE
INVARIANTS
  TypeOK
  ValidInGoodUse
PROPERTIES
  TargetSettles
  ImplementsHandoffLifecycle
