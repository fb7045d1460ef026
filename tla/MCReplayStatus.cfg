SPECIFICATION Spec
CONSTANTS
  Task = {t1}
  Request = {r1}
  Client = {c1}
  t1 = t1
  r1 = r1
  c1 = c1
  None = None
  Steps = 2
  EventSteps = {}
  Speeds = {1}
CHECK_DEADLOCK FALSE
SYMMETRY ReplaySymmetry
INVARIANTS
  StatusTruthful
