SPECIFICATION Spec
CONSTANTS
  Task = {t1, t2}
  Request = {r1, r2}
  Client = {c1, c2}
  t1 = t1
  t2 = t2
  r1 = r1
  r2 = r2
  c1 = c1
  c2 = c2
  None = None
  Steps = 2
  EventSteps = {2}
  Speeds = {0, 1}
CHECK_DEADLOCK FALSE
INVARIANTS
  TypeOK
  OnlyOverlapOrphans
  PauseBound
PROPERTIES
  PlayerImplemented
  RequestsReturn
  ReplayEnds
