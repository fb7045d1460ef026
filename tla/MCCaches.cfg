SPECIFICATION Spec
CONSTANTS
  n1 = n1
  n2 = n2
  c1 = c1
  v1 = v1
  v2 = v2
  None = None
  Node = {n1, n2}
  Cluster = {c1}
  Value = {v1, v2}
  Status = {"HEALTHY", "CRITICAL", "MISSING"}
  ValidStatus = {"HEALTHY", "CRITICAL"}
  LiveSize = 1
  EventSize = 3
  NodeEventSize = 2
INVARIANTS
  TypeOK
  EventsAgree
  ReturnAccountsForAll
PROPERTIES
  ShutdownEnds
