SPECIFICATION Spec
CONSTANTS
  Cluster = {c1, c2}
  Rack = {r1, r2}
  Node = {n1, n2}
  c1 = c1
  c2 = c2
  r1 = r1
  r2 = r2
  n1 = n1
  n2 = n2
  n3 = n3
  ClusterOf <- MCClusterOf
  RackOf <- MCRackOf
  Ghost = Ghost
  None = None
  HideOthers <- MCHideOthers
  Obedience = {TRUE, FALSE}
  Envelope <- OneReports
  Attempts = 2
  PulseEnabled = FALSE
INVARIANTS
  TypeOK
  DimOnlyInspecting
  SceneHome
  FocusVisible
  CubesOnNodes
