SPECIFICATION Spec
CONSTANTS
  MaxStages = 2
  MaxEvents = 4
  ClusterPanels <- MCClusterPanels
  HiddenPrim = {"A0"}
  MaxPose = 2
  DefaultPose = 0
  TotalFrames = 3
  Attempts = 2
  None = None
INVARIANTS
  GuardTrue
  PanelsComplete
  OverlayOwned
  OverviewIsHome
PROPERTIES
  NoDetour
