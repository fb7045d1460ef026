---------------------------- MODULE SceneView_proofs ----------------------------
(* The scene view's invariants for any clusters, racks and nodes, any number of *)
(* tries of the stage-ready retry, and any envelopes.                           *)
EXTENDS SceneView, TLAPS

-----------------------------------------------------------------------------
(* Types                                                                   *)

\* What each helper returns.
LEMMA HelperTypes ==
  ASSUME TypeOK
  PROVE  /\ Known \subseteq Node /\ KnownRacks \subseteq Rack
         /\ KnownClusters \subseteq Cluster /\ Valid \subseteq Prim
         /\ RackCubes \subseteq Node /\ Popped \subseteq Node
         /\ \A p : Under(p) \subseteq Known
         /\ RestoredDim \subseteq Rack \cup Node
         /\ \A S : Hide(S) \in [Node -> Status \cup {"hidden"}]
         /\ \A S, T : Recolour(Hide(S), T) \in [Node -> Status \cup {"hidden"}]
<1> USE DEF TypeOK
<1>1. /\ Known \subseteq Node /\ KnownRacks \subseteq Rack
      /\ KnownClusters \subseteq Cluster /\ Valid \subseteq Prim
  BY DEF Known, KnownRacks, KnownClusters, Valid, Prim
<1>2. RackCubes \subseteq Node /\ Popped \subseteq Node
  BY DEF RackCubes, Popped
<1>3. \A p : Under(p) \subseteq Known
  BY DEF Under
<1>4. RestoredDim \subseteq Rack \cup Node
  BY DEF RestoredDim
<1>5. \A S : Hide(S) \in [Node -> Status \cup {"hidden"}]
  BY DEF Hide
<1>6. \A S, T : Recolour(Hide(S), T) \in [Node -> Status \cup {"hidden"}]
  BY <1>5 DEF Recolour, Status
<1>7. QED
  BY <1>1, <1>2, <1>3, <1>4, <1>5, <1>6

\* The parts of the state that the messages of the client change.
SceneTypes ==
  /\ hidden \subseteq Prim
  /\ cube \in [Node -> Status \cup {"hidden"}]
  /\ suppressed \subseteq Node
  /\ persistent \subseteq Node
  /\ pulse \subseteq Node
  /\ odd \subseteq Prim
StageDTypes ==
  /\ away \in [Node -> Nat]
  /\ dim \subseteq Rack \cup Node
  /\ saved \in [Node -> Nat \cup {None}]
  /\ cache \subseteq Rack \cup Node
  /\ cachedDim \subseteq cache
  /\ inspected \in Node \cup {None}
ViewTypes ==
  /\ transparency \in BOOLEAN
  /\ view \in [stage : {"A", "B", "C", "D"}, prim : Path \cup {None}]
FrameTypes ==
  /\ loaded \in {"closed", "none", "racks", "all"}
  /\ open \in BOOLEAN
  /\ found \in {"none", "racks", "all"}
  /\ topo \in BOOLEAN
  /\ status \in [Node -> Status \cup {None}]
  /\ attempts \in 0..Attempts
  /\ frame \in BOOLEAN
  /\ early \in BOOLEAN
  /\ obedient \in Obedience

LEMMA VisibilityTypes ==
  ASSUME TypeOK
  PROVE  /\ \A p \in Cluster \cup {Ghost}, H \in SUBSET Prim :
              RacksShown(H, p) \in SUBSET Prim
         /\ \A p \in Cluster \cup {Ghost} : OnlyCluster(p) \in SUBSET Prim
         /\ \A p \in Rack \cup {Ghost} : OnlyRack(p) \in SUBSET Prim
         /\ \A n \in Node, H \in SUBSET Prim : Shown(H, n) \in SUBSET Prim
BY SceneAssumption DEF TypeOK, RacksShown, OnlyCluster, OnlyRack, Shown, Prim

LEMMA RestoreTypes ==
  ASSUME TypeOK, RestorePopped
  PROVE  away' \in [Node -> Nat] /\ saved' \in [Node -> Nat \cup {None}]
BY SceneAssumption DEF TypeOK, RestorePopped, Unsaved, Popped

LEMMA SuppressTypes ==
  ASSUME TypeOK, NEW p, SuppressOutside(p)
  PROVE  suppressed' \subseteq Node /\ persistent' \subseteq Node /\ pulse' \subseteq Node
BY HelperTypes DEF TypeOK, SuppressOutside

\* The values that initialize, cleanup and __init__ assign.
LEMMA HomeTypes ==
  /\ [n \in Node |-> "hidden"] \in [Node -> Status \cup {"hidden"}]
  /\ [n \in Node |-> 0] \in [Node -> Nat]
  /\ Unsaved \in [Node -> Nat \cup {None}]
  /\ [n \in Node |-> None] \in [Node -> Status \cup {None}]
  /\ 0 \in 0..Attempts
BY SceneAssumption DEF Unsaved

\* A message leaves the stage's own state alone.
LEMMA MessageTypes ==
  ASSUME TypeOK, Message
  PROVE  FrameTypes'
BY DEF TypeOK, Message, FrameTypes

LEMMA ClusterFocusTypes ==
  ASSUME TypeOK, NEW p \in Cluster \cup {Ghost}, NEW hide \in BOOLEAN,
         ClusterFocus(p, hide)
  PROVE  TypeOK'
<1>1. FrameTypes'
  BY MessageTypes DEF ClusterFocus
<1>2. ViewTypes'
  BY DEF ClusterFocus, ViewTypes, TypeOK, Path, Prim
<1>3. StageDTypes'
  <2>1. CASE open
    <3>1. away' \in [Node -> Nat] /\ saved' \in [Node -> Nat \cup {None}]
      BY <2>1, RestoreTypes DEF ClusterFocus
    <3>2. QED
      BY <2>1, <3>1, HelperTypes DEF ClusterFocus, ClearStageCCache, TypeOK, StageDTypes
  <2>2. CASE ~open
    BY <2>2 DEF ClusterFocus, stageDVars, TypeOK, StageDTypes
  <2>3. QED
    BY <2>1, <2>2
<1>4. SceneTypes'
  <2>1. CASE open
    <3>1. hidden' \subseteq Prim
      BY <2>1, VisibilityTypes DEF ClusterFocus, TypeOK
    <3>2. cube' \in [Node -> Status \cup {"hidden"}]
      BY <2>1, HelperTypes DEF ClusterFocus
    <3>3. QED
      BY <2>1, <3>1, <3>2, SuppressTypes DEF ClusterFocus, TypeOK, SceneTypes
  <2>2. CASE ~open
    BY <2>2 DEF ClusterFocus, TypeOK, SceneTypes
  <2>3. QED
    BY <2>1, <2>2
<1>5. QED
  BY <1>1, <1>2, <1>3, <1>4
  DEF TypeOK, SceneTypes, StageDTypes, ViewTypes, FrameTypes

LEMMA RackFocusTypes ==
  ASSUME TypeOK, NEW p \in Rack \cup {Ghost}, NEW hide \in BOOLEAN,
         RackFocus(p, hide)
  PROVE  TypeOK'
<1>1. FrameTypes'
  BY MessageTypes DEF RackFocus
<1>2. ViewTypes'
  BY DEF RackFocus, ViewTypes, TypeOK, Path, Prim
<1>3. StageDTypes'
  <2>1. CASE open
    <3>1. away' \in [Node -> Nat] /\ saved' \in [Node -> Nat \cup {None}]
      BY <2>1, RestoreTypes DEF RackFocus
    <3>2. dim' \subseteq Rack \cup Node
      BY <2>1, HelperTypes DEF RackFocus, TypeOK
    <3>3. cache' \subseteq Rack \cup Node /\ cachedDim' \subseteq cache'
      BY <2>1, HelperTypes DEF RackFocus, CacheRackNodes
    <3>4. QED
      BY <2>1, <3>1, <3>2, <3>3 DEF RackFocus, StageDTypes
  <2>2. CASE ~open
    BY <2>2 DEF RackFocus, stageDVars, TypeOK, StageDTypes
  <2>3. QED
    BY <2>1, <2>2
<1>4. SceneTypes'
  <2>1. CASE open
    <3>1. hidden' \subseteq Prim
      BY <2>1, VisibilityTypes DEF RackFocus, TypeOK
    <3>2. cube' \in [Node -> Status \cup {"hidden"}]
      BY <2>1, HelperTypes DEF RackFocus
    <3>3. QED
      BY <2>1, <3>1, <3>2, SuppressTypes DEF RackFocus, TypeOK, SceneTypes
  <2>2. CASE ~open
    BY <2>2 DEF RackFocus, TypeOK, SceneTypes
  <2>3. QED
    BY <2>1, <2>2
<1>5. QED
  BY <1>1, <1>2, <1>3, <1>4
  DEF TypeOK, SceneTypes, StageDTypes, ViewTypes, FrameTypes

LEMMA NodeInspectTypes ==
  ASSUME TypeOK, NEW p \in Node \cup {Ghost}, NodeInspect(p)
  PROVE  TypeOK'
<1>1. FrameTypes'
  BY MessageTypes DEF NodeInspect
<1>2. ViewTypes'
  BY DEF NodeInspect, ViewTypes, TypeOK, Path, Prim
<1>3. SceneTypes'
  BY HelperTypes DEF NodeInspect, overlayVars, TypeOK, SceneTypes
<1>4. StageDTypes'
  <2> DEFINE origin == IF saved[p] = None THEN away[p] ELSE saved[p]
             back == [n \in Node |-> IF n # p /\ n \in Popped
                                     THEN saved[n] ELSE away[n]]
  <2>1. back \in [Node -> Nat]
    BY SceneAssumption DEF TypeOK, Popped
  <2>2. CASE open /\ p \in Valid
    <3>1. p \in Node
      BY <2>2, SceneAssumption, HelperTypes
    <3>2. origin \in Nat
      BY <3>1, SceneAssumption DEF TypeOK
    <3>3. away' = [back EXCEPT ![p] = origin + 1] /\ saved' = [Unsaved EXCEPT ![p] = origin]
      BY <2>2 DEF NodeInspect
    <3>4. away' \in [Node -> Nat]
      <4> HIDE DEF back, origin
      <4>1. QED
        BY <2>1, <3>1, <3>2, <3>3
    <3>5. saved' \in [Node -> Nat \cup {None}]
      BY <3>2, <3>3 DEF Unsaved
    <3>6. dim' \subseteq Rack \cup Node
      BY <2>2, HelperTypes DEF NodeInspect, DimExcept, TypeOK
    <3>7. QED
      BY <2>2, <3>1, <3>4, <3>5, <3>6 DEF NodeInspect, TypeOK, StageDTypes
  <2>3. CASE open /\ p \notin Valid
    <3>1. /\ away' = back
          /\ saved' = [n \in Node |-> IF n = p THEN saved[n] ELSE None]
      BY <2>3 DEF NodeInspect
    <3>2. saved' \in [Node -> Nat \cup {None}]
      BY <3>1 DEF TypeOK
    <3>3. QED
      BY <2>1, <2>3, <3>1, <3>2, HelperTypes DEF NodeInspect, TypeOK, StageDTypes
  <2>4. CASE ~open
    BY <2>4 DEF NodeInspect, TypeOK, StageDTypes
  <2>5. QED
    BY <2>2, <2>3, <2>4
<1>5. QED
  BY <1>1, <1>2, <1>3, <1>4
  DEF TypeOK, SceneTypes, StageDTypes, ViewTypes, FrameTypes

LEMMA NodeDeselectTypes ==
  ASSUME TypeOK, NEW p \in Rack \cup {Ghost}, NodeDeselect(p)
  PROVE  TypeOK'
<1>1. FrameTypes'
  BY MessageTypes DEF NodeDeselect
<1>2. ViewTypes'
  BY DEF NodeDeselect, ViewTypes, TypeOK, Path, Prim
<1>3. SceneTypes' /\ StageDTypes'
  <2>1. CASE open
    <3>1. away' \in [Node -> Nat] /\ saved' \in [Node -> Nat \cup {None}]
      BY <2>1, RestoreTypes DEF NodeDeselect
    <3>2. cube' \in [Node -> Status \cup {"hidden"}]
      BY <2>1, HelperTypes DEF NodeDeselect
    <3>3. odd' \subseteq Prim
      BY <2>1, HelperTypes DEF NodeDeselect, TypeOK
    <3>4. QED
      BY <2>1, <3>1, <3>2, <3>3, HelperTypes
      DEF NodeDeselect, TypeOK, SceneTypes, StageDTypes
  <2>2. CASE ~open
    BY <2>2 DEF NodeDeselect, TypeOK, SceneTypes, StageDTypes
  <2>3. QED
    BY <2>1, <2>2
<1>4. QED
  BY <1>1, <1>2, <1>3
  DEF TypeOK, SceneTypes, StageDTypes, ViewTypes, FrameTypes

LEMMA RackDeselectTypes ==
  ASSUME TypeOK, NEW p \in Cluster \cup {Ghost}, RackDeselect(p)
  PROVE  TypeOK'
<1>1. FrameTypes'
  BY MessageTypes DEF RackDeselect
<1>2. ViewTypes'
  BY DEF RackDeselect, ViewTypes, TypeOK, Path, Prim
<1>3. SceneTypes' /\ StageDTypes'
  <2>1. CASE open
    <3>1. away' \in [Node -> Nat] /\ saved' \in [Node -> Nat \cup {None}]
      BY <2>1, RestoreTypes DEF RackDeselect
    <3>2. hidden' \subseteq Prim
      BY <2>1, VisibilityTypes DEF RackDeselect, TypeOK
    <3>3. cube' \in [Node -> Status \cup {"hidden"}]
      BY <2>1, HelperTypes DEF RackDeselect
    <3>4. SceneTypes'
      BY <2>1, <3>2, <3>3, SuppressTypes DEF RackDeselect, TypeOK, SceneTypes
    <3>5. StageDTypes'
      BY <2>1, <3>1, HelperTypes DEF RackDeselect, ClearStageCCache, TypeOK, StageDTypes
    <3>6. QED
      BY <3>4, <3>5
  <2>2. CASE ~open
    BY <2>2 DEF RackDeselect, stageDVars, TypeOK, SceneTypes, StageDTypes
  <2>3. QED
    BY <2>1, <2>2
<1>4. QED
  BY <1>1, <1>2, <1>3
  DEF TypeOK, SceneTypes, StageDTypes, ViewTypes, FrameTypes

LEMMA SceneResetTypes ==
  ASSUME TypeOK, SceneReset
  PROVE  TypeOK'
<1>1. FrameTypes'
  BY MessageTypes DEF SceneReset
<1>2. ViewTypes'
  BY DEF SceneReset, ViewTypes, TypeOK, Path, Prim
<1>3. SceneTypes' /\ StageDTypes'
  <2>1. CASE open
    <3>1. away' \in [Node -> Nat] /\ saved' \in [Node -> Nat \cup {None}]
      BY <2>1, RestoreTypes DEF SceneReset
    <3>2. cube' \in [Node -> Status \cup {"hidden"}]
      BY <2>1, HelperTypes DEF SceneReset
    <3>3. SceneTypes'
      BY <2>1, <3>2 DEF SceneReset, TypeOK, SceneTypes
    <3>4. StageDTypes'
      BY <2>1, <3>1, HelperTypes DEF SceneReset, ClearStageCCache, TypeOK, StageDTypes
    <3>5. QED
      BY <3>3, <3>4
  <2>2. CASE ~open
    BY <2>2 DEF SceneReset, stageDVars, TypeOK, SceneTypes, StageDTypes
  <2>3. QED
    BY <2>1, <2>2
<1>4. QED
  BY <1>1, <1>2, <1>3
  DEF TypeOK, SceneTypes, StageDTypes, ViewTypes, FrameTypes

LEMMA SetTransparencyTypes ==
  ASSUME TypeOK, NEW on \in BOOLEAN, SetTransparency(on)
  PROVE  TypeOK'
<1>1. FrameTypes'
  BY MessageTypes DEF SetTransparency
<1>2. ViewTypes'
  BY DEF SetTransparency, ViewTypes, TypeOK
<1>3. dim' \subseteq Rack \cup Node
  BY HelperTypes DEF SetTransparency, DimExcept, TypeOK
<1>4. cube' \in [Node -> Status \cup {"hidden"}]
  BY HelperTypes DEF SetTransparency, TypeOK
<1>5. QED
  BY <1>1, <1>2, <1>3, <1>4
  DEF SetTransparency, overlayVars, stageDVars, TypeOK, ViewTypes, FrameTypes

LEMMA GetTopologyTypes ==
  ASSUME TypeOK, GetTopology
  PROVE  TypeOK'
<1>1. cube' \in [Node -> Status \cup {"hidden"}] /\ odd' \subseteq Prim
  BY HelperTypes DEF GetTopology, TypeOK
<1>2. found' \in {"none", "racks", "all"} /\ topo' \in BOOLEAN
  BY DEF GetTopology, Discover, TypeOK
<1>3. QED
  BY <1>1, <1>2 DEF GetTopology, stageDVars, TypeOK

LEMMA ClientMessageTypes ==
  ASSUME TypeOK, ClientMessage
  PROVE  TypeOK'
<1>1. HideOthers[obedient] \subseteq BOOLEAN
  BY SceneAssumption DEF TypeOK
<1>2. QED
  BY <1>1, ClusterFocusTypes, RackFocusTypes, NodeInspectTypes, NodeDeselectTypes,
     RackDeselectTypes, SceneResetTypes, SetTransparencyTypes, GetTopologyTypes
  DEF ClientMessage, FocusMessage

LEMMA StageEventTypes ==
  ASSUME TypeOK, StageOpened \/ StageLoads \/ StageClosed
  PROVE  TypeOK'
<1>1. CASE StageOpened
  BY <1>1, SceneAssumption DEF StageOpened, TypeOK, overlayVars, stageDVars
<1>2. CASE StageLoads
  BY <1>2 DEF StageLoads, TypeOK, overlayVars, stageDVars
<1>3. CASE StageClosed
  <2>1. SceneTypes' /\ StageDTypes'
    BY <1>3, HomeTypes DEF StageClosed, Unsaved, TypeOK, SceneTypes, StageDTypes
  <2>2. ViewTypes'
    BY <1>3 DEF StageClosed, TypeOK, ViewTypes
  <2>3. FrameTypes'
    BY <1>3, HomeTypes DEF StageClosed, TypeOK, FrameTypes
  <2>4. QED
    BY <2>1, <2>2, <2>3 DEF TypeOK, SceneTypes, StageDTypes, ViewTypes, FrameTypes
<1>4. QED
  BY <1>1, <1>2, <1>3

LEMMA FrameStepTypes ==
  ASSUME TypeOK, BeginFrame \/ NodeState \/ EndFrame
  PROVE  TypeOK'
<1>1. CASE BeginFrame
  <2>1. CASE RetryDue /\ StageReady
    <3>1. SceneTypes' /\ StageDTypes'
      BY <1>1, <2>1, HomeTypes
      DEF BeginFrame, StageReady, Unsaved, TypeOK, SceneTypes, StageDTypes
    <3>2. attempts' \in 0..Attempts
      BY <2>1, SceneAssumption DEF RetryDue, StageReady, TypeOK
    <3>3. ViewTypes' /\ FrameTypes'
      BY <1>1, <2>1, <3>2
      DEF BeginFrame, StageReady, Discover, TypeOK, ViewTypes, FrameTypes
    <3>4. QED
      BY <3>1, <3>3 DEF TypeOK, SceneTypes, StageDTypes, ViewTypes, FrameTypes
  <2>2. CASE ~(RetryDue /\ StageReady)
    BY <1>1, <2>2 DEF BeginFrame, TypeOK
  <2>3. QED
    BY <2>1, <2>2
<1>2. CASE NodeState
  <2>1. PICK n \in Node, s \in Status : ApplyNodeState(n, s)
    BY <1>2, SceneAssumption DEF NodeState
  <2>2. hidden' \subseteq Prim
    BY <2>1, VisibilityTypes DEF ApplyNodeState, ColourCube, Show, TypeOK
  <2>3. cube' \in [Node -> Status \cup {"hidden"}]
    BY <2>1, HelperTypes DEF ApplyNodeState, ColourCube, Show, TypeOK
  <2>4. status' \in [Node -> Status \cup {None}]
    BY <2>1 DEF ApplyNodeState, TypeOK
  <2>5. persistent' \subseteq Node /\ pulse' \subseteq Node
    BY <2>1 DEF ApplyNodeState, ColourCube, TypeOK
  <2>6. QED
    BY <2>1, <2>2, <2>3, <2>4, <2>5 DEF ApplyNodeState, stageDVars, TypeOK
<1>3. CASE EndFrame
  <2>1. cube' \in [Node -> Status \cup {"hidden"}]
    BY <1>3, HelperTypes DEF EndFrame, TypeOK
  <2>2. QED
    BY <1>3, <2>1 DEF EndFrame, stageDVars, TypeOK
<1>4. QED
  BY <1>1, <1>2, <1>3

\* Every variable keeps its type, whatever the client and the stage do.
THEOREM TypeCorrect == Spec => []TypeOK
<1>1. Init => TypeOK
  <2> SUFFICES ASSUME Init PROVE TypeOK
    OBVIOUS
  <2>1. SceneTypes /\ StageDTypes
    BY HomeTypes DEF Init, Unsaved, SceneTypes, StageDTypes
  <2>2. ViewTypes /\ FrameTypes
    BY HomeTypes DEF Init, ViewTypes, FrameTypes
  <2>3. QED
    BY <2>1, <2>2 DEF TypeOK, SceneTypes, StageDTypes, ViewTypes, FrameTypes
<1>2. TypeOK /\ [Next]_vars => TypeOK'
  <2> SUFFICES ASSUME TypeOK, [Next]_vars PROVE TypeOK'
    OBVIOUS
  <2>1. CASE UNCHANGED vars
    BY <2>1 DEF TypeOK, vars, usdVars, overlayVars, stageDVars
  <2>2. QED
    BY <2>1, ClientMessageTypes, StageEventTypes, FrameStepTypes DEF Next
<1>3. QED
  BY <1>1, <1>2, PTL DEF Spec
-----------------------------------------------------------------------------
(* Opacities                                                               *)

\* Restoring undoes every dimming, and where it is not done there is none.
LEMMA RestoreUndims ==
  ASSUME DimOnlyInspecting
  PROVE  RestoredDim = {} /\ (~InStageD => dim = {})
BY DEF DimOnlyInspecting, RestoredDim, InStageD

LEMMA ClientMessageDim ==
  ASSUME TypeOK, DimOnlyInspecting, ClientMessage
  PROVE  DimOnlyInspecting'
<1> USE DEF DimOnlyInspecting
<1>1. ASSUME NEW p \in Cluster \cup {Ghost}, NEW hide, ClusterFocus(p, hide)
      PROVE  DimOnlyInspecting'
  BY <1>1, RestoreUndims DEF ClusterFocus, ClearStageCCache, stageDVars
<1>2. ASSUME NEW p \in Rack \cup {Ghost}, NEW hide, RackFocus(p, hide)
      PROVE  DimOnlyInspecting'
  BY <1>2, RestoreUndims DEF RackFocus, CacheRackNodes, stageDVars
<1>3. ASSUME NEW p \in Node \cup {Ghost}, NodeInspect(p)
      PROVE  DimOnlyInspecting'
  <2>1. CASE open /\ p \in Valid
    <3>1. p \in Node
      BY <1>3, <2>1, SceneAssumption, HelperTypes
    <3>2. p # None
      BY <3>1, SceneAssumption DEF Path, Prim
    <3>3. QED
      BY <1>3, <2>1, <3>2, RestoreUndims DEF NodeInspect, DimExcept
  <2>2. CASE open /\ p \notin Valid
    BY <1>3, <2>2, RestoreUndims DEF NodeInspect
  <2>3. CASE ~open
    BY <1>3, <2>3 DEF NodeInspect
  <2>4. QED
    BY <2>1, <2>2, <2>3
<1>4. ASSUME NEW p \in Rack \cup {Ghost}, NodeDeselect(p)
      PROVE  DimOnlyInspecting'
  BY <1>4, RestoreUndims DEF NodeDeselect
<1>5. ASSUME NEW p \in Cluster \cup {Ghost}, RackDeselect(p)
      PROVE  DimOnlyInspecting'
  BY <1>5, RestoreUndims DEF RackDeselect, ClearStageCCache, stageDVars
<1>6. ASSUME SceneReset
      PROVE  DimOnlyInspecting'
  BY <1>6, RestoreUndims DEF SceneReset, ClearStageCCache, stageDVars
<1>7. ASSUME NEW on \in BOOLEAN, SetTransparency(on)
      PROVE  DimOnlyInspecting'
  BY <1>7, RestoreUndims DEF SetTransparency, DimExcept, stageDVars
<1>8. ASSUME GetTopology
      PROVE  DimOnlyInspecting'
  BY <1>8 DEF GetTopology, stageDVars
<1>9. QED
  BY <1>1, <1>2, <1>3, <1>4, <1>5, <1>6, <1>7, <1>8 DEF ClientMessage, FocusMessage

\* Nothing is dimmed outside an inspection in transparency mode, and no dimmed
\* opacity is ever taken for an original one, whatever the client sends and
\* however often the stage-ready initialization is repeated.
THEOREM DimOnlyInspectingHolds == Spec => []DimOnlyInspecting
<1>1. Init => DimOnlyInspecting
  BY DEF Init, DimOnlyInspecting
<1>2. TypeOK /\ DimOnlyInspecting /\ [Next]_vars => DimOnlyInspecting'
  <2> SUFFICES ASSUME TypeOK, DimOnlyInspecting, [Next]_vars
               PROVE  DimOnlyInspecting'
    OBVIOUS
  <2>1. CASE ClientMessage
    BY <2>1, ClientMessageDim
  <2>2. CASE StageClosed
    BY <2>2 DEF StageClosed, DimOnlyInspecting
  <2>3. CASE StageOpened \/ StageLoads \/ BeginFrame \/ NodeState \/ EndFrame
    BY <2>3 DEF StageOpened, StageLoads, BeginFrame, NodeState, ApplyNodeState,
       EndFrame, stageDVars, DimOnlyInspecting
  <2>4. CASE UNCHANGED vars
    BY <2>4 DEF DimOnlyInspecting, vars, usdVars, stageDVars
  <2>5. QED
    BY <2>1, <2>2, <2>3, <2>4 DEF Next
<1>3. QED
  BY <1>1, <1>2, TypeCorrect, PTL DEF Spec
-----------------------------------------------------------------------------
(* The stage and what initialize leaves behind                             *)

\* No stage, or nothing indexed yet: nothing has been hidden, moved or saved.
\* What is indexed has loaded and its topology is cached, and tries are left
\* only while a stage is there.
StageInv ==
  /\ loaded = "closed" => ~open /\ attempts = 0
  /\ found # "none" => open /\ topo /\ loaded \in {found, "all"}
  /\ found = "none" => hidden = {}
  /\ ~open => hidden = {} /\ saved = Unsaved /\ away = [n \in Node |-> 0]

LEMMA NothingKnown ==
  ASSUME found = "none"
  PROVE  /\ \A H, p : RacksShown(H, p) = H
         /\ \A p : OnlyCluster(p) = hidden /\ OnlyRack(p) = hidden
         /\ KnownClusters = {} /\ KnownRacks = {} /\ Known = {}
BY DEF RacksShown, OnlyCluster, OnlyRack, KnownClusters, KnownRacks, Known

LEMMA StageNext == TypeOK /\ StageInv /\ [Next]_vars => StageInv'
<1> SUFFICES ASSUME TypeOK, StageInv, [Next]_vars PROVE StageInv'
  OBVIOUS
<1>1. CASE ClientMessage /\ ~GetTopology
  <2>1. UNCHANGED <<loaded, open, found, topo, attempts>>
    BY <1>1 DEF ClientMessage, FocusMessage, Message, ClusterFocus, RackFocus,
       NodeInspect, NodeDeselect, RackDeselect, SceneReset, SetTransparency
  <2>2. ~open => UNCHANGED <<hidden, saved, away>>
    BY <1>1 DEF ClientMessage, FocusMessage, Message, ClusterFocus, RackFocus,
       NodeInspect, NodeDeselect, RackDeselect, SceneReset, SetTransparency,
       stageDVars
  <2>3. found = "none" => hidden' = hidden
    BY <1>1, NothingKnown DEF ClientMessage, FocusMessage, ClusterFocus, RackFocus,
       NodeInspect, NodeDeselect, RackDeselect, SceneReset, SetTransparency,
       StageInv
  <2>4. QED
    BY <2>1, <2>2, <2>3 DEF StageInv, Unsaved
<1>2. CASE StageOpened \/ StageLoads
  BY <1>2 DEF StageOpened, StageLoads, StageInv, TypeOK, stageDVars, Unsaved
<1>3. CASE StageClosed
  BY <1>3 DEF StageClosed, StageInv, Unsaved
<1>4. CASE BeginFrame
  <2>1. CASE RetryDue /\ StageReady
    <3>1. loaded # "closed" /\ loaded \in {"none", "racks", "all"}
      BY <2>1, SceneAssumption DEF RetryDue, StageInv, TypeOK
    <3>2. loaded = "none" => hidden = {}
      BY DEF StageInv, TypeOK
    <3>3. QED
      BY <1>4, <2>1, <3>1, <3>2 DEF BeginFrame, StageReady, Discover, StageInv
  <2>2. CASE ~(RetryDue /\ StageReady)
    BY <1>4, <2>2 DEF BeginFrame, StageInv, Unsaved
  <2>3. QED
    BY <2>1, <2>2
<1>5. CASE NodeState
  BY <1>5 DEF NodeState, ApplyNodeState, Known, StageInv, stageDVars, Unsaved
<1>6. CASE EndFrame
  BY <1>6 DEF EndFrame, StageInv, stageDVars, Unsaved
<1>7. CASE UNCHANGED vars
  BY <1>7 DEF StageInv, vars, usdVars, stageDVars, Unsaved
<1>8. CASE GetTopology
  BY <1>8 DEF GetTopology, Discover, StageInv, TypeOK, stageDVars, Unsaved
<1>9. QED
  BY <1>1, <1>2, <1>3, <1>4, <1>5, <1>6, <1>7, <1>8 DEF Next

LEMMA StageHolds == Spec => []StageInv
<1>1. Init => StageInv
  BY DEF Init, StageInv, Unsaved
<1>2. QED
  BY <1>1, StageNext, TypeCorrect, PTL DEF Spec
-----------------------------------------------------------------------------
(* Overlay cubes                                                           *)

\* A cube shows only on a node that is indexed, and not on a suppressed one.
CubeInv ==
  \A n \in Node :
    /\ cube[n] # "hidden" => n \in Known /\ n \in persistent \cup pulse
    /\ n \in suppressed => cube[n] = "hidden" /\ n \notin persistent

\* Hiding and recolouring show nothing.
LEMMA HideShowsNothing ==
  ASSUME TypeOK, NEW S, NEW T, NEW n \in Node
  PROVE  /\ Hide(S)[n] # "hidden" => n \notin S /\ cube[n] # "hidden"
         /\ Recolour(Hide(S), T)[n] # "hidden" => n \notin S /\ cube[n] # "hidden"
BY DEF Hide, Recolour

LEMMA ClientMessageCubes ==
  ASSUME TypeOK, CubeInv, ClientMessage, ~GetTopology
  PROVE  CubeInv'
<1> SUFFICES ASSUME NEW n \in Node
             PROVE  /\ cube'[n] # "hidden" =>
                         n \in Known' /\ n \in persistent' \cup pulse'
                    /\ n \in suppressed' => cube'[n] = "hidden" /\ n \notin persistent'
  BY DEF CubeInv
<1> USE DEF CubeInv
<1>1. Known' = Known
  BY DEF Known, ClientMessage, FocusMessage, Message, ClusterFocus, RackFocus,
     NodeInspect, NodeDeselect, RackDeselect, SceneReset, SetTransparency
<1>2. ASSUME NEW p \in Cluster \cup {Ghost}, NEW hide, ClusterFocus(p, hide)
      PROVE  /\ cube'[n] # "hidden" => n \in Known /\ n \in persistent' \cup pulse'
             /\ n \in suppressed' => cube'[n] = "hidden" /\ n \notin persistent'
  <2>1. CASE open
    <3> DEFINE S == (IF InStageD THEN RackCubes ELSE {}) \cup (Known \ Under(p))
    <3>1. cube'[n] # "hidden" => n \notin Known \ Under(p) /\ cube[n] # "hidden"
      <4>1. cube' = Hide(S)
        BY <1>2, <2>1 DEF ClusterFocus
      <4>2. Hide(S)[n] # "hidden" => n \notin S /\ cube[n] # "hidden"
        BY HideShowsNothing
      <4>3. QED
        BY <4>1, <4>2
    <3> HIDE DEF S
    <3>2. QED
      BY <1>2, <2>1, <3>1 DEF ClusterFocus, SuppressOutside
  <2>2. CASE ~open
    BY <1>2, <2>2 DEF ClusterFocus
  <2>3. QED
    BY <2>1, <2>2
<1>3. ASSUME NEW p \in Rack \cup {Ghost}, NEW hide, RackFocus(p, hide)
      PROVE  /\ cube'[n] # "hidden" => n \in Known /\ n \in persistent' \cup pulse'
             /\ n \in suppressed' => cube'[n] = "hidden" /\ n \notin persistent'
  <2>1. CASE open
    <3> DEFINE S == (IF InStageD THEN RackCubes ELSE {}) \cup (Known \ Under(p))
    <3>1. cube'[n] # "hidden" => n \notin Known \ Under(p) /\ cube[n] # "hidden"
      <4>1. cube' = Hide(S)
        BY <1>3, <2>1 DEF RackFocus
      <4>2. Hide(S)[n] # "hidden" => n \notin S /\ cube[n] # "hidden"
        BY HideShowsNothing
      <4>3. QED
        BY <4>1, <4>2
    <3> HIDE DEF S
    <3>2. QED
      BY <1>3, <2>1, <3>1 DEF RackFocus, SuppressOutside
  <2>2. CASE ~open
    BY <1>3, <2>2 DEF RackFocus
  <2>3. QED
    BY <2>1, <2>2
<1>4. ASSUME NEW p \in Node \cup {Ghost}, NodeInspect(p)
      PROVE  /\ cube'[n] # "hidden" => n \in Known /\ n \in persistent' \cup pulse'
             /\ n \in suppressed' => cube'[n] = "hidden" /\ n \notin persistent'
  BY <1>4, HideShowsNothing DEF NodeInspect, overlayVars
<1>5. ASSUME NEW p \in Rack \cup {Ghost}, NodeDeselect(p)
      PROVE  /\ cube'[n] # "hidden" => n \in Known /\ n \in persistent' \cup pulse'
             /\ n \in suppressed' => cube'[n] = "hidden" /\ n \notin persistent'
  BY <1>5, HideShowsNothing DEF NodeDeselect
<1>6. ASSUME NEW p \in Cluster \cup {Ghost}, RackDeselect(p)
      PROVE  /\ cube'[n] # "hidden" => n \in Known /\ n \in persistent' \cup pulse'
             /\ n \in suppressed' => cube'[n] = "hidden" /\ n \notin persistent'
  BY <1>6, HideShowsNothing DEF RackDeselect, SuppressOutside
<1>7. ASSUME SceneReset
      PROVE  /\ cube'[n] # "hidden" => n \in Known /\ n \in persistent' \cup pulse'
             /\ n \in suppressed' => cube'[n] = "hidden" /\ n \notin persistent'
  BY <1>7, HideShowsNothing DEF SceneReset
<1>8. ASSUME NEW on \in BOOLEAN, SetTransparency(on)
      PROVE  /\ cube'[n] # "hidden" => n \in Known /\ n \in persistent' \cup pulse'
             /\ n \in suppressed' => cube'[n] = "hidden" /\ n \notin persistent'
  BY <1>8, HideShowsNothing DEF SetTransparency, overlayVars
<1>9. QED
  BY <1>1, <1>2, <1>3, <1>4, <1>5, <1>6, <1>7, <1>8 DEF ClientMessage, FocusMessage

\* Discovery shows no cube: it hides those of the nodes it finds, and there
\* is none of any other.
LEMMA GetTopologyCubes ==
  ASSUME TypeOK, CubeInv, StageInv, GetTopology
  PROVE  CubeInv'
<1>1. CASE open /\ ~topo
  <2>1. Known = {}
    BY <1>1 DEF StageInv, Known
  <2>2. \A n \in Node : cube'[n] = "hidden"
    BY <1>1, <2>1 DEF GetTopology, Hide, CubeInv
  <2>3. QED
    BY <2>2 DEF GetTopology, CubeInv
<1>2. CASE ~(open /\ ~topo)
  BY <1>2 DEF GetTopology, CubeInv, Known
<1>3. QED
  BY <1>1, <1>2

LEMMA NodeStateCubes ==
  ASSUME TypeOK, CubeInv, NodeState
  PROVE  CubeInv'
<1>1. PICK n \in Node, s \in Status : ApplyNodeState(n, s)
  BY SceneAssumption DEF NodeState
<1>2. Known' = Known
  BY <1>1 DEF ApplyNodeState, Known
<1>3. CASE open /\ n \in Known /\ n \in suppressed
  BY <1>1, <1>2, <1>3 DEF ApplyNodeState, Hide, CubeInv
<1>4. CASE open /\ n \in Known /\ n \notin suppressed
  BY <1>1, <1>2, <1>4 DEF ApplyNodeState, ColourCube, Show, Hide, CubeInv, TypeOK
<1>5. CASE ~(open /\ n \in Known)
  BY <1>1, <1>2, <1>5 DEF ApplyNodeState, CubeInv
<1>6. QED
  BY <1>3, <1>4, <1>5

LEMMA CubeNext == TypeOK /\ StageInv /\ CubeInv /\ [Next]_vars => CubeInv'
<1> SUFFICES ASSUME TypeOK, StageInv, CubeInv, [Next]_vars PROVE CubeInv'
  OBVIOUS
<1>1. CASE ClientMessage
  BY <1>1, ClientMessageCubes, GetTopologyCubes
<1>2. CASE StageOpened \/ StageLoads
  BY <1>2 DEF StageOpened, StageLoads, overlayVars, CubeInv, Known
<1>3. CASE StageClosed
  BY <1>3 DEF StageClosed, CubeInv
<1>4. CASE BeginFrame
  BY <1>4 DEF BeginFrame, StageReady, CubeInv, Known
<1>5. CASE NodeState
  BY <1>5, NodeStateCubes
<1>6. CASE EndFrame
  <2>1. Known' = Known
    BY <1>6 DEF EndFrame, Known
  <2>2. CASE PulseEnabled
    <3>1. PICK expired \in SUBSET (pulse \ suppressed) :
            /\ pulse' = (pulse \ suppressed) \ expired
            /\ cube' = Hide((suppressed \cap Known)
                            \cup (Known \ (pulse' \cup persistent)))
      BY <1>6, <2>2 DEF EndFrame
    <3>2. UNCHANGED <<suppressed, persistent>>
      BY <1>6 DEF EndFrame
    <3>3. QED
      BY <2>1, <3>1, <3>2 DEF CubeInv, Hide
  <2>3. CASE ~PulseEnabled
    BY <1>6, <2>1, <2>3 DEF EndFrame, CubeInv
  <2>4. QED
    BY <2>2, <2>3
<1>7. CASE UNCHANGED vars
  BY <1>7 DEF CubeInv, Known, vars, usdVars, overlayVars
<1>8. QED
  BY <1>1, <1>2, <1>3, <1>4, <1>5, <1>6, <1>7 DEF Next

\* No cube shows without a persistent state or a blink that will expire, and
\* none on a suppressed node, for any order of envelopes, focuses and frames.
THEOREM CubesAccountedHolds == Spec => []CubesAccounted
<1>1. Init => CubeInv
  BY DEF Init, CubeInv
<1>2. CubeInv => CubesAccounted
  BY DEF CubeInv, CubesAccounted
<1>3. QED
  BY <1>1, <1>2, CubeNext, TypeCorrect, StageHolds, PTL DEF Spec
-----------------------------------------------------------------------------
(* The client's view                                                       *)

\* An obedient client's view names a prim of the kind its stage is about.
ViewInv ==
  obedient =>
    /\ view.stage = "B" => view.prim \in Cluster
    /\ view.stage = "C" => view.prim \in Rack
    /\ view.stage = "D" => view.prim \in Node

LEMMA ViewNext == TypeOK /\ ViewInv /\ [Next]_vars => ViewInv'
<1> SUFFICES ASSUME TypeOK, ViewInv, [Next]_vars PROVE ViewInv'
  OBVIOUS
<1> USE DEF ViewInv
<1>1. ASSUME NEW p \in Cluster \cup {Ghost}, NEW hide,
             Documented("cluster_focus", p), ClusterFocus(p, hide)
      PROVE  ViewInv'
  BY <1>1 DEF ClusterFocus, Message, Documented
<1>2. ASSUME NEW p \in Rack \cup {Ghost}, NEW hide,
             Documented("rack_focus", p), RackFocus(p, hide)
      PROVE  ViewInv'
  BY <1>2 DEF RackFocus, Message, Documented
<1>3. ASSUME NEW p \in Node \cup {Ghost},
             Documented("node_inspect", p), NodeInspect(p)
      PROVE  ViewInv'
  BY <1>3 DEF NodeInspect, Message, Documented
<1>4. ASSUME NEW p \in Rack \cup {Ghost},
             Documented("node_deselect", p), NodeDeselect(p)
      PROVE  ViewInv'
  BY <1>4 DEF NodeDeselect, Message, Documented
<1>5. ASSUME NEW p \in Cluster \cup {Ghost},
             Documented("rack_deselect_to_cluster", p), RackDeselect(p)
      PROVE  ViewInv'
  BY <1>5 DEF RackDeselect, Message, Documented
<1>6. CASE SceneReset
  BY <1>6 DEF SceneReset, Message, TypeOK
<1>7. ASSUME NEW on \in BOOLEAN, SetTransparency(on)
      PROVE  ViewInv'
  BY <1>7 DEF SetTransparency, Message
<1>8. CASE StageClosed
  BY <1>8 DEF StageClosed, TypeOK
<1>9. CASE GetTopology \/ StageOpened \/ StageLoads \/ BeginFrame \/ NodeState \/ EndFrame
  BY <1>9 DEF GetTopology, StageOpened, StageLoads, BeginFrame, NodeState, ApplyNodeState, EndFrame
<1>10. CASE UNCHANGED vars
  BY <1>10 DEF vars
<1>11. QED
  BY <1>1, <1>2, <1>3, <1>4, <1>5, <1>6, <1>7, <1>8, <1>9, <1>10
  DEF Next, ClientMessage, FocusMessage

LEMMA ViewHolds == Spec => []ViewInv
<1>1. Init => ViewInv
  BY DEF Init, ViewInv
<1>2. QED
  BY <1>1, ViewNext, TypeCorrect, PTL DEF Spec

\* With a client that keeps to the documented transitions node_deselect never
\* makes an overlay cube for a prim that is no node.
THEOREM CubesOnNodesHolds == Spec => []CubesOnNodes
<1>1. Init => CubesOnNodes
  BY DEF Init, CubesOnNodes
<1>2. TypeOK /\ ViewInv /\ CubesOnNodes /\ [Next]_vars => CubesOnNodes'
  <2> SUFFICES ASSUME TypeOK, ViewInv, CubesOnNodes, [Next]_vars
               PROVE  CubesOnNodes'
    OBVIOUS
  <2> USE DEF CubesOnNodes
  <2>1. ASSUME NEW p \in Rack \cup {Ghost},
               Documented("node_deselect", p), NodeDeselect(p)
        PROVE  CubesOnNodes'
    BY <2>1 DEF NodeDeselect, Message, Documented, DeselectedPath, ViewInv
  <2>2. CASE FocusMessage
    BY <2>2 DEF FocusMessage, ClusterFocus, RackFocus, Message
  <2>3. ASSUME NEW p, NodeInspect(p) \/ RackDeselect(p) \/ SetTransparency(p)
        PROVE  CubesOnNodes'
    BY <2>3 DEF NodeInspect, RackDeselect, SetTransparency, Message, overlayVars
  <2>4. CASE SceneReset
    BY <2>4 DEF SceneReset, Message
  <2>5. CASE GetTopology \/ StageClosed \/ BeginFrame
    BY <2>5 DEF GetTopology, StageClosed, BeginFrame, StageReady
  <2>6. CASE StageOpened \/ StageLoads \/ NodeState \/ EndFrame
    BY <2>6 DEF StageOpened, StageLoads, NodeState, ApplyNodeState, EndFrame, overlayVars
  <2>7. CASE UNCHANGED vars
    BY <2>7 DEF vars, overlayVars
  <2>8. QED
    BY <2>1, <2>2, <2>3, <2>4, <2>5, <2>6, <2>7 DEF Next, ClientMessage
<1>3. QED
  BY <1>1, <1>2, TypeCorrect, ViewHolds, PTL DEF Spec
-----------------------------------------------------------------------------
(* Positions                                                               *)

\* A client message that finds the scene still retrying is an early one.
LEMMA OnTime ==
  ASSUME TypeOK, Message, ~early'
  PROVE  ~early /\ (open => attempts = 0) /\ UNCHANGED <<open, attempts>>
BY DEF TypeOK, Message

\* A node is away by one pop if and only if its home is saved, and that for at
\* most one node, in stage D; while tries are left none is.
AtHome(n) == saved[n] = None /\ away[n] = 0
OnlyPopped(n) ==
  /\ saved[n] = 0 /\ away[n] = 1 /\ view.stage = "D"
  /\ \A m \in Node \ {n} : saved[m] = None
HomeInv ==
  early \/ \A n \in Node : /\ AtHome(n) \/ OnlyPopped(n)
                           /\ attempts > 0 => AtHome(n)

\* Restoring what is popped puts every node back, and without a stage none is
\* to be put back.
LEMMA RestoreHome ==
  ASSUME TypeOK, HomeInv, ~early, RestorePopped
  PROVE  \A n \in Node : saved'[n] = None /\ away'[n] = 0
BY SceneAssumption DEF HomeInv, AtHome, OnlyPopped, RestorePopped, Popped, Unsaved

LEMMA ClosedHome ==
  ASSUME StageInv, ~open, UNCHANGED <<saved, away>>
  PROVE  \A n \in Node : saved'[n] = None /\ away'[n] = 0
BY DEF StageInv, Unsaved

LEMMA ClientMessageHome ==
  ASSUME TypeOK, StageInv, HomeInv, ClientMessage, ~GetTopology
  PROVE  HomeInv'
<1> SUFFICES ASSUME ~early' PROVE HomeInv'
  BY DEF HomeInv
<1>1. Message
  BY DEF ClientMessage, FocusMessage, ClusterFocus, RackFocus, NodeInspect,
     NodeDeselect, RackDeselect, SceneReset, SetTransparency
<1>2. ~early /\ (open => attempts = 0) /\ UNCHANGED <<open, attempts>>
  BY <1>1, OnTime
<1>3. ASSUME \A n \in Node : saved'[n] = None /\ away'[n] = 0
      PROVE  HomeInv'
  BY <1>3 DEF HomeInv, AtHome
<1>4. ASSUME NEW p, NEW hide, ClusterFocus(p, hide) \/ RackFocus(p, hide)
      PROVE  HomeInv'
  BY <1>2, <1>3, <1>4, RestoreHome, ClosedHome DEF ClusterFocus, RackFocus, stageDVars
<1>5. ASSUME NEW p \in Node \cup {Ghost}, NodeInspect(p)
      PROVE  HomeInv'
  <2> DEFINE origin == IF saved[p] = None THEN away[p] ELSE saved[p]
             back == [n \in Node |-> IF n # p /\ n \in Popped
                                     THEN saved[n] ELSE away[n]]
  <2>1. \A n \in Node \ {p} : back[n] = 0
    BY <1>2, SceneAssumption DEF HomeInv, AtHome, OnlyPopped, Popped
  <2>2. CASE open /\ p \in Valid
    <3>1. p \in Node
      BY <2>2, SceneAssumption, HelperTypes
    <3>2. origin = 0
      BY <1>2, <3>1, SceneAssumption DEF HomeInv, AtHome, OnlyPopped
    <3>3. away' = [back EXCEPT ![p] = 1] /\ saved' = [Unsaved EXCEPT ![p] = 0]
      BY <1>5, <2>2, <3>2 DEF NodeInspect
    <3>4. view'.stage = "D"
      BY <1>5 DEF NodeInspect
    <3>5. \A n \in Node \ {p} : saved'[n] = None /\ away'[n] = 0
      BY <2>1, <3>3 DEF Unsaved
    <3>6. saved'[p] = 0 /\ away'[p] = 1
      BY <3>1, <3>3 DEF Unsaved
    <3>7. QED
      BY <1>2, <2>2, <3>4, <3>5, <3>6 DEF HomeInv, AtHome, OnlyPopped
  <2>3. CASE open /\ p \notin Valid
    <3>1. /\ away' = back
          /\ saved' = [n \in Node |-> IF n = p THEN saved[n] ELSE None]
          /\ view'.stage = "D"
      BY <1>5, <2>3 DEF NodeInspect
    <3>2. \A n \in Node \ {p} : saved'[n] = None /\ away'[n] = 0
      BY <2>1, <3>1
    <3>3. p \in Node => saved'[p] = saved[p] /\ away'[p] = away[p]
      BY <3>1
    <3>4. QED
      BY <1>2, <2>3, <3>1, <3>2, <3>3 DEF HomeInv, AtHome, OnlyPopped
  <2>4. CASE ~open
    BY <1>3, <1>5, <2>4, ClosedHome DEF NodeInspect
  <2>5. QED
    BY <2>2, <2>3, <2>4
<1>6. ASSUME NEW p, NodeDeselect(p) \/ RackDeselect(p)
      PROVE  HomeInv'
  BY <1>2, <1>3, <1>6, RestoreHome, ClosedHome DEF NodeDeselect, RackDeselect, stageDVars
<1>7. CASE SceneReset
  BY <1>2, <1>3, <1>7, RestoreHome, ClosedHome DEF SceneReset, stageDVars
<1>8. ASSUME NEW on \in BOOLEAN, SetTransparency(on)
      PROVE  HomeInv'
  BY <1>2, <1>8 DEF SetTransparency, stageDVars, HomeInv, AtHome, OnlyPopped
<1>9. QED
  BY <1>4, <1>5, <1>6, <1>7, <1>8 DEF ClientMessage, FocusMessage

LEMMA HomeNext == TypeOK /\ StageInv /\ HomeInv /\ [Next]_vars => HomeInv'
<1> SUFFICES ASSUME TypeOK, StageInv, HomeInv, [Next]_vars PROVE HomeInv'
  OBVIOUS
<1> USE DEF HomeInv, AtHome, OnlyPopped
<1>1. CASE ClientMessage /\ ~GetTopology
  BY <1>1, ClientMessageHome
<1>2. CASE StageOpened
  <2>1. \A n \in Node : AtHome(n)
    BY <1>2, ClosedHome DEF StageOpened, StageInv, Unsaved
  <2>2. QED
    BY <1>2, <2>1 DEF StageOpened, stageDVars
<1>3. CASE StageClosed
  BY <1>3 DEF StageClosed, Unsaved
<1>4. CASE BeginFrame
  <2>1. CASE RetryDue /\ StageReady
    BY <1>4, <2>1 DEF BeginFrame, RetryDue, StageReady, Unsaved
  <2>2. CASE ~(RetryDue /\ StageReady)
    BY <1>4, <2>2 DEF BeginFrame
  <2>3. QED
    BY <2>1, <2>2
<1>5. CASE GetTopology \/ StageLoads \/ NodeState \/ EndFrame
  BY <1>5 DEF GetTopology, StageLoads, NodeState, ApplyNodeState, EndFrame, stageDVars
<1>6. CASE UNCHANGED vars
  BY <1>6 DEF vars, usdVars, stageDVars
<1>7. QED
  BY <1>1, <1>2, <1>3, <1>4, <1>5, <1>6 DEF Next

\* In a scene the client left alone until it was complete at most one node is
\* popped, by one distance and in stage D only, whatever it sends afterwards.
THEOREM SceneHomeHolds == Spec => []SceneHome
<1>1. Init => HomeInv
  BY DEF Init, HomeInv, AtHome
<1>2. TypeOK /\ HomeInv => SceneHome
  BY SceneAssumption DEF HomeInv, AtHome, OnlyPopped, SceneHome
<1>3. QED
  BY <1>1, <1>2, HomeNext, TypeCorrect, StageHolds, PTL DEF Spec
-----------------------------------------------------------------------------
(* Visibility                                                              *)

\* Nodes whose rack or cluster is hidden are suppressed.
Covered ==
  \A n \in Known :
    RackOf[n] \in hidden \/ ClusterOf[RackOf[n]] \in hidden => n \in suppressed

\* What an obedient client views is not hidden, nor is a cluster's every rack.
InSight ==
  /\ view.stage = "B" => /\ view.prim \notin hidden
                         /\ \A r \in Rack : ClusterOf[r] = view.prim => r \notin hidden
  /\ view.stage = "C" => view.prim \notin hidden /\ ClusterOf[view.prim] \notin hidden
  /\ view.stage = "D" => /\ RackOf[view.prim] \notin hidden
                         /\ ClusterOf[RackOf[view.prim]] \notin hidden

\* No node of its own is hidden, and nothing at all in stage A or while tries
\* are left.
HiddenInv ==
  Careful /\ ~early =>
    /\ hidden \subseteq Cluster \cup Rack
    /\ view.stage = "A" \/ attempts > 0 => hidden = {}
    /\ Covered
    /\ obedient => InSight

\* What the next state has to satisfy when the present one is subject to it.
LEMMA HiddenStep ==
  ASSUME UNCHANGED obedient, early => early',
         Careful /\ ~early /\ ~early' =>
           /\ hidden' \subseteq Cluster \cup Rack
           /\ view'.stage = "A" \/ attempts' > 0 => hidden' = {}
           /\ Covered'
           /\ obedient => InSight'
  PROVE  HiddenInv'
BY DEF HiddenInv, Careful

LEMMA NothingHidden ==
  ASSUME hidden' = {}
  PROVE  Covered' /\ InSight'
BY DEF Covered, InSight

\* Focusing a cluster shows its racks, and it if it has one, and no more.
LEMMA ClusterShown ==
  ASSUME NEW H, NEW p
  PROVE  /\ RacksShown(H, p) \subseteq H
         /\ found # "none" => \A r \in Rack :
              ClusterOf[r] = p => r \notin RacksShown(H, p) /\ p \notin RacksShown(H, p)
BY DEF RacksShown, KnownRacks

\* A focus leaves unsuppressed only what is below its prim.
LEMMA CoveredByFocus ==
  ASSUME TypeOK, NEW p, SuppressOutside(p), UNCHANGED found,
         \A n \in Known : p = RackOf[n] \/ p = ClusterOf[RackOf[n]] =>
           RackOf[n] \notin hidden' /\ ClusterOf[RackOf[n]] \notin hidden'
  PROVE  Covered'
BY DEF Covered, SuppressOutside, Under, Known

LEMMA ClusterFocusHidden ==
  ASSUME TypeOK, StageInv, HiddenInv, NEW p \in Cluster \cup {Ghost},
         NEW hide \in BOOLEAN, Documented("cluster_focus", p), ClusterFocus(p, hide)
  PROVE  HiddenInv'
<1>1. UNCHANGED <<obedient, found>> /\ (early => early')
  BY DEF ClusterFocus, Message
<1>2. SUFFICES ASSUME Careful, ~early, ~early'
               PROVE  /\ hidden' \subseteq Cluster \cup Rack
                      /\ view'.stage = "A" \/ attempts' > 0 => hidden' = {}
                      /\ Covered'
                      /\ obedient => InSight'
  BY <1>1, HiddenStep
<1>3. (open => attempts = 0) /\ UNCHANGED <<open, attempts>>
  BY <1>2, OnTime DEF ClusterFocus
<1>4. view' = [stage |-> "B", prim |-> p]
  BY DEF ClusterFocus
<1>5. CASE found = "none"
  <2>1. hidden' = {}
    BY <1>5, NothingKnown DEF ClusterFocus, StageInv
  <2>2. QED
    BY <2>1, NothingHidden
<1>6. CASE found # "none"
  <2> DEFINE H == IF hide THEN OnlyCluster(p) ELSE hidden
  <2>1. open /\ hidden' = RacksShown(H, p) /\ SuppressOutside(p)
    BY <1>6 DEF StageInv, ClusterFocus
  <2>2. H \subseteq Cluster \cup Rack
    BY <1>2 DEF HiddenInv, OnlyCluster
  <2>3. hidden' \subseteq H
    BY <2>1, ClusterShown
  <2>4. \A r \in Rack : ClusterOf[r] = p => r \notin hidden' /\ p \notin hidden'
    BY <1>6, <2>1, ClusterShown
  <2>5. Covered'
    <3>1. \A n \in Known : p = RackOf[n] \/ p = ClusterOf[RackOf[n]] =>
            RackOf[n] \notin hidden' /\ ClusterOf[RackOf[n]] \notin hidden'
      BY <2>4, SceneAssumption, HelperTypes DEF Prim
    <3>2. QED
      BY <1>1, <2>1, <3>1, CoveredByFocus
  <2>6. obedient => p \notin hidden'
    <3>1. CASE hide
      BY <1>6, <2>3, <3>1 DEF OnlyCluster
    <3>2. CASE ~hide
      BY <1>2, <2>3, <3>2 DEF HiddenInv, Documented
    <3>3. QED
      BY <3>1, <3>2
  <2>7. QED
    BY <1>3, <1>4, <2>1, <2>2, <2>3, <2>4, <2>5, <2>6 DEF InSight
<1>7. QED
  BY <1>5, <1>6

LEMMA RackFocusHidden ==
  ASSUME TypeOK, StageInv, ViewInv, HiddenInv, NEW p \in Rack \cup {Ghost},
         NEW hide \in HideOthers[obedient], hide \in BOOLEAN,
         Documented("rack_focus", p), RackFocus(p, hide)
  PROVE  HiddenInv'
<1>1. UNCHANGED <<obedient, found>> /\ (early => early')
  BY DEF RackFocus, Message
<1>2. SUFFICES ASSUME Careful, ~early, ~early'
               PROVE  /\ hidden' \subseteq Cluster \cup Rack
                      /\ view'.stage = "A" \/ attempts' > 0 => hidden' = {}
                      /\ Covered'
                      /\ obedient => InSight'
  BY <1>1, HiddenStep
<1>3. (open => attempts = 0) /\ UNCHANGED <<open, attempts>>
  BY <1>2, OnTime DEF RackFocus
<1>4. view' = [stage |-> "C", prim |-> p]
  BY DEF RackFocus
<1>5. CASE found = "none"
  <2>1. hidden' = {}
    BY <1>5, NothingKnown DEF RackFocus, StageInv
  <2>2. QED
    BY <2>1, NothingHidden
<1>6. CASE found # "none"
  <2>1. open /\ SuppressOutside(p) /\ hidden' = IF hide THEN OnlyRack(p) ELSE hidden
    BY <1>6 DEF StageInv, RackFocus
  <2>2. hidden' \subseteq Cluster \cup Rack
    BY <1>2, <2>1 DEF HiddenInv, OnlyRack
  <2>3. p \in Rack => p \notin hidden' /\ ClusterOf[p] \notin hidden'
    <3>1. CASE hide
      BY <1>6, <2>1, <3>1, SceneAssumption DEF OnlyRack, Prim
    <3>2. CASE ~hide
      <4>1. obedient
        BY <1>2, <3>2 DEF Careful
      <4>2. view.stage = "B" /\ ClusterOf[p] = view.prim
        BY <4>1 DEF Documented
      <4>3. QED
        BY <1>2, <2>1, <3>2, <4>1, <4>2 DEF HiddenInv, InSight
    <3>3. QED
      BY <3>1, <3>2
  <2>4. Covered'
    <3>1. \A n \in Known : p = RackOf[n] \/ p = ClusterOf[RackOf[n]] =>
            RackOf[n] \notin hidden' /\ ClusterOf[RackOf[n]] \notin hidden'
      BY <2>3, SceneAssumption, HelperTypes DEF Prim
    <3>2. QED
      BY <1>1, <2>1, <3>1, CoveredByFocus
  <2>5. obedient => p \in Rack
    BY DEF Documented
  <2>6. QED
    BY <1>3, <1>4, <2>1, <2>2, <2>3, <2>4, <2>5 DEF InSight
<1>7. QED
  BY <1>5, <1>6

LEMMA RackDeselectHidden ==
  ASSUME TypeOK, StageInv, ViewInv, HiddenInv, NEW p \in Cluster \cup {Ghost},
         Documented("rack_deselect_to_cluster", p), RackDeselect(p)
  PROVE  HiddenInv'
<1>1. UNCHANGED <<obedient, found>> /\ (early => early')
  BY DEF RackDeselect, Message
<1>2. SUFFICES ASSUME Careful, ~early, ~early'
               PROVE  /\ hidden' \subseteq Cluster \cup Rack
                      /\ view'.stage = "A" \/ attempts' > 0 => hidden' = {}
                      /\ Covered'
                      /\ obedient => InSight'
  BY <1>1, HiddenStep
<1>3. (open => attempts = 0) /\ UNCHANGED <<open, attempts>>
  BY <1>2, OnTime DEF RackDeselect
<1>4. view' = [stage |-> "B", prim |-> p]
  BY DEF RackDeselect
<1>5. CASE found = "none"
  <2>1. hidden' = {}
    BY <1>5, NothingKnown DEF RackDeselect, StageInv
  <2>2. QED
    BY <2>1, NothingHidden
<1>6. CASE found # "none"
  <2>1. open /\ hidden' = RacksShown(hidden, p) /\ SuppressOutside(p)
    BY <1>6 DEF StageInv, RackDeselect
  <2>2. hidden' \subseteq hidden /\ hidden' \subseteq Cluster \cup Rack
    BY <1>2, <2>1, ClusterShown DEF HiddenInv
  <2>3. \A r \in Rack : ClusterOf[r] = p => r \notin hidden' /\ p \notin hidden'
    BY <1>6, <2>1, ClusterShown
  <2>4. Covered'
    <3>1. \A n \in Known : p = RackOf[n] \/ p = ClusterOf[RackOf[n]] =>
            RackOf[n] \notin hidden' /\ ClusterOf[RackOf[n]] \notin hidden'
      BY <2>3, SceneAssumption, HelperTypes DEF Prim
    <3>2. QED
      BY <1>1, <2>1, <3>1, CoveredByFocus
  <2>5. obedient => p \notin hidden'
    BY <2>3 DEF Documented, ViewInv
  <2>6. QED
    BY <1>3, <1>4, <2>1, <2>2, <2>3, <2>4, <2>5 DEF InSight
<1>7. QED
  BY <1>5, <1>6

\* The other messages hide nothing; only a reset moves the view to stage A.
LEMMA OtherMessageHidden ==
  ASSUME TypeOK, StageInv, ViewInv, HiddenInv,
         \/ \E p \in Node \cup {Ghost} : Documented("node_inspect", p) /\ NodeInspect(p)
         \/ \E p \in Rack \cup {Ghost} : Documented("node_deselect", p) /\ NodeDeselect(p)
         \/ SceneReset
         \/ \E on \in BOOLEAN : SetTransparency(on)
  PROVE  HiddenInv'
<1>1. Message
  BY DEF NodeInspect, NodeDeselect, SceneReset, SetTransparency
<1>2. UNCHANGED <<obedient, found>> /\ (early => early')
  BY <1>1 DEF Message
<1>3. SUFFICES ASSUME Careful, ~early, ~early'
               PROVE  /\ hidden' \subseteq Cluster \cup Rack
                      /\ view'.stage = "A" \/ attempts' > 0 => hidden' = {}
                      /\ Covered'
                      /\ obedient => InSight'
  BY <1>2, HiddenStep
<1>4. (open => attempts = 0) /\ UNCHANGED <<open, attempts>>
  BY <1>1, <1>3, OnTime
<1> USE DEF HiddenInv, InSight
<1>5. ASSUME NEW p \in Node \cup {Ghost}, Documented("node_inspect", p), NodeInspect(p)
      PROVE  /\ hidden' \subseteq Cluster \cup Rack
             /\ view'.stage = "A" \/ attempts' > 0 => hidden' = {}
             /\ Covered'
             /\ obedient => InSight'
  <2>1. UNCHANGED <<hidden, suppressed>> /\ view' = [stage |-> "D", prim |-> p]
    BY <1>5 DEF NodeInspect, overlayVars
  <2>2. obedient => InSight'
    BY <1>3, <1>5, <2>1 DEF Documented
  <2>3. QED
    BY <1>2, <1>3, <1>4, <2>1, <2>2 DEF Covered, Known
<1>6. ASSUME NEW p \in Rack \cup {Ghost}, Documented("node_deselect", p), NodeDeselect(p)
      PROVE  /\ hidden' \subseteq Cluster \cup Rack
             /\ view'.stage = "A" \/ attempts' > 0 => hidden' = {}
             /\ Covered'
             /\ obedient => InSight'
  <2>1. UNCHANGED <<hidden, suppressed>> /\ view' = [stage |-> "C", prim |-> p]
    BY <1>6 DEF NodeDeselect
  <2>2. obedient => InSight'
    BY <1>3, <1>6, <2>1 DEF Documented
  <2>3. QED
    BY <1>2, <1>3, <1>4, <2>1, <2>2 DEF Covered, Known
<1>7. CASE SceneReset
  <2>1. hidden' = {}
    BY <1>3, <1>7 DEF SceneReset, StageInv, KnownClusters, KnownRacks
  <2>2. QED
    BY <2>1, NothingHidden
<1>8. ASSUME NEW on \in BOOLEAN, SetTransparency(on)
      PROVE  /\ hidden' \subseteq Cluster \cup Rack
             /\ view'.stage = "A" \/ attempts' > 0 => hidden' = {}
             /\ Covered'
             /\ obedient => InSight'
  BY <1>2, <1>3, <1>4, <1>8 DEF SetTransparency, overlayVars, Covered, Known
<1>9. QED
  BY <1>5, <1>6, <1>7, <1>8

\* Discovery outside the retry finds something only where nothing was indexed,
\* and there nothing has been hidden.
LEMMA GetTopologyHidden ==
  ASSUME TypeOK, StageInv, HiddenInv, GetTopology
  PROVE  HiddenInv'
<1>1. UNCHANGED <<hidden, suppressed, view, attempts, obedient, early>>
  BY DEF GetTopology
<1>2. CASE open /\ ~topo
  <2>1. hidden' = {}
    BY <1>1, <1>2 DEF StageInv
  <2>2. QED
    BY <1>1, <2>1, NothingHidden, HiddenStep
<1>3. CASE ~(open /\ ~topo)
  <2>1. UNCHANGED found
    BY <1>3 DEF GetTopology
  <2>2. QED
    BY <1>1, <2>1, HiddenStep DEF HiddenInv, Covered, InSight, Known
<1>4. QED
  BY <1>2, <1>3

\* An envelope for a node that is not suppressed finds nothing to reveal.
LEMMA EnvelopeReveals ==
  ASSUME TypeOK, HiddenInv, Careful, ~early, NEW n \in Node, NEW s \in Status,
         ApplyNodeState(n, s)
  PROVE  hidden' = hidden
<1>1. CASE open /\ n \in Known /\ n \notin suppressed
  <2>1. n \notin hidden /\ RackOf[n] \notin hidden /\ ClusterOf[RackOf[n]] \notin hidden
    BY <1>1, SceneAssumption DEF HiddenInv, Covered
  <2>2. Shown(hidden, n) = hidden
    BY <2>1 DEF Shown
  <2>3. QED
    BY <1>1, <2>2 DEF ApplyNodeState, ColourCube, Show
<1>2. CASE ~(open /\ n \in Known /\ n \notin suppressed)
  BY <1>2 DEF ApplyNodeState
<1>3. QED
  BY <1>1, <1>2

LEMMA HiddenNext ==
  TypeOK /\ StageInv /\ ViewInv /\ HiddenInv /\ [Next]_vars => HiddenInv'
<1> SUFFICES ASSUME TypeOK, StageInv, ViewInv, HiddenInv, [Next]_vars
             PROVE  HiddenInv'
  OBVIOUS
<1>1. CASE ClientMessage
  <2>1. HideOthers[obedient] \subseteq BOOLEAN
    BY SceneAssumption DEF TypeOK
  <2>2. QED
    BY <1>1, <2>1, ClusterFocusHidden, RackFocusHidden, RackDeselectHidden,
       OtherMessageHidden, GetTopologyHidden
    DEF ClientMessage, FocusMessage
<1>2. CASE StageOpened
  <2>1. hidden' = {} /\ UNCHANGED <<obedient, early>>
    BY <1>2 DEF StageOpened, StageInv
  <2>2. QED
    BY <2>1, NothingHidden, HiddenStep
<1>3. CASE StageClosed
  <2>1. hidden' = {}
    BY <1>3 DEF StageClosed
  <2>2. QED
    BY <2>1, NothingHidden DEF HiddenInv
<1>4. CASE BeginFrame
  <2>1. UNCHANGED <<hidden, obedient, early, view>>
    BY <1>4 DEF BeginFrame
  <2>2. CASE RetryDue /\ StageReady
    <3>1. Careful /\ ~early => hidden' = {}
      BY <2>1, <2>2 DEF RetryDue, HiddenInv
    <3>2. QED
      BY <2>1, <3>1, NothingHidden, HiddenStep
  <2>3. CASE ~(RetryDue /\ StageReady)
    BY <1>4, <2>1, <2>3, HiddenStep DEF BeginFrame, HiddenInv, Covered, InSight, Known
  <2>4. QED
    BY <2>2, <2>3
<1>5. CASE NodeState
  <2>1. PICK n \in Node, s \in Status : ApplyNodeState(n, s)
    BY <1>5, SceneAssumption DEF NodeState
  <2>2. Careful /\ ~early => hidden' = hidden
    BY <2>1, EnvelopeReveals
  <2>3. UNCHANGED <<found, suppressed, view, attempts, obedient, early>>
    BY <2>1 DEF ApplyNodeState
  <2>4. QED
    BY <2>2, <2>3, HiddenStep DEF HiddenInv, Covered, InSight, Known
<1>6. CASE StageLoads \/ EndFrame \/ UNCHANGED vars
  <2>1. UNCHANGED <<hidden, found, suppressed, view, attempts, obedient, early>>
    BY <1>6 DEF StageLoads, EndFrame, overlayVars, vars, usdVars
  <2>2. QED
    BY <2>1, HiddenStep DEF HiddenInv, Covered, InSight, Known
<1>7. QED
  BY <1>1, <1>2, <1>3, <1>4, <1>5, <1>6 DEF Next

LEMMA HiddenHolds == Spec => []HiddenInv
<1>1. Init => HiddenInv
  BY DEF Init, HiddenInv, Covered, InSight, Known
<1>2. QED
  BY <1>1, HiddenNext, TypeCorrect, StageHolds, ViewHolds, PTL DEF Spec

\* The nodes of a hidden rack or cluster are suppressed, for a client that keeps
\* to the protocol or never turns hide_others off, once the scene is complete.
THEOREM HiddenCoveredHolds == Spec => []HiddenCovered
<1>1. TypeOK /\ HiddenInv => HiddenCovered
  <2> SUFFICES ASSUME TypeOK, HiddenInv, Careful, ~early, NEW n \in Known,
                      {n, RackOf[n], ClusterOf[RackOf[n]]} \cap hidden # {}
               PROVE  n \in suppressed
    BY DEF HiddenCovered
  <2>1. n \notin hidden
    BY HelperTypes, SceneAssumption DEF HiddenInv
  <2>2. QED
    BY <2>1 DEF HiddenInv, Covered
<1>2. QED
  BY <1>1, HiddenHolds, TypeCorrect, PTL

\* No envelope changes what such a client has made visible or hidden.
THEOREM NeverRevealsHolds == Spec => NeverReveals
<1>1. TypeOK /\ HiddenInv /\ [Next]_vars =>
        [NodeState /\ Careful /\ ~early => hidden' = hidden]_vars
  <2> SUFFICES ASSUME TypeOK, HiddenInv, NodeState, Careful, ~early
               PROVE  hidden' = hidden
    OBVIOUS
  <2>1. PICK n \in Node, s \in Status : ApplyNodeState(n, s)
    BY SceneAssumption DEF NodeState
  <2>2. QED
    BY <2>1, EnvelopeReveals
<1>2. QED
  BY <1>1, HiddenHolds, TypeCorrect, PTL DEF Spec, NeverReveals

\* What an obedient client has in view is never inside something hidden.
THEOREM FocusVisibleHolds == Spec => []FocusVisible
<1>1. TypeOK /\ ViewInv /\ HiddenInv => FocusVisible
  <2> SUFFICES ASSUME TypeOK, ViewInv, HiddenInv, obedient, ~early,
                      view.stage # "A", NEW p \in hidden
               PROVE  /\ p # view.prim
                      /\ view.prim \in Rack => p # ClusterOf[view.prim]
                      /\ view.prim \in Node =>
                           p \notin {RackOf[view.prim], ClusterOf[RackOf[view.prim]]}
    BY DEF FocusVisible
  <2>1. InSight /\ hidden \subseteq Cluster \cup Rack
    BY DEF HiddenInv, Careful
  <2>2. view.stage \in {"B", "C", "D"}
    BY DEF TypeOK
  <2>3. CASE view.stage = "B"
    BY <2>1, <2>3, SceneAssumption DEF InSight, ViewInv
  <2>4. CASE view.stage = "C"
    BY <2>1, <2>4, SceneAssumption DEF InSight, ViewInv
  <2>5. CASE view.stage = "D"
    BY <2>1, <2>5, SceneAssumption DEF InSight, ViewInv
  <2>6. QED
    BY <2>2, <2>3, <2>4, <2>5
<1>2. QED
  BY <1>1, HiddenHolds, ViewHolds, TypeCorrect, PTL
=============================================================================
