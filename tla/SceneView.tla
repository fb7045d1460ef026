------------------------------- MODULE SceneView -------------------------------
(***************************************************************************)
(* The scene side of the extension: the stage events that make the scene   *)
(* manager look for the topology, the messages of the React client that    *)
(* move between view stages A (pod), B (cluster), C (rack) and D (node),   *)
(* and the node-state envelopes that colour the nodes' overlay cubes.      *)
(*                                                                         *)
(* Everything runs on Kit's main thread.  A client message is handled      *)
(* between two frames; a frame is BeginFrame (stage-ready retry), any      *)
(* number of ApplyNodeState (the drained queue) and EndFrame (tick_pulse). *)
(*                                                                         *)
(* The USD stage is kept apart from what the scene manager believes of it: *)
(* a position is a number of pops away from home, an opacity is dimmed or  *)
(* not, a cube is hidden or has a colour.  Camera, alerts, event panels    *)
(* and the topology built from the REST answer are left out; every node    *)
(* has the materials its handles are made of.                              *)
(***************************************************************************)
EXTENDS Naturals

CONSTANTS
  Cluster, Rack, Node,  \* prims of the scene
  ClusterOf, RackOf,    \* [Rack -> Cluster] and [Node -> Rack]
  Ghost,                \* a path that names no prim
  Obedience,            \* which clients: those that make the documented
                        \* transitions only (TRUE), any others (FALSE)
  HideOthers,           \* values of hide_others each of them sends
  Envelope,             \* <<node, status>> pairs that may arrive
  Attempts,             \* tries of the stage-ready retry; 20 in the code
  PulseEnabled,         \* GLASS_CUBE_PULSE_ENABLED
  None

Status == {"HEALTHY", "DISCONNECTED", "MISSING"}
Down == {"DISCONNECTED", "MISSING"}
Prim == Cluster \cup Rack \cup Node
Path == Prim \cup {Ghost}

ASSUME SceneAssumption ==
  /\ ClusterOf \in [Rack -> Cluster]
  /\ RackOf \in [Node -> Rack]
  /\ Cluster \cap Rack = {} /\ Cluster \cap Node = {} /\ Rack \cap Node = {}
  /\ Ghost \notin Prim
  /\ None \notin Path /\ None \notin Nat /\ None \notin Status
  /\ HideOthers \in [Obedience -> SUBSET BOOLEAN]
  /\ Obedience \subseteq BOOLEAN
  /\ Envelope \subseteq Node \X Status
  /\ Attempts \in Nat \ {0}
  /\ PulseEnabled \in BOOLEAN

VARIABLES
  \* the USD stage
  loaded,       \* what references have loaded; "closed" without a stage
  hidden,       \* prims authored invisible
  cube,         \* overlay cube of each node: "hidden" or the colour it shows
  away,         \* distance of each node from home, in pops
  dim,          \* racks and nodes with the dimmed opacity
  \* SceneManager
  open,         \* _stage is set
  found,        \* what the last discover_topology indexed
  topo,         \* _topology_cache is not empty
  suppressed,   \* _glass_cube_suppressed_nodes
  persistent,   \* _node_persistent_overlay
  pulse,        \* keys of _node_pulse_start
  status,       \* _node_status
  odd,          \* keys of _glass_cube_cache that are no indexed node
  saved,        \* _node_original_translate
  cache,        \* prims with a cached opacity handle (stage C cache)
  cachedDim,    \* those of them whose cached original is the dimmed opacity
  inspected,    \* _current_inspected_node
  transparency, \* _transparency_enabled
  \* extension
  view,         \* _view_stage: stage and primPath
  attempts,     \* _stage_ready_attempts_remaining
  frame,        \* inside _on_update
  early,        \* history: a client message other than get_topology reached
                \* a scene still retrying
  obedient      \* the client of this behaviour is one that obeys

usdVars == <<loaded, hidden, cube, away, dim>>
overlayVars == <<suppressed, persistent, pulse, odd>>
stageDVars == <<saved, cache, cachedDim, inspected>>
vars == <<usdVars, open, found, topo, overlayVars, status, stageDVars,
          transparency, view, attempts, frame, early, obedient>>

TypeOK ==
  /\ loaded \in {"closed", "none", "racks", "all"}
  /\ hidden \subseteq Prim
  /\ cube \in [Node -> Status \cup {"hidden"}]
  /\ away \in [Node -> Nat]
  /\ dim \subseteq Rack \cup Node
  /\ open \in BOOLEAN
  /\ found \in {"none", "racks", "all"}
  /\ topo \in BOOLEAN
  /\ suppressed \subseteq Node
  /\ persistent \subseteq Node
  /\ pulse \subseteq Node
  /\ status \in [Node -> Status \cup {None}]
  /\ odd \subseteq Prim
  /\ saved \in [Node -> Nat \cup {None}]
  /\ cache \subseteq Rack \cup Node
  /\ cachedDim \subseteq cache
  /\ inspected \in Node \cup {None}
  /\ transparency \in BOOLEAN
  /\ view \in [stage : {"A", "B", "C", "D"}, prim : Path \cup {None}]
  /\ attempts \in 0..Attempts
  /\ frame \in BOOLEAN
  /\ early \in BOOLEAN
  /\ obedient \in Obedience

Init ==
  /\ loaded = "closed"
  /\ hidden = {} /\ dim = {}
  /\ cube = [n \in Node |-> "hidden"]
  /\ away = [n \in Node |-> 0]
  /\ open = FALSE /\ found = "none" /\ topo = FALSE
  /\ suppressed = {} /\ persistent = {} /\ pulse = {} /\ odd = {}
  /\ status = [n \in Node |-> None]
  /\ saved = [n \in Node |-> None]
  /\ cache = {} /\ cachedDim = {} /\ inspected = None
  /\ transparency = TRUE
  /\ view = [stage |-> "A", prim |-> None]
  /\ attempts = 0 /\ frame = FALSE /\ early = FALSE
  /\ obedient \in Obedience
-----------------------------------------------------------------------------
(* Indexes and visibility                                                  *)

\* Prims the scene manager has indexed, and prims the stage has.
Known == IF found = "all" THEN Node ELSE {}
KnownRacks == IF found = "none" THEN {} ELSE Rack
KnownClusters == IF found = "none" THEN {} ELSE Cluster
Valid == CASE loaded = "all" -> Prim
           [] loaded = "racks" -> Cluster \cup Rack
           [] OTHER -> {}

\* discover_topology: what the index holds then, and whether a topology is
\* cached.  Finding nothing may still leave an empty one, which counts as one.
Discover ==
  /\ found' = IF loaded \in {"racks", "all"} THEN loaded ELSE "none"
  /\ topo' \in IF loaded = "none" THEN BOOLEAN ELSE {TRUE}

\* Indexed nodes below a rack or a cluster.
Under(p) == {n \in Known : p \in {RackOf[n], ClusterOf[RackOf[n]]}}

\* UsdGeom MakeVisible: hidden ancestors become visible too, and hide the
\* other children they have.
Shown(H, n) ==
  LET r == RackOf[n]
      c == ClusterOf[r]
  IN  (H \ {n, r, c})
      \cup {s \in Rack \ {r} : c \in H /\ ClusterOf[s] = c}
      \cup {m \in Node \ {n} : {c, r} \cap H # {} /\ RackOf[m] = r}

\* _set_other_clusters_visibility and _set_other_racks_visibility
OnlyCluster(p) == IF found = "none" THEN hidden
                  ELSE (hidden \ {p}) \cup (Cluster \ {p})
MutOnlyRack(p) == IF found = "none" THEN hidden ELSE hidden \cup Rack
OnlyRack(p) ==
  IF found = "none" THEN hidden
  ELSE (hidden \ {q \in Prim : p \in Rack /\ q \in {p, ClusterOf[p]}})
       \cup (Rack \ {p})

\* _set_cluster_racks_visibility
RacksShown(H, c) ==
  LET racks == {r \in KnownRacks : ClusterOf[r] = c}
  IN  H \ (racks \cup {ClusterOf[r] : r \in racks})

\* Cubes after _hide_glass_cube on some, _reset_node_color on others.
Hide(S) == [n \in Node |-> IF n \in S THEN "hidden" ELSE cube[n]]
Recolour(c, S) ==
  [n \in Node |-> IF n \in S /\ c[n] # "hidden" THEN "HEALTHY" ELSE c[n]]

\* Slip: what was suppressed before is replaced.
MutSuppressReplaced(p) ==
  /\ suppressed' = suppressed \ Under(p)
  /\ pulse' = pulse \ (Known \ Under(p))
  /\ persistent' = persistent \ (Known \ Under(p))

\* _unsuppress_glass_cubes below p, _suppress_glass_cubes elsewhere.
SuppressOutside(p) ==
  /\ suppressed' = (suppressed \ Under(p)) \cup (Known \ Under(p))
  /\ pulse' = pulse \ (Known \ Under(p))
  /\ persistent' = persistent \ (Known \ Under(p))
-----------------------------------------------------------------------------
(* Stage D: popped node, dimmed siblings                                   *)

Popped == {n \in Node : saved[n] # None}
RackCubes == cache \cap Node
InStageD == inspected # None \/ Popped # {}
Unsaved == [n \in Node |-> None]

\* _restore_rack_nodes_opacity and _set_rack_siblings_opacity (its opacities)
MutRestoredDim == dim
RestoredDim == (dim \ cache) \cup cachedDim
DimExcept(d, p) == d \cup (cache \ {p})

\* _clear_stage_c_cache
ClearStageCCache == cache' = {} /\ cachedDim' = {}

\* _cache_rack_nodes: the opacities are taken for the originals as they are;
\* a rack that is not indexed has none.
CacheRackNodes(p) ==
  /\ cache' = (KnownRacks \cap {p}) \cup Under(p)
  /\ cachedDim' = cache' \cap dim'

\* _restore_popped_nodes
MutRestorePopped == saved' = Unsaved /\ UNCHANGED away
RestorePopped ==
  /\ away' = [n \in Node |-> IF n \in Popped THEN saved[n] ELSE away[n]]
  /\ saved' = Unsaved

\* A client message comes between two frames.
Message ==
  /\ ~frame
  /\ early' = (early \/ (open /\ attempts > 0))
  /\ UNCHANGED <<loaded, open, found, topo, status, attempts, frame, obedient>>
-----------------------------------------------------------------------------
(* Messages of the client (MessageHandler._on_incoming_message)            *)

\* cluster_focus, A -> B.  Without a stage only the view changes.
ClusterFocus(p, hide) ==
  /\ Message
  /\ view' = [stage |-> "B", prim |-> p]
  /\ UNCHANGED <<transparency, odd>>
  /\ IF open
     THEN /\ hidden' = RacksShown(IF hide THEN OnlyCluster(p) ELSE hidden, p)
          /\ RestorePopped
          /\ SuppressOutside(p)
          /\ inspected' = None
          /\ IF InStageD
             THEN /\ dim' = RestoredDim
                  /\ ClearStageCCache
                  /\ cube' = Hide(RackCubes \cup (Known \ Under(p)))
             ELSE /\ UNCHANGED <<dim, cache, cachedDim>>
                  /\ cube' = Hide(Known \ Under(p))
     ELSE UNCHANGED <<hidden, cube, away, dim, suppressed, persistent, pulse,
                      stageDVars>>

\* rack_focus, B -> C: leaves stage D, then caches the opacities it finds.
RackFocus(p, hide) ==
  /\ Message
  /\ view' = [stage |-> "C", prim |-> p]
  /\ UNCHANGED <<transparency, odd>>
  /\ IF open
     THEN /\ hidden' = IF hide THEN OnlyRack(p) ELSE hidden
          /\ RestorePopped
          /\ SuppressOutside(p)
          /\ inspected' = None
          /\ dim' = IF InStageD THEN RestoredDim ELSE dim
          /\ CacheRackNodes(p)
          /\ cube' = Hide((IF InStageD THEN RackCubes ELSE {})
                          \cup (Known \ Under(p)))
     ELSE UNCHANGED <<hidden, cube, away, dim, suppressed, persistent, pulse,
                      stageDVars>>

\* node_inspect, C -> D.  An invalid prim ends it after the restoring part.
NodeInspect(p) ==
  LET origin == IF saved[p] = None THEN away[p] ELSE saved[p]
      back == [n \in Node |-> IF n # p /\ n \in Popped
                              THEN saved[n] ELSE away[n]]
  IN
  /\ Message
  /\ view' = [stage |-> "D", prim |-> p]
  /\ UNCHANGED <<hidden, transparency, overlayVars, cache, cachedDim>>
  /\ cube' = IF open THEN Hide(RackCubes) ELSE cube
  /\ \/ /\ open /\ p \in Valid
        /\ away' = [back EXCEPT ![p] = origin + 1]
        /\ saved' = [Unsaved EXCEPT ![p] = origin]
        /\ inspected' = p
        /\ dim' = IF transparency THEN DimExcept(RestoredDim, p)
                  ELSE RestoredDim
     \/ /\ open /\ p \notin Valid
        /\ away' = back
        /\ saved' = [n \in Node |-> IF n = p THEN saved[n] ELSE None]
        /\ dim' = RestoredDim
        /\ UNCHANGED inspected
     \/ /\ ~open
        /\ UNCHANGED <<away, saved, inspected, dim>>

\* The handler takes the path the view has last named for the node.
MutDeselectedPath(p) == p
DeselectedPath(p) == view.prim

\* node_deselect, D -> C.  A prim without a cube gets one from
\* _reset_node_color.
NodeDeselect(p) ==
  /\ Message
  /\ view.prim # None
  /\ view' = [stage |-> "C", prim |-> p]
  /\ UNCHANGED <<hidden, transparency, suppressed, persistent, pulse, cache,
                 cachedDim>>
  /\ IF open
     THEN /\ RestorePopped
          /\ dim' = RestoredDim
          /\ inspected' = None
          /\ cube' = Recolour(Hide(RackCubes), {DeselectedPath(p)} \cap Known)
          /\ odd' = odd \cup (({DeselectedPath(p)} \cap Valid) \ Known)
     ELSE UNCHANGED <<cube, away, dim, odd, saved, inspected>>

\* rack_deselect_to_cluster, C -> B.
RackDeselect(p) ==
  /\ Message
  /\ view' = [stage |-> "B", prim |-> p]
  /\ UNCHANGED <<transparency, odd>>
  /\ IF open
     THEN /\ RestorePopped
          /\ dim' = RestoredDim
          /\ inspected' = None /\ ClearStageCCache
          /\ SuppressOutside(p)
          /\ hidden' = RacksShown(hidden, p)
          /\ cube' = Recolour(Hide(RackCubes \cup (Known \ Under(p))), Known)
     ELSE UNCHANGED <<hidden, cube, away, dim, suppressed, persistent, pulse,
                      stageDVars>>

\* scene_reset, any stage -> A; the view keeps its primPath.
SceneReset ==
  /\ Message
  /\ view' = [view EXCEPT !.stage = "A"]
  /\ UNCHANGED <<transparency, persistent, pulse, odd>>
  /\ IF open
     THEN /\ suppressed' = {}
          /\ hidden' = hidden \ (KnownClusters \cup KnownRacks)
          /\ RestorePopped
          /\ dim' = RestoredDim
          /\ inspected' = None /\ ClearStageCCache
          /\ cube' = Recolour(Hide(RackCubes), Known)
     ELSE UNCHANGED <<hidden, cube, away, dim, suppressed, stageDVars>>

\* set_transparency_mode: at once if a node is inspected.
SetTransparency(on) ==
  /\ Message
  /\ transparency' = on
  /\ UNCHANGED <<hidden, away, overlayVars, stageDVars, view>>
  /\ IF inspected # None
     THEN /\ dim' = IF on THEN DimExcept(dim, inspected) ELSE RestoredDim
          /\ cube' = Hide(RackCubes)
     ELSE UNCHANGED <<dim, cube>>

\* get_topology: without a cached topology it looks for one itself, outside
\* the retry and without initialize; the cubes it finds are made anew.
GetTopology ==
  /\ ~frame
  /\ IF open /\ ~topo
     THEN Discover /\ cube' = Hide(Known') /\ odd' = odd \ Known'
     ELSE UNCHANGED <<found, topo, cube, odd>>
  /\ UNCHANGED <<loaded, hidden, away, dim, open, suppressed, persistent,
                 pulse, status, stageDVars, transparency, view, attempts,
                 frame, early, obedient>>

\* The transitions the protocol table documents: A -> B -> C -> D and back,
\* each to a prim below or above the one in view.  The handlers test nothing.
Documented(type, p) ==
  obedient =>
    /\ p # Ghost
    /\ CASE type = "cluster_focus" -> view.stage = "A"
         [] type = "rack_focus" ->
              view.stage = "B" /\ ClusterOf[p] = view.prim
         [] type = "node_inspect" ->
              \/ view.stage = "C" /\ RackOf[p] = view.prim
              \/ view.stage = "D" /\ RackOf[p] = RackOf[view.prim]
         [] type = "node_deselect" ->
              view.stage = "D" /\ p = RackOf[view.prim]
         [] type = "rack_deselect_to_cluster" ->
              view.stage = "C" /\ p = ClusterOf[view.prim]

FocusMessage ==
  \E hide \in HideOthers[obedient] :
    \/ \E p \in Cluster \cup {Ghost} :
         Documented("cluster_focus", p) /\ ClusterFocus(p, hide)
    \/ \E p \in Rack \cup {Ghost} :
         Documented("rack_focus", p) /\ RackFocus(p, hide)

ClientMessage ==
  \/ FocusMessage
  \/ \E p \in Node \cup {Ghost} :
       Documented("node_inspect", p) /\ NodeInspect(p)
  \/ \E p \in Rack \cup {Ghost} :
       Documented("node_deselect", p) /\ NodeDeselect(p)
  \/ \E p \in Cluster \cup {Ghost} :
       Documented("rack_deselect_to_cluster", p) /\ RackDeselect(p)
  \/ SceneReset
  \/ \E on \in BOOLEAN : SetTransparency(on)
  \/ GetTopology
-----------------------------------------------------------------------------
(* Stage events                                                            *)

\* OPENED schedules the tries; what has loaded by then is not known.
StageOpened ==
  /\ ~frame /\ loaded = "closed"
  /\ loaded' \in {"none", "racks", "all"}
  /\ attempts' = Attempts
  /\ UNCHANGED <<hidden, cube, away, dim, open, found, topo, overlayVars,
                 status, stageDVars, transparency, view, frame, early, obedient>>

\* References go on loading.
StageLoads ==
  /\ \/ loaded = "none" /\ loaded' \in {"racks", "all"}
     \/ loaded = "racks" /\ loaded' = "all"
  /\ UNCHANGED <<hidden, cube, away, dim, open, found, topo, overlayVars,
                 status, stageDVars, transparency, view, attempts, frame,
                 early, obedient>>

\* CLOSED: cleanup, view back to A.  Unsaved edits go with the stage.
StageClosed ==
  /\ ~frame /\ loaded # "closed"
  /\ loaded' = "closed"
  /\ hidden' = {} /\ dim' = {}
  /\ cube' = [n \in Node |-> "hidden"]
  /\ away' = [n \in Node |-> 0]
  /\ open' = FALSE /\ found' = "none"
  /\ suppressed' = {} /\ persistent' = {} /\ odd' = {}
  /\ saved' = Unsaved /\ cache' = {} /\ cachedDim' = {} /\ inspected' = None
  /\ view' = [view EXCEPT !.stage = "A"]
  /\ attempts' = 0 /\ early' = FALSE
  /\ UNCHANGED <<topo, pulse, status, transparency, frame, obedient>>

\* _on_stage_ready: initialize and discover_topology.  The cubes are made
\* anew; positions, opacities and visibility stay as the client left them.
StageReady ==
  /\ open' = TRUE
  /\ Discover
  /\ cube' = [n \in Node |-> "hidden"]
  /\ suppressed' = {} /\ persistent' = {} /\ odd' = {}
  /\ saved' = Unsaved
  /\ attempts' = IF loaded = "all" THEN 0 ELSE attempts - 1

MutRetryDue == attempts >= 0 /\ loaded # "closed"
RetryDue == attempts > 0

\* _on_update: the retry comes first; it may also be waiting its frames.  A try
\* in which the discovery or the manifest raises is left to CameraFlight.
BeginFrame ==
  /\ ~frame /\ frame' = TRUE
  /\ \/ RetryDue /\ StageReady
     \/ UNCHANGED <<open, found, topo, cube, suppressed, persistent, odd,
                    saved, attempts>>
  /\ UNCHANGED <<loaded, hidden, away, dim, pulse, status, cache, cachedDim,
                 inspected, transparency, view, early, obedient>>
-----------------------------------------------------------------------------
(* Node states                                                             *)

\* _show_glass_cube and the colour of status s.
Show(n, s) ==
  /\ cube' = [cube EXCEPT ![n] = s]
  /\ hidden' = Shown(hidden, n)

\* apply_node_state for a cube that is not suppressed.
MutColourCube(n, s) ==
  /\ Show(n, s)
  /\ persistent' = IF s \in Down THEN persistent \cup {n} ELSE persistent \ {n}
  /\ pulse' = pulse \ {n}
ColourCube(n, s) ==
  IF s \in Down
  THEN /\ Show(n, s)
       /\ persistent' = persistent \cup {n}
       /\ pulse' = pulse \ {n}
  ELSE /\ persistent' = persistent \ {n}
       /\ IF PulseEnabled
          THEN Show(n, s) /\ pulse' = pulse \cup {n}
          ELSE cube' = Hide({n}) /\ pulse' = pulse \ {n} /\ UNCHANGED hidden

\* apply_node_state: lost without a stage, dropped for an unknown node.
ApplyNodeState(n, s) ==
  /\ frame
  /\ IF open /\ n \in Known
     THEN /\ status' = [status EXCEPT ![n] = s]
          /\ IF n \in suppressed
             THEN /\ persistent' = persistent \ {n}
                  /\ pulse' = pulse \ {n}
                  /\ cube' = Hide({n})
                  /\ UNCHANGED hidden
             ELSE ColourCube(n, s)
     ELSE UNCHANGED <<status, persistent, pulse, cube, hidden>>
  /\ UNCHANGED <<loaded, away, dim, open, found, topo, suppressed, odd,
                 stageDVars, transparency, view, attempts, frame, early, obedient>>

\* tick_pulse ends the frame: blinks older than a second expire.
EndFrame ==
  /\ frame /\ frame' = FALSE
  /\ IF PulseEnabled
     THEN \E expired \in SUBSET (pulse \ suppressed) :
            /\ pulse' = (pulse \ suppressed) \ expired
            /\ cube' = Hide((suppressed \cap Known)
                            \cup (Known \ (pulse' \cup persistent)))
     ELSE UNCHANGED <<pulse, cube>>
  /\ UNCHANGED <<loaded, hidden, away, dim, open, found, topo, suppressed,
                 persistent, odd, status, stageDVars, transparency, view,
                 attempts, early, obedient>>

NodeState == \E e \in Envelope : ApplyNodeState(e[1], e[2])

Next ==
  \/ ClientMessage
  \/ StageOpened \/ StageLoads \/ StageClosed
  \/ BeginFrame \/ NodeState \/ EndFrame

Spec == Init /\ [][Next]_vars
-----------------------------------------------------------------------------
(* Properties                                                              *)

\* A rack or a node is dimmed only while a node is inspected in transparency
\* mode: no order of focus, inspect, deselect and retries leaves it dimmed, or
\* records the dimmed opacity as the original one (_cache_rack_nodes).
DimOnlyInspecting ==
  /\ dim # {} => inspected # None /\ transparency
  /\ dim \subseteq cache
  /\ cachedDim = {}

\* In a scene the client left alone until it was complete, at most one node is
\* popped, by one distance, and none outside view stage D (node_inspect,
\* _restore_popped_nodes).
SceneHome ==
  early \/ \A n \in Node :
    /\ away[n] \in {0, 1}
    /\ away[n] = 1 => view.stage = "D" /\ \A m \in Node \ {n} : away[m] = 0

\* The same without that proviso: what _restore_stage_d_state is for.
StageDCleared == view.stage # "D" => \A n \in Node : away[n] = 0

\* The client keeps to the documented transitions or never sends hide_others
\* off: focusing a hidden rack without it does not show the rack.
Careful == obedient \/ FALSE \notin HideOthers[obedient]

\* An indexed node whose rack or cluster a focus has hidden is suppressed, so
\* no node state brings the rack back (_set_glass_cube_suppression_for_*).
HiddenCovered ==
  Careful /\ ~early => \A n \in Known :
    {n, RackOf[n], ClusterOf[RackOf[n]]} \cap hidden # {} => n \in suppressed

\* A node-state envelope never changes which racks and clusters are visible:
\* "stage visibility comes first" (material.py, _glass_cube_suppressed_nodes).
NeverReveals ==
  [][NodeState /\ Careful /\ ~early => hidden' = hidden]_vars

\* Every cube is accounted for: a visible one is a persistent state or a blink
\* that has yet to expire (tick_pulse: nothing else may stay visible), and a
\* suppressed one stays hidden whatever arrives and is not remembered as one to
\* keep visible.
CubesAccounted ==
  \A n \in Node :
    /\ cube[n] # "hidden" => n \in persistent \cup pulse
    /\ n \in suppressed => cube[n] = "hidden" /\ n \notin persistent

\* A DISCONNECTED or MISSING node keeps its visible overlay outside stage D
\* (material.py: persistent overlay, not hidden by the baseline).
PersistentStays ==
  view.stage # "D" => \A n \in persistent : cube[n] # "hidden"

\* In such a scene, with a client that keeps to the protocol, the prim in view
\* is never inside something hidden, though rack_focus with hide_others off
\* does not show its rack.
FocusVisible ==
  obedient /\ ~early /\ view.stage # "A" =>
    \A p \in hidden : /\ p # view.prim
                      /\ view.prim \in Rack => p # ClusterOf[view.prim]
                      /\ view.prim \in Node =>
                           p \notin {RackOf[view.prim],
                                    ClusterOf[RackOf[view.prim]]}

\* With that client cubes are made for nodes only (material.py:47): view's
\* primPath is a node whenever node_deselect uses it as one.
CubesOnNodes == obedient => odd \subseteq Node

=============================================================================
