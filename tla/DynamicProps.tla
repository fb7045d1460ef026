---------------------------- MODULE DynamicProps ----------------------------
(***************************************************************************)
(* The scalex_dynamic_props extension: it authors floor panels, a view     *)
(* plane and hidden prims into an anonymous layer below the session layer  *)
(* of the current stage, once per stage, when the assets have loaded.      *)
(*                                                                         *)
(* The overlay is kept apart from what the extension remembers of it.  A   *)
(* SceneBuilder is the stage it holds (and keeps alive); a stage key is    *)
(* the stage whose id() it was made from.  Geometry, materials and         *)
(* transforms are abstracted to the item being there and complete.         *)
(***************************************************************************)
EXTENDS StageEvents

CONSTANTS
  ClusterPanels, \* CLUSTER_PANELS: the racks of each cluster that get a panel
  HiddenPrim     \* HIDDEN_PRIM_PATHS

PanelCluster == DOMAIN ClusterPanels
PanelRack == UNION {ClusterPanels[c] : c \in PanelCluster}
Plane == "ScaleX_POD_view"

\* What a complete overlay has; all but the plane need prims of the stage.
Item == PanelRack \cup HiddenPrim \cup {Plane}

\* What can raise during a build: one of the parts, or the build as a whole.
Whole == "rebuild"
Fault == PanelCluster \cup Item \cup {Whole}

ASSUME PropsAssumption ==
  /\ \A c \in PanelCluster : ClusterPanels[c] \cap (PanelCluster \cup HiddenPrim) = {}
  /\ {Plane, Whole} \cap (PanelCluster \cup PanelRack \cup HiddenPrim) = {}

VARIABLES
  enabled,   \* SCALEX_DYNAMIC_PROPS_ENABLED
  up,        \* between on_startup and on_shutdown
  builder,   \* stage held by _builder, NoStage without one
  builtKey,  \* stage _built_stage_key was made from, NoStage for None
  tagged,    \* the session layer of the stage has a sublayer with the tag
  content,   \* items such sublayers hold
  seen,      \* history: last stage whose OPENED was handled since on_startup
  broken,    \* history: what raised in the last build
  failed     \* history: a teardown raised

memoryVars == <<builder, builtKey>>
overlayVars == <<tagged, content>>
propsVars == <<enabled, memoryVars, overlayVars, seen, broken, failed>>

PropsTypeOK ==
  /\ enabled \in BOOLEAN
  /\ builder \in 0..opened
  /\ builtKey \in 0..opened
  /\ tagged \in BOOLEAN
  /\ content \subseteq Item
  /\ seen \in 0..opened
  /\ broken \subseteq Fault
  /\ failed \in BOOLEAN

PropsInit ==
  /\ enabled \in BOOLEAN
  /\ builder = NoStage /\ builtKey = NoStage
  /\ tagged = FALSE /\ content = {}
  /\ seen = NoStage /\ broken = {} /\ failed = FALSE
-----------------------------------------------------------------------------
(* SceneBuilder                                                            *)

\* A tagged sublayer that can be found is used again; otherwise one is made,
\* next to a tagged path that names none.  How many paths carry the tag is left
\* out: teardown removes them all.
GetOrCreateOverlay == tagged' = TRUE

\* A rack gets its panel if the mesh to copy is there and copying succeeds.
AddUnderPanel(r, present, bad) == r \in present /\ r \notin bad

\* One material per cluster: without it none of its racks gets a panel.
BuildFloorUnderPanels(present, bad) ==
  {r \in PanelRack :
     /\ AddUnderPanel(r, present, bad)
     /\ \E c \in PanelCluster \ bad : r \in ClusterPanels[c]}

\* Skipped without its texture, and when authoring it raises.
BuildViewPlane(bad) == {Plane} \ bad

HidePrims(present, bad) == (HiddenPrim \cap present) \ bad

\* References that are not loaded yet have none, some or all of their prims.
Present == IF loaded THEN {PanelRack \cup HiddenPrim}
           ELSE SUBSET (PanelRack \cup HiddenPrim)

\* The overlay is cleared and authored anew; a part that raises is skipped.
Rebuild(present, bad) ==
  /\ GetOrCreateOverlay
  /\ content' = BuildFloorUnderPanels(present, bad) \cup BuildViewPlane(bad)
                \cup HidePrims(present, bad)

\* rebuild() raises: before it has a layer, or after some of its parts.
RebuildRaises(present) ==
  \/ UNCHANGED overlayVars
  \/ /\ GetOrCreateOverlay
     /\ content' \in {{}, BuildFloorUnderPanels(present, {})}

Teardown == tagged' = FALSE /\ content' = {}

\* teardown() raises: the layer, cleared or not, stays.
TeardownRaises ==
  /\ failed' = TRUE
  /\ content' \in {content, {}}
  /\ UNCHANGED tagged
-----------------------------------------------------------------------------
(* Extension                                                               *)

\* The key compares id(stage).  Only an object that is alive keeps its id for
\* itself; that of a stage nobody holds may be `reused' by the next one.
AlreadyBuilt(reused) ==
  /\ builtKey # NoStage
  /\ builtKey = stage \/ (builder # builtKey /\ reused)

\* Slip: OFF tears down what the builder holds, not the current stage.
MutTeardownStageOverlay ==
  \/ /\ IF builder = stage THEN Teardown ELSE UNCHANGED overlayVars
     /\ builder' = NoStage
     /\ UNCHANGED failed
  \/ TeardownRaises /\ UNCHANGED builder

\* _teardown_stage_overlay: the current stage, whatever _builder holds.
TeardownStageOverlay ==
  \/ Teardown /\ builder' = NoStage /\ UNCHANGED failed
  \/ TeardownRaises /\ UNCHANGED builder

\* At most one thing raises in a build.
BuildOnce ==
  /\ builder' = stage
  /\ \E present \in Present :
       \/ \E bad \in {{}} \cup {{f} : f \in Fault \ {Whole}} :
            /\ Rebuild(present, bad)
            /\ broken' = bad
            /\ builtKey' = stage
       \/ /\ RebuildRaises(present)
          /\ broken' = {Whole}
          /\ builtKey' = NoStage

TryBuild ==
  /\ \/ stage = NoStage /\ UNCHANGED <<memoryVars, overlayVars, broken, failed>>
     \/ /\ stage # NoStage /\ ~enabled
        /\ TeardownStageOverlay
        /\ builtKey' = NoStage
        /\ UNCHANGED broken
     \/ /\ stage # NoStage /\ enabled
        /\ \E reused \in BOOLEAN : AlreadyBuilt(reused)
        /\ UNCHANGED <<memoryVars, overlayVars, broken, failed>>
     \/ /\ stage # NoStage /\ enabled
        /\ \E reused \in BOOLEAN : ~AlreadyBuilt(reused)
        /\ BuildOnce
        /\ UNCHANGED failed
  /\ UNCHANGED enabled

\* Slip: the builder is dropped, its key is kept.
MutResetStageGuard == builder' = NoStage /\ UNCHANGED builtKey

ResetStageGuard == builder' = NoStage /\ builtKey' = NoStage

\* on_startup: a stage that is already there is built at once.
PropsStartup ==
  /\ ~up /\ up' = TRUE
  /\ seen' = NoStage
  /\ TryBuild

\* on_shutdown: what the builder holds is torn down, and forgotten.
PropsShutdown ==
  /\ up /\ up' = FALSE
  /\ ResetStageGuard
  /\ IF stage # NoStage /\ builder = stage
     THEN (Teardown /\ UNCHANGED failed) \/ TeardownRaises
     ELSE UNCHANGED <<overlayVars, failed>>
  /\ UNCHANGED <<enabled, seen, broken>>

\* Slip: OPENED leaves the guard of a stage built at startup.
MutOnOpened(of) ==
  /\ seen' = of
  /\ UNCHANGED <<enabled, memoryVars, overlayVars, broken, failed>>

OnOpened(of) ==
  /\ ResetStageGuard
  /\ seen' = of
  /\ UNCHANGED <<enabled, overlayVars, broken, failed>>

\* CLOSING and CLOSED: the layer goes with its stage.
OnClosing ==
  /\ ResetStageGuard
  /\ UNCHANGED <<enabled, overlayVars, seen, broken, failed>>

\* _on_stage_event
PropsOnStageEvent(e) ==
  \/ e.type = "OPENED" /\ OnOpened(e.of)
  \/ e.type = "ASSETS_LOADED" /\ TryBuild /\ UNCHANGED seen
  \/ e.type \in {"CLOSING", "CLOSED"} /\ OnClosing

ToggleEnabled ==
  /\ enabled' = ~enabled
  /\ UNCHANGED <<up, memoryVars, overlayVars, seen, broken, failed>>

\* The session layer is gone with the stage.
OverlayGone ==
  /\ Teardown
  /\ UNCHANGED <<enabled, memoryVars, seen, broken, failed>>
-----------------------------------------------------------------------------
(* Properties                                                              *)

\* _try_build never skips a stage wrongly: the stage the key was made from is
\* held by the builder, so that no other stage can have its id(), and when it
\* is the current stage its overlay is there (_built_stage_key, _builder).
GuardTrue ==
  builtKey # NoStage =>
    /\ builder = builtKey
    /\ stage = builtKey => tagged

\* Once the OPENED of a stage has been handled, a stage that counts as built
\* has everything but what raised in that build: it was not built before its
\* references had loaded, by a late event of the stage before it or by
\* on_startup (the guard reset at OPENED).  That one failing part takes no
\* other with it is how Rebuild reads the try blocks of scene_builder.py.
Lost ==
  broken \cup {r \in PanelRack :
                 \A c \in PanelCluster : r \in ClusterPanels[c] => c \in broken}

PanelsComplete ==
  builtKey # NoStage /\ builtKey = stage /\ seen = stage =>
    content = Item \ Lost

\* An overlay on the current stage that a running extension has no builder for
\* does not stay: the stage is closing, or its ASSETS_LOADED is still to come
\* and will rebuild it or tear it down, unless a teardown has raised
\* (_try_build, _reset_stage_guard, _teardown_stage_overlay).
OverlayOwned ==
  up /\ ~failed /\ tagged /\ builder # stage =>
    closing \/ ~loaded \/ Pending("ASSETS_LOADED")
=============================================================================
