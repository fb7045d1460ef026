------------------------------ MODULE KitStage ------------------------------
(***************************************************************************)
(* The stage context of Kit with the extension that listens to it: the     *)
(* dynamic props, or the camera of the datacenter monitor.  The two share  *)
(* the stage events and nothing else, so a behaviour follows one of them   *)
(* (`host') and leaves the other where it started.                         *)
(*                                                                         *)
(* Kit's main thread runs everything, one handler at a time.  The stage    *)
(* may change between an event and the handler that is given it.           *)
(***************************************************************************)
EXTENDS DynamicProps, CameraFlight

VARIABLE host  \* "props" or "monitor"

vars == <<stageVars, propsVars, up, cameraVars, host>>

TypeOK ==
  /\ StageTypeOK /\ PropsTypeOK /\ CameraTypeOK
  /\ up \in BOOLEAN
  /\ host \in {"props", "monitor"}

Init ==
  /\ StageInit /\ PropsInit /\ CameraInit
  /\ up = FALSE
  /\ host \in {"props", "monitor"}

IsProps == host = "props" /\ UNCHANGED <<host, cameraVars>>
IsMonitor == host = "monitor" /\ UNCHANGED <<host, propsVars>>
Elsewhere == UNCHANGED <<up, host, propsVars, cameraVars>>
-----------------------------------------------------------------------------
(* The stage                                                               *)

StageOpens ==
  /\ ~frame
  /\ OpenStage
  /\ \/ IsProps /\ UNCHANGED <<up, propsVars>>
     \/ IsMonitor /\ CameraOfNewStage /\ UNCHANGED up

AssetsLoad == ~frame /\ LoadAssets /\ Elsewhere

StageIsClosing == ~frame /\ StartClose /\ Elsewhere

StageCloses ==
  /\ ~frame
  /\ EndClose
  /\ \/ IsProps /\ OverlayGone /\ UNCHANGED up
     \/ IsMonitor /\ UNCHANGED <<up, cameraVars>>

\* An event that nobody subscribed to is gone.
Deliver ==
  /\ ~frame
  /\ Pop
  /\ UNCHANGED up
  /\ \/ up /\ IsProps /\ PropsOnStageEvent(Head(events))
     \/ up /\ IsMonitor /\ CameraOnStageEvent(Head(events))
     \/ ~up /\ Elsewhere
-----------------------------------------------------------------------------
(* The extensions                                                          *)

StartProps == IsProps /\ PropsStartup /\ UNCHANGED stageVars

StopProps == IsProps /\ PropsShutdown /\ UNCHANGED stageVars

SwitchProps == IsProps /\ ToggleEnabled /\ UNCHANGED stageVars

\* A stage that is open already is scheduled, but with MAIN_STAGE_USD_PATH set
\* another one is opened instead, or none; there may be no stage.
StartMonitor ==
  /\ IsMonitor
  /\ ~up /\ up' = TRUE
  /\ attempts' \in IF stage # NoStage THEN {0, Attempts} ELSE {0}
  /\ home' = cam /\ spoiled' = FALSE
  /\ UNCHANGED <<stageVars, cam, mstage, current, overview, anim, frame, lost,
                 goal>>

StopMonitor ==
  /\ IsMonitor
  /\ up /\ up' = FALSE
  /\ ~frame /\ Cleanup /\ attempts' = 0
  /\ UNCHANGED <<stageVars, cam, frame, home, spoiled, lost>>

MonitorFrame ==
  /\ IsMonitor /\ up /\ UNCHANGED <<stageVars, up>>
  /\ BeginFrame \/ EndFrame

ClientCommand ==
  /\ IsMonitor /\ up /\ UNCHANGED <<stageVars, up>>
  /\ FlyToPrim \/ FlyToOverview

UserOrbits == IsMonitor /\ Orbit /\ UNCHANGED <<stageVars, up>>

Next ==
  \/ StageOpens \/ AssetsLoad \/ StageIsClosing \/ StageCloses
  \/ Deliver
  \/ StartProps \/ StopProps \/ SwitchProps
  \/ StartMonitor \/ StopMonitor \/ MonitorFrame \/ ClientCommand \/ UserOrbits

Spec == Init /\ [][Next]_vars
=============================================================================
