---------------------------- MODULE CameraFlight ----------------------------
(***************************************************************************)
(* The camera of the datacenter_monitor extension: what the scene manager  *)
(* reads when it initializes, the flights that the client's commands start *)
(* and that every frame carries on, against the viewport camera, which the *)
(* user may move too.                                                      *)
(*                                                                         *)
(* A pose (position and target) is a point of a line, which keeps the      *)
(* interpolation as the code computes it, up to rounding.  A frame is      *)
(* BeginFrame (the retry, which initializes) and EndFrame (the flight).    *)
(***************************************************************************)
EXTENDS StageEvents, Integers

CONSTANTS
  MaxPose,      \* poses are 0..MaxPose
  DefaultPose,  \* CAMERA_OVERVIEW_POSITION and CAMERA_OVERVIEW_TARGET
  TotalFrames,  \* CAMERA_ANIM_FRAMES
  Attempts,     \* tries of the stage-ready retry; 20 in the code
  None

Pose == 0..MaxPose

ASSUME CameraAssumption ==
  /\ MaxPose \in Nat /\ DefaultPose \in Pose
  /\ TotalFrames \in Nat \ {0} /\ Attempts \in Nat \ {0}
  /\ None \notin Int /\ None \notin [start : Int, end : Int, frame : Int]

Flight == [start : Pose, end : Pose, frame : 0..TotalFrames]

VARIABLES
  cam,       \* pose of the viewport camera
  mstage,    \* _stage of the scene manager, NoStage for None
  current,   \* _cam_current
  overview,  \* _cam_overview
  anim,      \* _cam_anim
  attempts,  \* _stage_ready_attempts_remaining
  frame,     \* inside _on_update
  home,      \* history: the pose the stage, or the extension on it, started with
  spoiled,   \* history: the camera was moved, or could not be read, before
             \* the extension was done with initializing for this stage
  lost,      \* history: somebody else moved the camera since a frame last set
             \* it, or since it was read with no flight under way
  goal       \* history: where the client last sent the camera

cameraVars == <<cam, mstage, current, overview, anim, attempts, frame, home,
                spoiled, lost, goal>>

CameraTypeOK ==
  /\ {cam, home} \subseteq Pose
  /\ mstage \in 0..opened
  /\ {current, overview} \subseteq Pose \cup {None}
  /\ anim \in Flight \cup {None}
  /\ attempts \in 0..Attempts
  /\ {frame, spoiled, lost} \subseteq BOOLEAN
  /\ goal \in {"overview", "prim", "free"}

CameraInit ==
  /\ cam = DefaultPose /\ home = DefaultPose
  /\ mstage = NoStage
  /\ current = None /\ overview = None /\ anim = None
  /\ attempts = 0 /\ frame = FALSE
  /\ spoiled = FALSE /\ lost = FALSE /\ goal = "free"

\* The retry is over and no OPENED is on its way to start another.
Settled == attempts = 0 /\ mstage = stage /\ ~Pending("OPENED")

Moved == spoiled' = (spoiled \/ (cam' # cam /\ ~Settled))
-----------------------------------------------------------------------------
(* Camera controller                                                       *)

\* cam_state is used if there is a viewport and the manager has a stage.
\* Setting it succeeds, or raises before or after it moved the camera.
SetCamPosTarget(pose) ==
  IF mstage # NoStage
  THEN \/ cam' = pose /\ current' = pose /\ lost' = FALSE /\ UNCHANGED goal
       \/ /\ cam' \in {cam, pose}
          /\ lost' = TRUE /\ goal' = "free"
          /\ UNCHANGED current
  ELSE UNCHANGED <<cam, current, lost, goal>>

\* The pose of the viewport camera, or none without a viewport or a stage.
ReadCamPosTarget == {cam, None}

\* Ease in and out from a to b: frame k of the flight, t*t*(3-2t) of the way.
Smoothstep(a, b, k) ==
  LET n == TotalFrames - 1
  IN  IF n = 0 THEN b
      ELSE a + ((b - a) * k * k * (3 * n - 2 * k)) \div (n * n * n)

\* Where the camera goes when no prim says so.
OverviewOrDefault == IF overview # None THEN overview ELSE DefaultPose

\* _compute_rack_cam: from the bounding box of a prim, or the overview for a
\* path that names none.
RackCam == Pose \cup {OverviewOrDefault}

\* Slip: every flight starts from the overview.
MutStartCameraAnimation(end) ==
  /\ anim' = [start |-> OverviewOrDefault, end |-> end, frame |-> 0]
  /\ UNCHANGED current

\* _start_camera_animation: from the pose last set, or else from the one read.
StartCameraAnimation(end) ==
  \E start \in IF current # None THEN {current}
               ELSE {IF read # None THEN read ELSE OverviewOrDefault :
                       read \in ReadCamPosTarget} :
    /\ anim' = [start |-> start, end |-> end, frame |-> 0]
    /\ current' = start

\* Slip: the flight is over one frame too early.
MutTickCameraAnimation ==
  IF anim = None THEN UNCHANGED <<cam, current, lost, goal, anim>>
  ELSE IF anim.frame >= TotalFrames - 1
  THEN anim' = None /\ UNCHANGED <<cam, current, lost, goal>>
  ELSE /\ SetCamPosTarget(Smoothstep(anim.start, anim.end, anim.frame))
       /\ anim' = [anim EXCEPT !.frame = @ + 1]

\* tick_camera_animation: after the last frame the end pose is set once more.
TickCameraAnimation ==
  IF anim = None THEN UNCHANGED <<cam, current, lost, goal, anim>>
  ELSE IF anim.frame >= TotalFrames
  THEN SetCamPosTarget(anim.end) /\ anim' = None
  ELSE /\ SetCamPosTarget(Smoothstep(anim.start, anim.end, anim.frame))
       /\ anim' = [anim EXCEPT !.frame = @ + 1]
-----------------------------------------------------------------------------
(* Scene manager and extension                                             *)

\* initialize: the viewport camera, or the default if it cannot be read, is
\* taken for the overview.  A flight goes on.
Initialize ==
  /\ mstage' = stage
  /\ IF stage = NoStage THEN UNCHANGED <<current, overview, spoiled, lost>>
     ELSE \E read \in ReadCamPosTarget :
            /\ overview' = IF read # None THEN read ELSE DefaultPose
            /\ current' = overview'
            /\ lost' = IF read # None THEN lost /\ anim # None ELSE TRUE
            /\ spoiled' = (spoiled \/ read = None)

\* cleanup
Cleanup ==
  /\ mstage' = NoStage
  /\ current' = None /\ overview' = None /\ anim' = None
  /\ goal' = "free"

\* _on_update, first half: a try is due, or waits its frames.  A discovery or a
\* manifest that raises ends the frame there and uses up no try.
BeginFrame ==
  /\ ~frame
  /\ \/ /\ attempts > 0
        /\ Initialize
        /\ \/ attempts' \in {0, attempts - 1} /\ frame' = TRUE
           \/ UNCHANGED <<attempts, frame>>
     \/ /\ frame' = TRUE
        /\ UNCHANGED <<mstage, current, overview, spoiled, lost, attempts>>
  /\ UNCHANGED <<cam, anim, home, goal>>

\* _on_update, second half.
EndFrame ==
  /\ frame /\ frame' = FALSE
  /\ TickCameraAnimation
  /\ Moved
  /\ UNCHANGED <<mstage, overview, attempts, home>>

\* rack_focus, node_inspect and node_deselect.
FlyToPrim ==
  /\ ~frame /\ mstage # NoStage
  /\ \E pose \in RackCam : StartCameraAnimation(pose)
  /\ goal' = "prim"
  /\ UNCHANGED <<cam, mstage, overview, attempts, frame, home, spoiled, lost>>

\* scene_reset and rack_deselect_to_cluster.
FlyToOverview ==
  /\ ~frame /\ mstage # NoStage
  /\ StartCameraAnimation(OverviewOrDefault)
  /\ goal' = "overview"
  /\ UNCHANGED <<cam, mstage, overview, attempts, frame, home, spoiled, lost>>

\* The user moves the viewport camera.
Orbit ==
  /\ ~frame /\ stage # NoStage
  /\ cam' \in Pose \ {cam}
  /\ lost' = TRUE /\ goal' = "free"
  /\ Moved
  /\ UNCHANGED <<mstage, current, overview, anim, attempts, frame, home>>

\* _on_stage_event: OPENED schedules the tries, CLOSED gives them up.
CameraOnStageEvent(e) ==
  /\ \/ /\ e.type = "OPENED"
        /\ attempts' = Attempts
        /\ UNCHANGED <<mstage, current, overview, anim, goal>>
     \/ e.type = "CLOSED" /\ Cleanup /\ attempts' = 0
     \/ /\ e.type \in {"ASSETS_LOADED", "CLOSING"}
        /\ UNCHANGED <<mstage, current, overview, anim, goal, attempts>>
  /\ UNCHANGED <<cam, frame, home, spoiled, lost>>

\* The camera a stage opens with.
CameraOfNewStage ==
  /\ cam' \in Pose /\ home' = cam'
  /\ spoiled' = FALSE /\ lost' = TRUE /\ goal' = "free"
  /\ UNCHANGED <<mstage, current, overview, anim, attempts, frame>>
-----------------------------------------------------------------------------
(* Properties                                                              *)

Distance(a, b) == IF a < b THEN b - a ELSE a - b

\* No frame takes the camera further from where its flight ends, however
\* commands interrupt one flight with another and tries of the retry read the
\* camera in the middle of one, unless somebody else moved the camera since
\* the extension last set it (_cam_current as the start of a flight,
\* tick_camera_animation).
NoDetour ==
  [][frame /\ ~lost /\ cam' # cam =>
       Distance(cam', anim.end) < Distance(cam, anim.end)]_<<cam, frame>>

\* A flight to the overview that nothing interrupts ends at the pose the stage
\* opened with (or had when the extension was started), whatever the client
\* and the user did with the camera before the command, if nobody had moved it
\* while the extension was initializing
\* (_cam_overview, read again at every try, against scene_reset).
OverviewIsHome ==
  goal = "overview" /\ anim = None /\ ~spoiled => cam = home
=============================================================================
