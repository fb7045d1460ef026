--------------------------- MODULE KitCamera_proofs ---------------------------
(***************************************************************************)
(* The overview of the camera, proved for any number of stages, waiting    *)
(* events, tries and frames of a flight.  The delicate part is a flight    *)
(* that was started for an older stage: the CLOSED which ends it and the   *)
(* OPENED of the new stage still wait, in that order.                      *)
(***************************************************************************)
EXTENDS KitStage_proofs

\* The extension is not done with initializing: tries are left, or the OPENED
\* that starts them is still to come, or it holds another stage or none.
Unsettled ==
  \/ attempts > 0
  \/ OpenedPending
  \/ stage # NoStage /\ mstage # stage

\* The CLOSED of an older stage, which ends its flights, is still to come.
StaleFlight ==
  \E i \in 1..Len(events) : events[i].type = "CLOSED" /\ events[i].of < opened

\* The CLOSED of a stage waits.
ClosedPending(s) ==
  \E i \in 1..Len(events) : events[i] = EventOf("CLOSED", s)

IntFlight == [start : Int, end : Int, frame : Int]

\* What the arithmetic of a flight needs.
CamType ==
  /\ cam \in Int /\ home \in Int
  /\ current \in Int \cup {None} /\ overview \in Int \cup {None}
  /\ anim = None \/ anim \in IntFlight
  /\ mstage \in 0..opened
  /\ attempts \in Int
  /\ spoiled \in BOOLEAN /\ up \in BOOLEAN

\* A manager that holds another stage than the current one, or one that is
\* gone, is about to hear of it; a stopped one has nothing under way.
ManagerInv ==
  /\ ~up => mstage = NoStage /\ anim = None /\ goal = "free"
  /\ mstage # NoStage /\ mstage # stage => ClosedPending(mstage)
  /\ host = "props" => mstage = NoStage /\ anim = None /\ goal = "free" /\ cam = home

\* Nobody has moved a camera that is not settled yet.
HomeInv == up /\ ~spoiled /\ Unsettled => cam = home

\* What was read for the newest stage is where that stage began.
OverviewInv == ~spoiled /\ mstage # NoStage /\ mstage = opened => overview = home

\* A flight to the overview ends at home, or is about to be ended.
FlightInv ==
  goal = "overview" /\ ~spoiled =>
    /\ anim = None \/ mstage = NoStage => cam = home
    /\ anim # None => anim.end = home \/ StaleFlight

CamInv == CamType /\ ManagerInv /\ HomeInv /\ OverviewInv /\ FlightInv

\* While the CLOSED of an older stage waits, so does the OPENED of this one.
LEMMA StaleIsUnsettled ==
  ASSUME StageInv, StaleFlight
  PROVE  OpenedPending
BY DEF StageInv, OpenedComes, StaleFlight

\* A settled camera is one the history lets move freely.
LEMMA UnsettledMoves ==
  ASSUME StageInv, CamInv, Moved, cam' # cam, ~spoiled',
         stage = NoStage => mstage # NoStage
  PROVE  ~Unsettled
<1>1. Settled
  BY DEF Moved
<1>2. stage # NoStage /\ stage = opened
  BY <1>1 DEF Settled, StageInv, StageTypeOK
<1> QED
  BY <1>1, <1>2 DEF Settled, Unsettled, OpenedPending, Pending, EventOf

\* No step of the props or of the stage alone disturbs the camera.
LEMMA CamStutter ==
  ASSUME CamInv, UNCHANGED <<cameraVars, stageVars, up, host>>
  PROVE  CamInv'
BY DEF CamInv, CamType, ManagerInv, HomeInv, OverviewInv, FlightInv, Unsettled,
       OpenedPending, StaleFlight, ClosedPending, cameraVars, stageVars

\* An event is appended: no flight becomes stale and no wait begins by it.
LEMMA CamAppended ==
  ASSUME StageInv, CamInv, UNCHANGED <<cameraVars, up, host, opened>>,
         NEW type \in {"ASSETS_LOADED", "CLOSING", "CLOSED"},
         stage # NoStage, Push(type, stage),
         \/ type # "CLOSED" /\ UNCHANGED stage
         \/ type = "CLOSED" /\ stage' = NoStage
  PROVE  CamInv'
<1> DEFINE n == Len(events)
<1>1. /\ opened \in Nat /\ stage = opened /\ events \in Seq(Event) /\ n \in Nat
      /\ EventOf(type, stage) \in Event
  BY DEF StageInv, StageTypeOK, NoStage, Stages, Event, EventOf
<1>2. /\ Len(events') = n + 1
      /\ events'[n + 1] = EventOf(type, stage)
      /\ \A i \in 1..n : events'[i] = events[i]
  BY <1>1, Pushed
<1>3. OpenedPending' <=> OpenedPending
  BY <1>1, <1>2 DEF OpenedPending, EventOf
<1>4. StaleFlight' <=> StaleFlight
  BY <1>1, <1>2 DEF StaleFlight, EventOf
<1>5. ManagerInv'
  <2>1. /\ ~up => mstage = NoStage /\ anim = None /\ goal = "free"
        /\ host = "props" => mstage = NoStage /\ anim = None /\ goal = "free" /\ cam = home
        /\ UNCHANGED <<mstage, anim, goal, cam, home, up, host>>
    BY DEF CamInv, ManagerInv, cameraVars
  <2>2. ASSUME mstage # NoStage, mstage # stage'
        PROVE  \E i \in 1..(n + 1) : events'[i] = EventOf("CLOSED", mstage)
    <3>1. CASE mstage = stage
      BY <1>1, <1>2, <2>2, <3>1
    <3>2. CASE mstage # stage
      <4>1. PICK i \in 1..n : events[i] = EventOf("CLOSED", mstage)
        BY <2>2, <3>2 DEF CamInv, ManagerInv, ClosedPending
      <4> QED
        BY <1>1, <1>2, <4>1
    <3> QED
      BY <3>1, <3>2
  <2> QED
    BY <1>2, <2>1, <2>2 DEF ManagerInv, ClosedPending
<1>6. Unsettled' => Unsettled
  BY <1>3 DEF Unsettled, cameraVars
<1> QED
  BY <1>1, <1>4, <1>5, <1>6 DEF CamInv, CamType, HomeInv, OverviewInv, FlightInv, cameraVars

\* A new stage opens: its camera is at home and no flight to the overview of
\* the old stage counts any more.
LEMMA CamOpened ==
  ASSUME CameraAssumption, StageInv, CamInv, StageOpens
  PROVE  CamInv'
<1> DEFINE n == Len(events)
<1>1. /\ opened \in Nat /\ stage = NoStage /\ events \in Seq(Event) /\ n \in Nat
      /\ opened' = opened + 1 /\ stage' = opened + 1
      /\ EventOf("OPENED", opened + 1) \in Event
  BY StageAssumption
  DEF StageOpens, OpenStage, StageInv, StageTypeOK, Stages, Event, EventOf,
      StageAssumption
<1>2. /\ Len(events') = n + 1
      /\ \A i \in 1..n : events'[i] = events[i]
  BY <1>1, Pushed DEF StageOpens, OpenStage
<1>3. /\ UNCHANGED <<mstage, current, overview, anim, up, host, attempts>>
      /\ spoiled' \in BOOLEAN
      /\ cam' = home' /\ cam' \in Int /\ goal' # "overview"
      /\ goal' = "free" \/ goal' = goal
    <2>1. CASE IsProps
      BY <2>1 DEF StageOpens, IsProps, cameraVars, CamInv, CamType, ManagerInv
    <2>2. CASE IsMonitor
      <3>1. CameraOfNewStage /\ UNCHANGED <<up, host>>
        BY <2>2 DEF StageOpens, IsProps, IsMonitor
      <3>2. Pose \subseteq Int
        BY DEF Pose, CameraAssumption
      <3> QED
        BY <3>1, <3>2 DEF CameraOfNewStage
    <2> QED
      BY <2>1, <2>2 DEF StageOpens
<1>4. ASSUME mstage # NoStage
      PROVE  ClosedPending(mstage)'
  <2>1. PICK i \in 1..n : events[i] = EventOf("CLOSED", mstage)
    BY <1>1, <1>4 DEF CamInv, ManagerInv, ClosedPending
  <2> QED
    BY <1>1, <1>2, <1>3, <2>1 DEF ClosedPending
<1>5. ManagerInv'
  BY <1>3, <1>4 DEF CamInv, ManagerInv
<1>6. mstage # opened + 1 /\ mstage \in 0..(opened + 1)
  BY <1>1 DEF CamInv, CamType
<1> QED
  BY <1>1, <1>3, <1>5, <1>6 DEF CamInv, CamType, HomeInv, OverviewInv, FlightInv

\* A handler: CLOSED ends the flights of the older stage, OPENED starts tries
\* for a camera that has not been settled.
LEMMA CamDelivery ==
  ASSUME CameraAssumption, StageInv, CamInv, Deliver
  PROVE  CamInv'
<1> DEFINE n == Len(events)
<1>1. /\ n \in Nat /\ n >= 1 /\ Len(events') = n - 1
      /\ \A i \in 1..(n - 1) : events'[i] = events[i + 1] /\ i + 1 \in 1..n
      /\ \A i \in 2..n : i - 1 \in 1..(n - 1) /\ events'[i - 1] = events[i]
      /\ Head(events) = events[1] /\ events[1] \in Event /\ 1 \in 1..n
      /\ UNCHANGED <<stage, opened, loaded, closing, up>>
      /\ opened \in Nat /\ stage \in {NoStage, opened}
  BY Popped DEF Deliver, Pop, StageInv, StageTypeOK
<1>2. OpenedPending' => OpenedPending
  BY <1>1 DEF OpenedPending
<1>3. CASE UNCHANGED cameraVars /\ (~up \/ IsProps)
  <2>1. ManagerInv'
    BY <1>1, <1>3 DEF CamInv, ManagerInv, IsProps, Deliver, IsMonitor, Elsewhere, cameraVars
  <2>2. goal # "overview"
    BY <1>3 DEF CamInv, ManagerInv, IsProps
  <2>3. HomeInv'
    BY <1>1, <1>2, <1>3 DEF CamInv, HomeInv, Unsettled, cameraVars
  <2> QED
    BY <1>1, <1>3, <2>1, <2>2, <2>3 DEF CamInv, CamType, OverviewInv, FlightInv, cameraVars
<1>4. CASE up /\ IsMonitor /\ CameraOnStageEvent(events[1])
  <2>1. UNCHANGED <<cam, frame, home, spoiled, lost, host>> /\ host = "monitor"
    BY <1>4 DEF CameraOnStageEvent, IsMonitor
  <2>2. CASE events[1].type = "CLOSED" /\ Cleanup /\ attempts' = 0
    <3>1. /\ mstage' = NoStage /\ anim' = None /\ goal' = "free"
          /\ current' = None /\ overview' = None
      BY <2>2 DEF Cleanup
    <3>2. Unsettled' => Unsettled
      <4>1. ASSUME stage # NoStage PROVE OpenedPending
        <5>1. events[1].of < opened
          BY <4>1, <1>1, <2>2, EventAt DEF StageInv, QueueInv
        <5> QED
          BY <5>1, <1>1 DEF StageInv, OpenedComes
      <4> QED
        BY <1>1, <1>2, <2>2, <4>1 DEF Unsettled
    <3> QED
      BY <1>1, <1>4, <2>1, <2>2, <3>1, <3>2
      DEF CamInv, CamType, ManagerInv, HomeInv, OverviewInv, FlightInv, NoStage
  <2>3. CASE /\ events[1].type # "CLOSED"
             /\ UNCHANGED <<mstage, current, overview, anim, goal>>
             /\ attempts' = attempts \/ (events[1].type = "OPENED" /\ attempts' = Attempts)
    <3>1. ASSUME NEW s, ClosedPending(s) PROVE ClosedPending(s)'
      <4>1. PICK i \in 1..n : events[i] = EventOf("CLOSED", s)
        BY <3>1 DEF ClosedPending
      <4>2. i # 1
        BY <4>1, <2>3 DEF EventOf
      <4>3. i - 1 \in 1..(n - 1) /\ events'[i - 1] = EventOf("CLOSED", s)
        BY <1>1, <4>1, <4>2
      <4> QED
        BY <1>1, <4>3 DEF ClosedPending
    <3>2. ASSUME StaleFlight PROVE StaleFlight'
      <4>1. PICK i \in 1..n : events[i].type = "CLOSED" /\ events[i].of < opened
        BY <3>2 DEF StaleFlight
      <4>2. i # 1
        BY <4>1, <2>3
      <4>3. i - 1 \in 1..(n - 1) /\ events'[i - 1] = events[i]
        BY <1>1, <4>2
      <4> QED
        BY <1>1, <4>1, <4>3 DEF StaleFlight
    <3>3. ASSUME events[1].type = "OPENED" PROVE OpenedPending
      <4>1. CASE events[1].of < opened
        BY <1>1, <4>1 DEF StageInv, OpenedComes
      <4>2. CASE events[1].of = opened
        <5>1. events[1] = EventOf("OPENED", opened)
          BY <1>1, <3>3, <4>2 DEF Event, EventOf
        <5> QED
          BY <1>1, <5>1 DEF OpenedPending
      <4> QED
        BY <1>1, <4>1, <4>2, EventAt DEF StageInv, QueueInv
    <3>4. Unsettled' => Unsettled
      BY <1>1, <1>2, <2>3, <3>3 DEF Unsettled
    <3>5. ManagerInv'
      <4>1. ASSUME mstage # NoStage, mstage # stage
            PROVE  \E i \in 1..Len(events') : events'[i] = EventOf("CLOSED", mstage)
        <5>1. ClosedPending(mstage)
          BY <4>1 DEF CamInv, ManagerInv
        <5> QED
          BY <3>1, <5>1 DEF ClosedPending
      <4> QED
        BY <1>1, <1>4, <2>1, <2>3, <4>1 DEF ManagerInv, ClosedPending
    <3>6. attempts' \in Int
      BY <2>3, CameraAssumption DEF CameraAssumption, CamInv, CamType
    <3>7. CamType'
      BY <1>1, <2>1, <2>3, <3>6 DEF CamInv, CamType
    <3>8. HomeInv'
      BY <1>1, <2>1, <3>4 DEF CamInv, HomeInv
    <3>9. OverviewInv'
      BY <1>1, <2>1, <2>3 DEF CamInv, OverviewInv
    <3>10. FlightInv'
      <4>1. FlightInv
        BY DEF CamInv
      <4>2. UNCHANGED <<mstage, anim, goal, cam, home, spoiled>>
        BY <2>1, <2>3
      <4> QED
        BY <4>1, <4>2, <3>2, Zenon DEF FlightInv
    <3> QED
      BY <3>5, <3>7, <3>8, <3>9, <3>10 DEF CamInv
  <2> QED
    BY <1>4, <2>2, <2>3 DEF CameraOnStageEvent
<1> QED
  BY <1>1, <1>3, <1>4 DEF Deliver, IsProps, Elsewhere

\* A try of the retry takes the camera for the overview.
LEMMA CamInitialize ==
  ASSUME CameraAssumption, StageInv, CamInv, up, host = "monitor",
         Initialize, attempts > 0, attempts' \in {0, attempts - 1, attempts},
         UNCHANGED <<stageVars, up, host, cam, anim, home, goal>>
  PROVE  CamInv'
<1>1. opened \in Nat /\ stage \in {NoStage, opened} /\ mstage' = stage
  BY DEF StageInv, StageTypeOK, Initialize
<1>2. spoiled \in BOOLEAN /\ cam \in Int /\ home \in Int /\ attempts \in Int
  BY DEF CamInv, CamType
<1>3. /\ spoiled' \in BOOLEAN
      /\ ~spoiled' => ~spoiled /\ (stage # NoStage => overview' = cam)
      /\ current' \in Int \cup {None} /\ overview' \in Int \cup {None}
  <2>1. DefaultPose \in Int
    BY DEF CameraAssumption, Pose
  <2> QED
    BY <1>2, <2>1, CameraAssumption
    DEF Initialize, ReadCamPosTarget, CameraAssumption, CamInv, CamType
<1>4. ~spoiled => cam = home
  BY DEF CamInv, HomeInv, Unsettled
<1>5. UNCHANGED <<OpenedPending, StaleFlight, stage, opened>>
  BY DEF OpenedPending, StaleFlight, stageVars
<1> QED
  BY <1>1, <1>2, <1>3, <1>4, <1>5
  DEF CamInv, CamType, ManagerInv, HomeInv, OverviewInv, FlightInv, NoStage

\* Wherever a flight is, it is at a pose.
LEMMA SmoothstepInt ==
  ASSUME CameraAssumption, NEW a \in Int, NEW b \in Int, NEW k \in Int
  PROVE  Smoothstep(a, b, k) \in Int
<1> DEFINE n == TotalFrames - 1
<1>1. n \in Int /\ n >= 0
  BY DEF CameraAssumption
<1>2. CASE n = 0
  BY <1>2 DEF Smoothstep
<1>3. CASE n # 0
  <2>1. n * n \in Int /\ n * n > 0
    BY <1>1, <1>3
  <2>2. n * n * n \in Int /\ n * n * n > 0
    BY <1>1, <1>3, <2>1
  <2>3. (b - a) * k * k * (3 * n - 2 * k) \in Int
    BY <1>1
  <2> HIDE DEF n
  <2>4. \A x, y \in Int : y > 0 => x \div y \in Int
    OBVIOUS
  <2>5. ((b - a) * k * k * (3 * n - 2 * k)) \div (n * n * n) \in Int
    BY <2>2, <2>3, <2>4
  <2>6. Smoothstep(a, b, k)
          = a + ((b - a) * k * k * (3 * n - 2 * k)) \div (n * n * n)
    BY <1>3 DEF Smoothstep, n
  <2> QED
    BY <2>5, <2>6
<1> QED
  BY <1>2, <1>3

\* A frame of a flight, the last one too.
LEMMA CamTick ==
  ASSUME CameraAssumption, StageInv, CamInv, up, host = "monitor", EndFrame,
         UNCHANGED <<stageVars, up, host>>
  PROVE  CamInv'
<1>1. UNCHANGED <<mstage, overview, attempts, home, stage, opened>>
  BY DEF EndFrame, stageVars
<1>2. UNCHANGED <<OpenedPending, StaleFlight>>
  BY DEF OpenedPending, StaleFlight, stageVars
<1>3. spoiled \in BOOLEAN /\ spoiled' \in BOOLEAN /\ (spoiled => spoiled')
  BY DEF CamInv, CamType, EndFrame, Moved
<1>4. goal' \in {goal, "free"}
  BY DEF EndFrame, TickCameraAnimation, SetCamPosTarget
<1>5. mstage = NoStage => UNCHANGED cam
  BY DEF EndFrame, TickCameraAnimation, SetCamPosTarget
<1>6. Unsettled /\ ~spoiled' => cam' = cam
  BY <1>5, UnsettledMoves DEF EndFrame
<1>7. CamType'
  <2>1. /\ current \in Int \cup {None} /\ cam \in Int
        /\ anim = None \/ anim \in IntFlight
    BY DEF CamInv, CamType
  <2>2. ASSUME NEW pose \in Int, SetCamPosTarget(pose)
        PROVE  cam' \in Int /\ current' \in Int \cup {None}
    BY <2>1, <2>2 DEF SetCamPosTarget
  <2>3. \/ UNCHANGED <<cam, current, anim>>
        \/ /\ anim # None /\ anim' = None
           /\ SetCamPosTarget(anim.end)
        \/ /\ anim # None
           /\ anim' = [anim EXCEPT !.frame = @ + 1]
           /\ SetCamPosTarget(Smoothstep(anim.start, anim.end, anim.frame))
    BY DEF EndFrame, TickCameraAnimation
  <2>4. cam' \in Int /\ current' \in Int \cup {None}
    BY <2>1, <2>2, <2>3, SmoothstepInt DEF IntFlight
  <2>5. anim' = None \/ anim' \in IntFlight
    BY <2>1, <2>3 DEF IntFlight
  <2> QED
    BY <1>1, <1>3, <2>4, <2>5 DEF CamInv, CamType
<1>8. ManagerInv'
  BY <1>1 DEF CamInv, ManagerInv, ClosedPending, stageVars
<1>9. HomeInv'
  BY <1>1, <1>2, <1>3, <1>6 DEF CamInv, HomeInv, Unsettled
<1>10. OverviewInv'
  BY <1>1, <1>3 DEF CamInv, OverviewInv
<1>11. FlightInv'
  <2> SUFFICES ASSUME goal' = "overview", ~spoiled'
               PROVE  /\ anim' = None \/ mstage' = NoStage => cam' = home'
                      /\ anim' # None => anim'.end = home' \/ StaleFlight'
    BY DEF FlightInv
  <2>1. /\ goal = "overview" /\ ~spoiled
        /\ anim = None \/ mstage = NoStage => cam = home
        /\ anim # None => anim.end = home \/ StaleFlight
    BY <1>3, <1>4 DEF CamInv, FlightInv
  <2>2. CASE UNCHANGED <<cam, anim>>
    BY <1>1, <1>2, <2>1, <2>2
  <2>3. CASE anim # None /\ anim' = None /\ SetCamPosTarget(anim.end)
    <3>1. CASE mstage = NoStage
      BY <1>1, <1>5, <2>1, <2>3, <3>1
    <3>2. CASE mstage # NoStage /\ anim.end = home
      <4>1. cam' = anim.end
        BY <2>3, <3>2 DEF SetCamPosTarget
      <4> QED
        BY <1>1, <2>3, <3>2, <4>1
    <3>3. CASE StaleFlight
      <4>1. Unsettled
        BY <3>3, StaleIsUnsettled DEF Unsettled
      <4> QED
        BY <1>1, <1>6, <2>1, <2>3, <4>1 DEF CamInv, HomeInv
    <3> QED
      BY <2>1, <2>3, <3>1, <3>2, <3>3
  <2>4. CASE anim # None /\ anim' = [anim EXCEPT !.frame = @ + 1]
    <3>1. anim \in IntFlight
      BY <2>4 DEF CamInv, CamType
    <3>2. anim'.end = anim.end /\ anim' \in IntFlight
      BY <2>4, <3>1 DEF IntFlight
    <3>3. anim' # None
      BY <3>2 DEF CameraAssumption, IntFlight
    <3> QED
      BY <1>1, <1>2, <1>5, <2>1, <2>4, <3>2, <3>3
  <2> QED
    BY <2>2, <2>3, <2>4 DEF EndFrame, TickCameraAnimation
<1> QED
  BY <1>7, <1>8, <1>9, <1>10, <1>11 DEF CamInv

\* A flight is started.
LEMMA CamCommand ==
  ASSUME CameraAssumption, StageInv, CamInv, up, host = "monitor",
         FlyToPrim \/ FlyToOverview, UNCHANGED <<stageVars, up, host>>
  PROVE  CamInv'
<1>1. /\ UNCHANGED <<cam, mstage, overview, attempts, home, spoiled, stage, opened>>
      /\ mstage # NoStage
  BY DEF FlyToPrim, FlyToOverview, stageVars
<1>2. UNCHANGED <<OpenedPending, StaleFlight>>
  BY DEF OpenedPending, StaleFlight, stageVars
<1>3. /\ Pose \subseteq Int /\ DefaultPose \in Int
      /\ cam \in Int /\ current \in Int \cup {None} /\ overview \in Int \cup {None}
      /\ OverviewOrDefault \in Int
  BY DEF CameraAssumption, Pose, CamInv, CamType, OverviewOrDefault
<1>4. PICK end \in Int : /\ StartCameraAnimation(end)
                         /\ goal' = "overview" => end = OverviewOrDefault
  BY <1>3 DEF FlyToPrim, FlyToOverview, RackCam
<1>5. PICK start \in Int : /\ anim' = [start |-> start, end |-> end, frame |-> 0]
                           /\ current' = start
  BY <1>3, <1>4 DEF StartCameraAnimation, ReadCamPosTarget
<1>6. anim' \in IntFlight /\ anim'.end = end /\ anim' # None
  BY <1>5 DEF IntFlight, CameraAssumption
<1>7. CamType'
  BY <1>1, <1>5, <1>6 DEF CamInv, CamType
<1>8. ManagerInv'
  BY <1>1 DEF CamInv, ManagerInv, ClosedPending, stageVars
<1>9. HomeInv'
  BY <1>1, <1>2 DEF CamInv, HomeInv, Unsettled
<1>10. OverviewInv'
  BY <1>1 DEF CamInv, OverviewInv
<1>11. FlightInv'
  <2> SUFFICES ASSUME goal' = "overview", ~spoiled
               PROVE  end = home \/ StaleFlight
    BY <1>1, <1>2, <1>6 DEF FlightInv
  <2>1. CASE mstage = opened
    <3>1. overview = home /\ home \in Int
      BY <1>1, <2>1 DEF CamInv, OverviewInv, CamType
    <3> QED
      BY <1>4, <3>1 DEF OverviewOrDefault, CameraAssumption
  <2>2. CASE mstage # opened
    <3>1. opened \in Nat /\ stage \in {NoStage, opened} /\ mstage \in 0..opened
      BY DEF StageInv, StageTypeOK, CamInv, CamType
    <3>2. PICK i \in 1..Len(events) : events[i] = EventOf("CLOSED", mstage)
      BY <1>1, <2>2, <3>1 DEF CamInv, ManagerInv, ClosedPending
    <3> QED
      BY <2>2, <3>1, <3>2 DEF StaleFlight, EventOf
  <2> QED
    BY <2>1, <2>2
<1> QED
  BY <1>7, <1>8, <1>9, <1>10, <1>11 DEF CamInv

\* The user moves the camera.
LEMMA CamOrbit ==
  ASSUME CameraAssumption, StageInv, CamInv, host = "monitor",
         Orbit, UNCHANGED <<stageVars, up, host>>
  PROVE  CamInv'
<1>1. /\ UNCHANGED <<mstage, current, overview, anim, attempts, home, stage, opened>>
      /\ goal' = "free" /\ cam' # cam /\ stage # NoStage /\ cam' \in Pose
  BY DEF Orbit, stageVars
<1>2. spoiled' \in BOOLEAN /\ (spoiled => spoiled')
  BY DEF Orbit, Moved, CamInv, CamType
<1>3. ~spoiled' => ~Unsettled
  BY <1>1, UnsettledMoves DEF Orbit
<1>4. UNCHANGED OpenedPending
  BY DEF OpenedPending, stageVars
<1>5. CamType'
  BY <1>1, <1>2 DEF CamInv, CamType, CameraAssumption, Pose
<1>6. ManagerInv'
  BY <1>1 DEF CamInv, ManagerInv, ClosedPending, stageVars
<1>7. HomeInv'
  BY <1>1, <1>3, <1>4 DEF HomeInv, Unsettled
<1>8. OverviewInv'
  BY <1>1, <1>2 DEF CamInv, OverviewInv
<1>9. FlightInv'
  BY <1>1 DEF FlightInv
<1> QED
  BY <1>5, <1>6, <1>7, <1>8, <1>9 DEF CamInv

\* Every step keeps the overview and the flights to it in place.
LEMMA CamStep ==
  ASSUME CameraAssumption, StageInv, CamInv, [Next]_vars
  PROVE  CamInv'
<1>0. /\ opened \in Nat /\ stage \in {NoStage, opened}
      /\ stage = NoStage => ~closing
  BY DEF StageInv, StageTypeOK, QueueInv
<1>1. CASE StageOpens
  BY <1>1, CamOpened
<1>2. CASE AssetsLoad \/ StageIsClosing
  <2>1. UNCHANGED <<cameraVars, up, host, opened, stage>> /\ stage # NoStage
    BY <1>2 DEF AssetsLoad, StageIsClosing, LoadAssets, StartClose, Elsewhere
  <2>2. PICK type \in {"ASSETS_LOADED", "CLOSING"} : Push(type, stage)
    BY <1>2 DEF AssetsLoad, StageIsClosing, LoadAssets, StartClose
  <2> QED
    BY <2>1, <2>2, CamAppended
<1>3. CASE StageCloses
  <2>1. /\ UNCHANGED <<cameraVars, up, host, opened>> /\ stage' = NoStage
        /\ stage # NoStage /\ Push("CLOSED", stage)
    BY <1>0, <1>3 DEF StageCloses, EndClose, IsProps, IsMonitor
  <2> QED
    BY <2>1, CamAppended
<1>4. CASE Deliver
  BY <1>4, CamDelivery
<1>5. CASE StartProps \/ StopProps \/ SwitchProps
  <2>1. UNCHANGED <<cameraVars, stageVars, host>> /\ host = "props" /\ up' \in BOOLEAN
    BY <1>5 DEF StartProps, StopProps, SwitchProps, IsProps, PropsStartup,
       PropsShutdown, ToggleEnabled, CamInv, CamType
  <2>2. mstage = NoStage /\ anim = None /\ goal = "free" /\ cam = home
    BY <2>1 DEF CamInv, ManagerInv
  <2>3. ManagerInv'
    BY <2>1, <2>2 DEF ManagerInv, cameraVars
  <2> QED
    BY <2>1, <2>2, <2>3 DEF CamInv, CamType, HomeInv, OverviewInv, FlightInv,
       cameraVars, stageVars
<1>6. CASE StartMonitor
  <2>1. /\ ~up /\ up' = TRUE /\ host' = host /\ host = "monitor"
        /\ home' = cam /\ spoiled' = FALSE
        /\ attempts' \in IF stage # NoStage THEN {0, Attempts} ELSE {0}
        /\ UNCHANGED <<stageVars, cam, mstage, current, overview, anim, goal>>
    BY <1>6 DEF StartMonitor, IsMonitor
  <2>2. mstage = NoStage /\ anim = None /\ goal = "free"
    BY <2>1 DEF CamInv, ManagerInv
  <2>3. CamType'
    <3>1. attempts' \in Int
      BY <2>1 DEF CameraAssumption
    <3>2. spoiled' \in BOOLEAN /\ up' \in BOOLEAN
      BY <2>1
    <3>3. /\ cam' \in Int /\ home' \in Int /\ mstage' \in 0..opened'
          /\ current' \in Int \cup {None} /\ overview' \in Int \cup {None}
          /\ anim' = None \/ anim' \in IntFlight
      BY <2>1 DEF CamInv, CamType, stageVars
    <3> QED
      BY <3>1, <3>2, <3>3 DEF CamType
  <2>4. ManagerInv'
    BY <2>1, <2>2 DEF ManagerInv
  <2>5. HomeInv'
    BY <2>1 DEF HomeInv
  <2>6. OverviewInv'
    BY <2>1, <2>2 DEF OverviewInv
  <2>7. FlightInv'
    BY <2>1, <2>2 DEF FlightInv
  <2> QED
    BY <2>3, <2>4, <2>5, <2>6, <2>7 DEF CamInv
<1>7. CASE StopMonitor
  <2>1. /\ up' = FALSE /\ host' = host /\ host = "monitor"
        /\ Cleanup /\ attempts' = 0
        /\ UNCHANGED <<stageVars, cam, home, spoiled>>
    BY <1>7 DEF StopMonitor, IsMonitor
  <2>2. CamType'
    <3>1. spoiled' \in BOOLEAN /\ up' \in BOOLEAN
      BY <2>1 DEF CamInv, CamType
    <3>2. /\ cam' \in Int /\ home' \in Int /\ mstage' \in 0..opened'
          /\ current' \in Int \cup {None} /\ overview' \in Int \cup {None}
          /\ anim' = None \/ anim' \in IntFlight
          /\ attempts' \in Int
      BY <1>0, <2>1 DEF CamInv, CamType, Cleanup, stageVars, NoStage
    <3> QED
      BY <3>1, <3>2 DEF CamType
  <2>3. mstage' = NoStage /\ anim' = None /\ goal' = "free"
    BY <2>1 DEF Cleanup
  <2>4. ManagerInv'
    BY <2>1, <2>3 DEF ManagerInv
  <2> QED
    BY <2>1, <2>2, <2>3, <2>4 DEF CamInv, HomeInv, OverviewInv, FlightInv
<1>8. CASE MonitorFrame
  <2>1. host = "monitor" /\ up /\ UNCHANGED <<stageVars, up, host>>
    BY <1>8 DEF MonitorFrame, IsMonitor
  <2>2. CASE BeginFrame
    <3>1. CASE Initialize /\ attempts > 0 /\ attempts' \in {0, attempts - 1, attempts}
      BY <2>1, <2>2, <3>1, CamInitialize DEF BeginFrame
    <3>2. CASE UNCHANGED <<mstage, current, overview, spoiled, lost, attempts>>
      <4>1. UNCHANGED <<cam, home, mstage, current, overview, anim, attempts, spoiled, goal>>
        BY <2>2, <3>2 DEF BeginFrame
      <4> QED
        BY <2>1, <4>1 DEF CamInv, CamType, ManagerInv, HomeInv, OverviewInv,
           FlightInv, Unsettled, OpenedPending, StaleFlight, ClosedPending, stageVars
    <3> QED
      BY <2>2, <3>1, <3>2 DEF BeginFrame
  <2>3. CASE EndFrame
    BY <2>1, <2>3, CamTick
  <2> QED
    BY <1>8, <2>2, <2>3 DEF MonitorFrame
<1>9. CASE ClientCommand
  BY <1>9, CamCommand DEF ClientCommand, IsMonitor
<1>10. CASE UserOrbits
  BY <1>10, CamOrbit DEF UserOrbits, IsMonitor
<1>11. CASE UNCHANGED vars
  BY <1>11, CamStutter DEF vars
<1> QED
  BY <1>1, <1>2, <1>3, <1>4, <1>5, <1>6, <1>7, <1>8, <1>9, <1>10, <1>11 DEF Next

LEMMA CamInvariant == Spec => []CamInv
<1>1. Init => CamInv
  <2> SUFFICES ASSUME Init PROVE CamInv
    OBVIOUS
  <2>1. /\ cam = DefaultPose /\ home = DefaultPose /\ mstage = 0
        /\ current = None /\ overview = None /\ anim = None
        /\ attempts = 0 /\ spoiled = FALSE /\ goal = "free"
        /\ opened = 0 /\ up = FALSE
    BY DEF Init, StageInit, CameraInit, NoStage
  <2>2. CamType
    <3>1. spoiled \in BOOLEAN /\ up \in BOOLEAN
      BY <2>1
    <3>2. DefaultPose \in Int
      BY CameraAssumption DEF CameraAssumption, Pose
    <3> QED
      BY <2>1, <3>1, <3>2 DEF CamType
  <2> QED
    BY <2>1, <2>2 DEF CamInv, ManagerInv, HomeInv, OverviewInv, FlightInv, NoStage
<1>2. StageInv /\ CamInv /\ [Next]_vars => CamInv'
  BY CamStep, CameraAssumption
<1> QED
  BY <1>1, <1>2, StageInvariant, PTL DEF Spec

\* A flight to the overview that nothing interrupts ends where the camera of
\* the stage began, whatever events of older stages wait, however many tries the
\* retry makes and wherever the user took the camera in between
\* (_cam_overview, scene_reset).
THEOREM OverviewIsHomeHolds == Spec => []OverviewIsHome
<1>1. CamInv => OverviewIsHome
  BY DEF CamInv, FlightInv, OverviewIsHome
<1> QED
  BY <1>1, CamInvariant, PTL

-----------------------------------------------------------------------------
(* The arithmetic of a flight: smoothstep never turns back.                  *)

LEMMA DivOrder ==
  ASSUME NEW m \in Nat \ {0}
  PROVE  /\ \A x, y \in Int : x <= y => x \div m <= y \div m
         /\ \A d \in Int : (d * m) \div m = d
<1>1. \A x \in Int : /\ x \div m \in Int
                     /\ m * (x \div m) <= x /\ x < m * (x \div m) + m
  OBVIOUS
<1>2. ASSUME NEW q \in Int, NEW r \in Int, q > r
      PROVE  m * q >= m * r + m
  <2>1. q - r - 1 >= 0 /\ m >= 0
    BY <1>2
  <2>2. m * (q - r - 1) >= 0
    BY <2>1
  <2>3. m * (q - r - 1) = m * q - m * r - m
    OBVIOUS
  <2>4. QED
    BY <2>2, <2>3
<1>3. ASSUME NEW x \in Int, NEW y \in Int, x <= y
      PROVE  x \div m <= y \div m
  <2> DEFINE q == x \div m
             r == y \div m
  <2>1. q \in Int /\ r \in Int /\ m * q <= x /\ y < m * r + m
    BY <1>1
  <2> HIDE DEF q, r
  <2>2. ~(q > r)
    BY <1>2, <1>3, <2>1
  <2>3. QED
    BY <2>1, <2>2 DEF q, r
<1>4. ASSUME NEW d \in Int
      PROVE  (d * m) \div m = d
  <2> DEFINE q == (d * m) \div m
  <2>1. q \in Int /\ m * q <= d * m /\ d * m < m * q + m
    BY <1>1
  <2> HIDE DEF q
  <2>2. ~(q > d) /\ ~(d > q)
    BY <1>2, <2>1
  <2>3. QED
    BY <2>1, <2>2 DEF q
<1>5. QED
  BY <1>3, <1>4

\* How far frame k is, in parts of n^3.
Part(n, k) == k * k * (3 * n - 2 * k)

LEMMA PartGrows ==
  ASSUME NEW n \in Nat \ {0}, NEW k \in 0..n
  PROVE  /\ Part(n, k) \in 0..(n * n * n)
         /\ k # 0 => Part(n, k - 1) <= Part(n, k)
         /\ Part(n, 0) = 0 /\ Part(n, n) = n * n * n
<1> DEFINE j == n - k
<1>1. j \in Nat /\ n = k + j /\ k \in Nat /\ j * k \in Nat /\ k * k \in Nat /\ j * j \in Nat
  OBVIOUS
<1>2. Part(n, k) = k * k * k + 3 * (k * k * j)
  BY <1>1 DEF Part
<1>3. n * n * n = k * k * k + 3 * (k * k * j) + 3 * (k * j * j) + j * j * j
  BY <1>1
<1>4. /\ k * k * k \in Nat /\ k * k * j \in Nat /\ k * j * j \in Nat /\ j * j * j \in Nat
  BY <1>1
<1>5. Part(n, k) \in 0..(n * n * n)
  BY <1>2, <1>3, <1>4
<1>6. ASSUME k # 0
      PROVE  Part(n, k - 1) <= Part(n, k)
  <2>1. Part(n, k) - Part(n, k - 1) = 3 * (j * (2 * k - 1)) + 3 * k - 2
    BY <1>1 DEF Part
  <2>2. j * (2 * k - 1) >= 0
    BY <1>1, <1>6
  <2>3. Part(n, k) \in Int /\ Part(n, k - 1) \in Int
    BY DEF Part
  <2>4. QED
    BY <1>6, <2>1, <2>2, <2>3
<1>7. Part(n, 0) = 0 /\ Part(n, n) = n * n * n
  BY DEF Part
<1>8. QED
  BY <1>5, <1>6, <1>7

\* Each frame is between the one before it and the end.
LEMMA SmoothstepAdvances ==
  ASSUME CameraAssumption, NEW a \in Int, NEW b \in Int,
         NEW k \in 0..(TotalFrames - 1),
         NEW q \in Int, q = IF k = 0 THEN a ELSE Smoothstep(a, b, k - 1)
  PROVE  \/ q <= Smoothstep(a, b, k) /\ Smoothstep(a, b, k) <= b
         \/ b <= Smoothstep(a, b, k) /\ Smoothstep(a, b, k) <= q
<1> DEFINE n == TotalFrames - 1
           d == b - a
           m == n * n * n
           Way(i) == (d * Part(n, i)) \div m
<1>1. n \in Nat /\ k \in 0..n
  BY DEF CameraAssumption
<1>2. CASE n = 0
  <2>1. Smoothstep(a, b, k) = b
    BY <1>2 DEF Smoothstep
  <2>2. k = 0
    BY <1>1, <1>2
  <2>3. q = a
    BY <2>2
  <2>4. QED
    BY <2>1, <2>3
<1>3. CASE n # 0
  <2>1. m \in Nat \ {0}
    <3>1. n * n \in Nat \ {0}
      BY <1>1, <1>3
    <3>2. QED
      BY <1>1, <1>3, <3>1
  <2>2. k \in Int /\ \A i \in Int : Smoothstep(a, b, i) = a + Way(i)
    <3> SUFFICES ASSUME NEW i \in Int
                 PROVE  Smoothstep(a, b, i) = a + Way(i)
      BY <1>1
    <3>1. Smoothstep(a, b, i) = a + (d * i * i * (3 * n - 2 * i)) \div m
      BY <1>3 DEF Smoothstep
    <3> HIDE DEF n, d
    <3>2. d * i * i * (3 * n - 2 * i) = d * Part(n, i)
      BY <1>1 DEF Part, d
    <3>3. QED
      BY <3>1, <3>2
  <2>3. d \in Int
    OBVIOUS
  <2> HIDE DEF n, d, m
  <2>4. /\ Part(n, k) \in Int /\ 0 <= Part(n, k) /\ Part(n, k) <= m
        /\ k # 0 => Part(n, k - 1) \in Int /\ Part(n, k - 1) <= Part(n, k)
    <3>1. k # 0 => k - 1 \in 0..n
      BY <1>1
    <3>2. QED
      BY <1>1, <1>3, <3>1, PartGrows DEF m
  <2>5. \A x \in Int : x \div m \in Int
    BY <2>1
  <2>6. Way(k) \in Int /\ (k # 0 => Way(k - 1) \in Int)
    BY <2>3, <2>4, <2>5
  <2>7. (d * m) \div m = d /\ 0 \div m = 0
    <3>1. 0 * m = 0
      BY <2>1
    <3>2. QED
      BY <2>1, <2>3, <3>1, DivOrder
  <2>8. CASE d >= 0
    <3>1. /\ 0 <= d * Part(n, k) /\ d * Part(n, k) <= d * m
          /\ k # 0 => d * Part(n, k - 1) <= d * Part(n, k)
      BY <2>1, <2>3, <2>4, <2>8
    <3>2. d * Part(n, k) \in Int /\ d * m \in Int /\ (k # 0 => d * Part(n, k - 1) \in Int)
      BY <2>1, <2>3, <2>4
    <3>3. 0 <= Way(k) /\ Way(k) <= d /\ (k # 0 => Way(k - 1) <= Way(k))
      BY <2>1, <2>7, <3>1, <3>2, DivOrder
    <3>4. q <= a + Way(k) /\ a + Way(k) <= b
      BY <2>2, <2>6, <3>3 DEF d
    <3>5. Smoothstep(a, b, k) = a + Way(k)
      BY <2>2
    <3>6. QED
      BY <3>4, <3>5
  <2>9. CASE d < 0
    <3>1. /\ d * Part(n, k) <= 0 /\ d * m <= d * Part(n, k)
          /\ k # 0 => d * Part(n, k) <= d * Part(n, k - 1)
      BY <2>1, <2>3, <2>4, <2>9
    <3>2. d * Part(n, k) \in Int /\ d * m \in Int /\ (k # 0 => d * Part(n, k - 1) \in Int)
      BY <2>1, <2>3, <2>4
    <3>3. Way(k) <= 0 /\ d <= Way(k) /\ (k # 0 => Way(k) <= Way(k - 1))
      BY <2>1, <2>7, <3>1, <3>2, DivOrder
    <3>4. b <= a + Way(k) /\ a + Way(k) <= q
      BY <2>2, <2>6, <3>3 DEF d
    <3>5. Smoothstep(a, b, k) = a + Way(k)
      BY <2>2
    <3>6. QED
      BY <3>4, <3>5
  <2>10. QED
    BY <2>3, <2>8, <2>9
<1>4. QED
  BY <1>2, <1>3

-----------------------------------------------------------------------------
(* NoDetour: unless somebody else moved it, the camera is where the flight    *)
(* last put it.                                                              *)

\* Where the last frame of a flight put the camera.
Where(flight) ==
  IF flight.frame = 0 THEN flight.start
  ELSE Smoothstep(flight.start, flight.end, flight.frame - 1)

\* A manager with a stage knows a pose and, if nobody else moved the camera, it
\* is the camera's; a flight is under way without a stage only until the next
\* stage opens, which moves the camera.
PathInv ==
  /\ lost \in BOOLEAN
  /\ mstage # NoStage => current # None
  /\ mstage # NoStage /\ ~lost => current = cam
  /\ mstage = NoStage /\ anim # None => stage = NoStage \/ lost
  /\ anim # None => anim.frame \in 0..TotalFrames
  /\ mstage # NoStage /\ anim # None /\ ~lost => cam = Where(anim)

LEMMA PathFrame ==
  ASSUME CameraAssumption, CamInv, PathInv, EndFrame, UNCHANGED stage
  PROVE  PathInv'
<1>1. mstage' = mstage /\ stage' = stage
  BY DEF EndFrame
<1>2. CASE anim = None
  BY <1>1, <1>2 DEF EndFrame, TickCameraAnimation, PathInv, Where
<1>3. CASE anim # None
  <2> DEFINE k == anim.frame
  <2>1. /\ anim \in IntFlight /\ k \in 0..TotalFrames /\ TotalFrames \in Nat
        /\ None \notin IntFlight
    BY <1>3 DEF CamInv, CamType, PathInv, CameraAssumption, IntFlight
  <2>2. PICK pose \in Int :
          /\ SetCamPosTarget(pose)
          /\ \/ anim' = None
             \/ /\ k < TotalFrames /\ pose = Smoothstep(anim.start, anim.end, k)
                /\ anim' = [anim EXCEPT !.frame = k + 1]
    <3>1. CASE k >= TotalFrames
      BY <1>3, <2>1, <3>1 DEF EndFrame, TickCameraAnimation, IntFlight
    <3>2. CASE ~(k >= TotalFrames)
      <4>1. k < TotalFrames
        BY <2>1, <3>2
      <4>2. Smoothstep(anim.start, anim.end, k) \in Int
        BY <2>1, SmoothstepInt DEF IntFlight
      <4>3. QED
        BY <1>3, <3>2, <4>1, <4>2 DEF EndFrame, TickCameraAnimation
    <3>3. QED
      BY <3>1, <3>2
  <2>3. anim' # None =>
          /\ anim'.frame = k + 1 /\ k + 1 \in 0..TotalFrames
          /\ pose = Where(anim')
    <3>1. ASSUME anim' # None
          PROVE  /\ anim'.frame = k + 1 /\ anim'.start = anim.start /\ anim'.end = anim.end
                 /\ pose = Smoothstep(anim.start, anim.end, k) /\ k < TotalFrames
      BY <2>1, <2>2, <3>1 DEF IntFlight
    <3>2. (k + 1) - 1 = k /\ k + 1 # 0
      BY <2>1
    <3>3. QED
      BY <2>1, <3>1, <3>2 DEF Where
  <2>4. CASE mstage = NoStage
    BY <1>1, <1>3, <2>2, <2>3, <2>4 DEF SetCamPosTarget, PathInv
  <2>5. CASE mstage # NoStage
    <3>1. CASE cam' = pose /\ current' = pose /\ lost' = FALSE
      BY <1>1, <2>2, <2>3, <2>5, <3>1 DEF PathInv, CameraAssumption
    <3>2. CASE lost' = TRUE /\ current' = current
      BY <1>1, <2>3, <2>5, <3>2 DEF PathInv
    <3>3. QED
      BY <2>2, <2>5, <3>1, <3>2 DEF SetCamPosTarget
  <2>6. QED
    BY <2>4, <2>5
<1>4. QED
  BY <1>2, <1>3

LEMMA PathInitialize ==
  ASSUME CameraAssumption, CamInv, PathInv, Initialize, UNCHANGED <<cam, anim, stage>>
  PROVE  PathInv'
<1>1. CASE stage = NoStage
  BY <1>1 DEF Initialize, PathInv, Where
<1>2. CASE stage # NoStage
  <2>1. PICK read \in {cam, None} :
          /\ current' = IF read # None THEN read ELSE DefaultPose
          /\ lost' = IF read # None THEN lost /\ anim # None ELSE TRUE
    BY <1>2 DEF Initialize, ReadCamPosTarget
  <2>2. cam # None /\ DefaultPose # None
    BY DEF CamInv, CamType, CameraAssumption, Pose
  <2>3. lost \in BOOLEAN /\ lost' \in BOOLEAN
    BY <2>1 DEF PathInv
  <2>4. current' # None
    BY <2>1, <2>2
  <2>5. ~lost' => current' = cam /\ (anim # None => ~lost)
    BY <2>1, <2>2, <2>3
  <2>6. mstage' = stage
    BY DEF Initialize
  <2>7. ~lost' /\ anim # None => cam = Where(anim)
    BY <1>2, <2>5 DEF PathInv
  <2>8. Where(anim)' = Where(anim)
    BY DEF Where
  <2>9. QED
    BY <1>2, <2>3, <2>4, <2>5, <2>6, <2>7, <2>8 DEF PathInv
<1>3. QED
  BY <1>1, <1>2

LEMMA PathStep ==
  ASSUME CameraAssumption, StageInv, CamInv, PathInv, [Next]_vars
  PROVE  PathInv'
<1>1. ASSUME UNCHANGED <<cam, mstage, current, anim, lost>>,
             stage' \in {stage, NoStage}
      PROVE  PathInv'
  BY <1>1 DEF PathInv, Where
<1>2. ASSUME Cleanup, UNCHANGED lost
      PROVE  PathInv'
  BY <1>2 DEF Cleanup, PathInv
<1>3. ASSUME lost' = TRUE, UNCHANGED <<mstage, current, anim>>
      PROVE  PathInv'
  BY <1>3 DEF PathInv
<1>4. CASE StageOpens
  <2>1. CASE IsProps
    <3>1. UNCHANGED cameraVars /\ mstage = NoStage /\ anim = None
      BY <2>1 DEF IsProps, CamInv, ManagerInv
    <3>2. QED
      BY <3>1 DEF PathInv, cameraVars
  <2>2. CASE CameraOfNewStage
    BY <1>3, <2>2 DEF CameraOfNewStage
  <2>3. QED
    BY <1>4, <2>1, <2>2 DEF StageOpens
<1>5. CASE AssetsLoad \/ StageIsClosing \/ StageCloses
  BY <1>1, <1>5 DEF AssetsLoad, StageIsClosing, StageCloses, LoadAssets, StartClose,
     EndClose, Elsewhere, IsProps, IsMonitor, cameraVars
<1>6. CASE Deliver
  <2>1. stage' = stage
    BY <1>6 DEF Deliver, Pop
  <2>2. CASE UNCHANGED cameraVars
    BY <1>1, <2>1, <2>2 DEF cameraVars
  <2>3. CASE CameraOnStageEvent(Head(events))
    BY <1>1, <1>2, <2>1, <2>3 DEF CameraOnStageEvent
  <2>4. QED
    BY <1>6, <2>2, <2>3 DEF Deliver, IsProps, Elsewhere
<1>7. CASE StartProps \/ StopProps \/ SwitchProps \/ StartMonitor
  BY <1>1, <1>7 DEF StartProps, StopProps, SwitchProps, StartMonitor, IsProps,
     cameraVars, stageVars
<1>8. CASE StopMonitor
  BY <1>2, <1>8 DEF StopMonitor
<1>9. CASE MonitorFrame
  <2>1. UNCHANGED stage
    BY <1>9 DEF MonitorFrame, stageVars
  <2>2. CASE BeginFrame
    <3>1. UNCHANGED <<cam, anim>>
      BY <2>2 DEF BeginFrame
    <3>2. Initialize \/ UNCHANGED <<mstage, current, lost>>
      BY <2>2 DEF BeginFrame
    <3>3. QED
      BY <1>1, <2>1, <3>1, <3>2, PathInitialize
  <2>3. CASE EndFrame
    BY <2>1, <2>3, PathFrame
  <2>4. QED
    BY <1>9, <2>2, <2>3 DEF MonitorFrame
<1>10. CASE ClientCommand
  <2>1. /\ mstage # NoStage /\ UNCHANGED <<cam, mstage, lost, stage>>
        /\ \E end : StartCameraAnimation(end)
    BY <1>10 DEF ClientCommand, FlyToPrim, FlyToOverview, stageVars
  <2>2. current # None
    BY <2>1 DEF PathInv
  <2>3. PICK end : anim' = [start |-> current, end |-> end, frame |-> 0] /\ current' = current
    BY <2>1, <2>2 DEF StartCameraAnimation
  <2>4. anim'.frame = 0 /\ Where(anim') = current /\ 0 \in 0..TotalFrames
    BY <2>3 DEF Where, CameraAssumption
  <2>5. QED
    BY <2>1, <2>2, <2>3, <2>4 DEF PathInv
<1>11. CASE UserOrbits
  BY <1>3, <1>11 DEF UserOrbits, Orbit
<1>12. CASE UNCHANGED vars
  BY <1>1, <1>12 DEF vars, cameraVars, stageVars
<1>13. QED
  BY <1>4, <1>5, <1>6, <1>7, <1>8, <1>9, <1>10, <1>11, <1>12 DEF Next

\* A frame of a flight takes the camera towards the end.
LEMMA FrameApproaches ==
  ASSUME CameraAssumption, CamInv, PathInv, EndFrame, ~lost, cam' # cam
  PROVE  Distance(cam', anim.end) < Distance(cam, anim.end)
<1> DEFINE k == anim.frame
           e == anim.end
<1>1. anim # None /\ mstage # NoStage
  BY DEF EndFrame, TickCameraAnimation, SetCamPosTarget
<1>2. /\ anim \in IntFlight /\ k \in 0..TotalFrames /\ TotalFrames \in Nat
      /\ cam = Where(anim) /\ cam \in Int /\ e \in Int /\ anim.start \in Int
  BY <1>1 DEF CamInv, CamType, PathInv, CameraAssumption, IntFlight
<1>3. CASE k >= TotalFrames
  <2>1. cam' = e
    BY <1>1, <1>3 DEF EndFrame, TickCameraAnimation, SetCamPosTarget
  <2>2. QED
    BY <1>2, <2>1 DEF Distance
<1>4. CASE ~(k >= TotalFrames)
  <2> DEFINE p == Smoothstep(anim.start, e, k)
  <2>1. cam' = p
    BY <1>1, <1>4 DEF EndFrame, TickCameraAnimation, SetCamPosTarget
  <2>2. k \in 0..(TotalFrames - 1)
    BY <1>2, <1>4
  <2>3. cam = IF k = 0 THEN anim.start ELSE Smoothstep(anim.start, e, k - 1)
    BY <1>2 DEF Where
  <2>4. (cam <= p /\ p <= e) \/ (e <= p /\ p <= cam)
    <3> DEFINE a == anim.start
    <3>1. a \in Int /\ e \in Int /\ cam \in Int
      BY <1>2
    <3> HIDE DEF a, e, k
    <3>2. cam = IF k = 0 THEN a ELSE Smoothstep(a, e, k - 1)
      BY <2>3 DEF a
    <3>3. (cam <= Smoothstep(a, e, k) /\ Smoothstep(a, e, k) <= e)
          \/ (e <= Smoothstep(a, e, k) /\ Smoothstep(a, e, k) <= cam)
      BY <2>2, <3>1, <3>2, SmoothstepAdvances
    <3>4. QED
      BY <3>3 DEF a
  <2>5. p \in Int
    <3>1. anim.start \in Int /\ e \in Int /\ k \in Int
      BY <1>2
    <3> HIDE DEF k, e
    <3>2. QED
      BY <3>1, SmoothstepInt
  <2> HIDE DEF p, e
  <2>6. QED
    BY <1>2, <2>1, <2>4, <2>5 DEF Distance, e
<1>5. QED
  BY <1>3, <1>4

\* No frame takes the camera further from where its flight ends, for any poses,
\* any length of a flight and any commands and tries in the middle of one, unless
\* somebody else moved the camera since the extension last set it
\* (tick_camera_animation, _start_camera_animation, initialize).
THEOREM NoDetourHolds == Spec => NoDetour
<1>1. Init => PathInv
  BY DEF Init, CameraInit, PathInv
<1>2. CamInv /\ PathInv /\ [Next]_vars =>
        [frame /\ ~lost /\ cam' # cam =>
           Distance(cam', anim.end) < Distance(cam, anim.end)]_<<cam, frame>>
  <2> SUFFICES ASSUME CamInv, PathInv, [Next]_vars, frame, ~lost, cam' # cam
               PROVE  Distance(cam', anim.end) < Distance(cam, anim.end)
    OBVIOUS
  <2>1. EndFrame
    BY DEF Next, vars, StageOpens, AssetsLoad, StageIsClosing, StageCloses, Deliver,
       StartProps, StopProps, SwitchProps, StartMonitor, StopMonitor, MonitorFrame,
       ClientCommand, UserOrbits, FlyToPrim, FlyToOverview, Orbit, BeginFrame,
       IsProps, cameraVars
  <2>2. QED
    BY <2>1, FrameApproaches, CameraAssumption
<1>3. QED
  BY <1>1, <1>2, PathStep, CameraAssumption, CamInvariant, StageInvariant, PTL
  DEF Spec, NoDetour
=============================================================================
