--------------------------- MODULE KitStage_proofs ---------------------------
(***************************************************************************)
(* The dynamic props, proved for any number of stages, any panels and any  *)
(* number of waiting events.  The guard does not depend on the queue:      *)
(* whichever event a handler is given, and in whatever state of the stage, *)
(* key and builder are set and dropped together.  That no overlay is left  *)
(* alone and that what is built is complete rests on the order of the      *)
(* events that wait.                                                       *)
(***************************************************************************)
EXTENDS KitStage, TLAPS

-----------------------------------------------------------------------------
(* The queue of stage events                                               *)

EventOf(type, s) == [type |-> type, of |-> s]

\* The queue is in the order of the stages, and what waits fits the stage.
QueueInv ==
  /\ stage = NoStage => ~loaded /\ ~closing
  /\ \A i \in 1..Len(events) :
       /\ events[i].of <= opened
       /\ events[i].of = stage /\ events[i].type = "ASSETS_LOADED" => loaded
       /\ events[i].of = stage => events[i].type # "CLOSED"
  /\ \A i, j \in 1..Len(events) : i < j =>
       /\ events[i].of <= events[j].of
       /\ events[j].type = "OPENED" => events[i].of < events[j].of

\* A loaded stage that is not closing has its ASSETS_LOADED at the end of the
\* queue, or nothing waits.
LastIsLoaded ==
  loaded /\ ~closing /\ events # <<>> =>
    events[Len(events)] = EventOf("ASSETS_LOADED", stage)

\* The newest stage's OPENED waits.
OpenedPending ==
  \E i \in 1..Len(events) : events[i] = EventOf("OPENED", opened)

\* Whoever waits from an older stage is followed by it.
OpenedComes ==
  \A i \in 1..Len(events) : events[i].of < opened => OpenedPending

StageInv == StageTypeOK /\ QueueInv /\ LastIsLoaded /\ OpenedComes

\* What appending an event does to the queue.
LEMMA Pushed ==
  ASSUME events \in Seq(Event), NEW type, NEW s, Push(type, s),
         EventOf(type, s) \in Event
  PROVE  /\ events' \in Seq(Event)
         /\ Len(events') = Len(events) + 1
         /\ events'[Len(events) + 1] = EventOf(type, s)
         /\ \A i \in 1..Len(events) : events'[i] = events[i]
BY DEF Push, EventOf

\* What taking the oldest event does to it.
LEMMA Popped ==
  ASSUME events \in Seq(Event), Pop
  PROVE  /\ events' \in Seq(Event)
         /\ Len(events) \in Nat /\ Len(events) >= 1
         /\ Len(events') = Len(events) - 1
         /\ \A i \in 1..Len(events') : events'[i] = events[i + 1]
         /\ Head(events) = events[1] /\ events[1] \in Event
BY DEF Pop

\* Every event waiting is one of a stage.
LEMMA EventAt ==
  ASSUME StageTypeOK, NEW i \in 1..Len(events)
  PROVE  /\ events[i] \in Event
         /\ events[i].of \in Nat /\ events[i].of >= 1
<1>1. events[i] \in Event
  BY DEF StageTypeOK
<1> QED
  BY <1>1 DEF Event, Stages

\* Nothing waits in the beginning.
LEMMA StageInitially ==
  ASSUME StageAssumption, Init
  PROVE  StageInv
<1>1. /\ stage = 0 /\ opened = 0 /\ ~loaded /\ loaded \in BOOLEAN
      /\ ~closing /\ closing \in BOOLEAN /\ events = <<>>
  BY DEF Init, StageInit, NoStage
<1>2. events \in Seq(Event) /\ Len(events) = 0 /\ 1..0 = {}
  BY <1>1
<1>3. StageTypeOK
  BY <1>1, <1>2 DEF StageTypeOK, StageAssumption, NoStage
<1> QED
  BY <1>1, <1>2, <1>3 DEF StageInv, QueueInv, LastIsLoaded, OpenedComes

\* A new stage is younger than everything that waits.
LEMMA AfterOpen ==
  ASSUME StageAssumption, StageInv, OpenStage
  PROVE  StageInv'
<1> DEFINE n == Len(events)
           e == EventOf("OPENED", opened + 1)
<1>1. /\ stage = NoStage /\ opened \in Nat /\ opened < MaxStages /\ MaxStages \in Nat
      /\ opened' = opened + 1 /\ stage' = opened + 1
      /\ UNCHANGED <<loaded, closing>> /\ ~loaded /\ ~closing
      /\ n \in Nat /\ events \in Seq(Event)
  BY DEF OpenStage, StageInv, StageTypeOK, QueueInv, StageAssumption
<1>2. e \in Event
  BY <1>1 DEF Event, Stages, EventOf
<1>3. /\ events' \in Seq(Event)
      /\ Len(events') = n + 1
      /\ events'[n + 1] = e
      /\ \A i \in 1..n : events'[i] = events[i]
  BY <1>1, <1>2, Pushed DEF OpenStage
<1>4. \A i \in 1..n : events[i].of \in Nat /\ events[i].of >= 1 /\ events[i].of <= opened
  BY <1>1, EventAt DEF StageInv, QueueInv
<1>5. StageTypeOK'
  BY <1>1, <1>3 DEF StageTypeOK, StageInv, NoStage
<1>6. QueueInv'
  <2>1. stage' = NoStage => ~loaded' /\ ~closing'
    BY <1>1 DEF NoStage
  <2>2. ASSUME NEW i \in 1..(n + 1)
        PROVE  /\ events'[i].of <= opened'
               /\ events'[i].of = stage' /\ events'[i].type = "ASSETS_LOADED" => loaded'
               /\ events'[i].of = stage' => events'[i].type # "CLOSED"
    <3>1. CASE i \in 1..n
      BY <3>1, <1>1, <1>3, <1>4 DEF StageInv, QueueInv
    <3>2. CASE i = n + 1
      BY <3>2, <1>1, <1>3, <1>4 DEF EventOf
    <3> QED
      BY <3>1, <3>2, <1>1
  <2>3. ASSUME NEW i \in 1..(n + 1), NEW j \in 1..(n + 1), i < j
        PROVE  /\ events'[i].of <= events'[j].of
               /\ events'[j].type = "OPENED" => events'[i].of < events'[j].of
    <3>1. i \in 1..n /\ events'[i] = events[i]
      BY <1>1, <2>3, <1>3, <1>4
    <3>2. CASE j \in 1..n
      BY <2>3, <3>1, <3>2, <1>3, <1>4 DEF StageInv, QueueInv
    <3>3. CASE j = n + 1
      BY <1>1, <3>1, <3>3, <1>3, <1>4 DEF EventOf
    <3> QED
      BY <3>2, <3>3, <1>1
  <2> QED
    BY <1>3, <1>4, <2>1, <2>2, <2>3 DEF QueueInv
<1>7. LastIsLoaded'
  BY <1>1 DEF LastIsLoaded
<1>8. OpenedPending'
  BY <1>1, <1>3 DEF OpenedPending
<1> QED
  BY <1>5, <1>6, <1>7, <1>8 DEF StageInv, OpenedComes

\* An ASSETS_LOADED of the current stage is appended.
LEMMA AfterLoad ==
  ASSUME StageInv, LoadAssets
  PROVE  StageInv'
<1> DEFINE n == Len(events)
           e == EventOf("ASSETS_LOADED", stage)
<1>1. /\ stage # NoStage /\ opened \in Nat /\ stage = opened /\ stage \in Stages
      /\ UNCHANGED <<stage, opened, closing>> /\ loaded' = TRUE
      /\ n \in Nat /\ events \in Seq(Event)
  BY DEF LoadAssets, StageInv, StageTypeOK, NoStage, Stages
<1>2. e \in Event
  BY <1>1 DEF Event, EventOf
<1>3. /\ events' \in Seq(Event)
      /\ Len(events') = n + 1
      /\ events'[n + 1] = e
      /\ \A i \in 1..n : events'[i] = events[i]
  BY <1>1, <1>2, Pushed DEF LoadAssets
<1>4. \A i \in 1..n : events[i].of \in Nat /\ events[i].of >= 1 /\ events[i].of <= opened
  BY <1>1, EventAt DEF StageInv, QueueInv
<1>5. StageTypeOK'
  BY <1>1, <1>3 DEF StageTypeOK, StageInv
<1>6. QueueInv'
  <2>1. stage' = NoStage => ~loaded' /\ ~closing'
    BY <1>1 DEF NoStage
  <2>2. ASSUME NEW i \in 1..(n + 1)
        PROVE  /\ events'[i].of <= opened'
               /\ events'[i].of = stage' /\ events'[i].type = "ASSETS_LOADED" => loaded'
               /\ events'[i].of = stage' => events'[i].type # "CLOSED"
    <3>1. CASE i \in 1..n
      BY <3>1, <1>1, <1>3, <1>4 DEF StageInv, QueueInv
    <3>2. CASE i = n + 1
      BY <3>2, <1>1, <1>3, <1>4 DEF EventOf
    <3> QED
      BY <3>1, <3>2, <1>1
  <2>3. ASSUME NEW i \in 1..(n + 1), NEW j \in 1..(n + 1), i < j
        PROVE  /\ events'[i].of <= events'[j].of
               /\ events'[j].type = "OPENED" => events'[i].of < events'[j].of
    <3>1. i \in 1..n /\ events'[i] = events[i]
      BY <1>1, <2>3, <1>3, <1>4
    <3>2. CASE j \in 1..n
      BY <2>3, <3>1, <3>2, <1>3, <1>4 DEF StageInv, QueueInv
    <3>3. CASE j = n + 1
      BY <1>1, <3>1, <3>3, <1>3, <1>4 DEF EventOf
    <3> QED
      BY <3>2, <3>3, <1>1
  <2> QED
    BY <1>3, <1>4, <2>1, <2>2, <2>3 DEF QueueInv
<1>7. LastIsLoaded'
  BY <1>1, <1>3 DEF LastIsLoaded
<1>8. OpenedComes'
  <2> SUFFICES ASSUME NEW i \in 1..(n + 1), events'[i].of < opened'
               PROVE  OpenedPending'
    BY <1>3 DEF OpenedComes
  <2>1. i \in 1..n /\ events[i].of < opened
    BY <1>1, <1>3 DEF EventOf
  <2>2. PICK j \in 1..n : events[j] = EventOf("OPENED", opened)
    BY <2>1 DEF StageInv, OpenedComes, OpenedPending
  <2> QED
    BY <2>2, <1>1, <1>3 DEF OpenedPending
<1> QED
  BY <1>5, <1>6, <1>7, <1>8 DEF StageInv

\* A CLOSING or CLOSED of the current stage is appended.
LEMMA AfterClose ==
  ASSUME StageInv, StartClose \/ EndClose
  PROVE  StageInv'
<1> DEFINE n == Len(events)
<1>1. /\ stage # NoStage /\ opened \in Nat /\ stage = opened /\ stage \in Stages
      /\ UNCHANGED opened
      /\ n \in Nat /\ events \in Seq(Event)
  BY DEF StartClose, EndClose, StageInv, StageTypeOK, QueueInv, NoStage, Stages
<1>2. PICK type \in {"CLOSING", "CLOSED"} :
        /\ Push(type, stage)
        /\ type = "CLOSED" => stage' = NoStage
  BY DEF StartClose, EndClose
<1>3. EventOf(type, stage) \in Event
  BY <1>1 DEF Event, EventOf
<1>4. /\ events' \in Seq(Event)
      /\ Len(events') = n + 1
      /\ events'[n + 1] = EventOf(type, stage)
      /\ \A i \in 1..n : events'[i] = events[i]
  BY <1>1, <1>2, <1>3, Pushed
<1>5. \A i \in 1..n : events[i].of \in Nat /\ events[i].of >= 1 /\ events[i].of <= opened
  BY <1>1, EventAt DEF StageInv, QueueInv
<1>6. \/ UNCHANGED <<stage, loaded>> /\ closing'
      \/ stage' = NoStage /\ ~loaded' /\ ~closing'
  BY DEF StartClose, EndClose
<1>7. StageTypeOK'
  BY <1>1, <1>4 DEF StageTypeOK, StageInv, StartClose, EndClose, NoStage
<1>8. QueueInv'
  <2>1. stage' = NoStage => ~loaded' /\ ~closing'
    BY <1>1, <1>6 DEF NoStage
  <2>2. ASSUME NEW i \in 1..(n + 1)
        PROVE  /\ events'[i].of <= opened'
               /\ events'[i].of = stage' /\ events'[i].type = "ASSETS_LOADED" => loaded'
               /\ events'[i].of = stage' => events'[i].type # "CLOSED"
    <3>1. CASE i \in 1..n
      BY <3>1, <1>1, <1>2, <1>4, <1>5, <1>6 DEF StageInv, QueueInv, NoStage
    <3>2. CASE i = n + 1
      BY <3>2, <1>1, <1>2, <1>4, <1>5, <1>6 DEF EventOf, NoStage
    <3> QED
      BY <3>1, <3>2, <1>1
  <2>3. ASSUME NEW i \in 1..(n + 1), NEW j \in 1..(n + 1), i < j
        PROVE  /\ events'[i].of <= events'[j].of
               /\ events'[j].type = "OPENED" => events'[i].of < events'[j].of
    <3>1. i \in 1..n /\ events'[i] = events[i]
      BY <1>1, <2>3, <1>4, <1>5
    <3>2. CASE j \in 1..n
      BY <2>3, <3>1, <3>2, <1>4, <1>5 DEF StageInv, QueueInv
    <3>3. CASE j = n + 1
      BY <1>1, <3>1, <3>3, <1>4, <1>5 DEF EventOf
    <3> QED
      BY <3>2, <3>3, <1>1
  <2> QED
    BY <1>4, <1>5, <2>1, <2>2, <2>3 DEF QueueInv
<1>9. LastIsLoaded'
  BY <1>6 DEF LastIsLoaded
<1>10. OpenedComes'
  <2> SUFFICES ASSUME NEW i \in 1..(n + 1), events'[i].of < opened'
               PROVE  OpenedPending'
    BY <1>4 DEF OpenedComes
  <2>1. i \in 1..n /\ events[i].of < opened
    BY <1>1, <1>4 DEF EventOf
  <2>2. PICK j \in 1..n : events[j] = EventOf("OPENED", opened)
    BY <2>1 DEF StageInv, OpenedComes, OpenedPending
  <2> QED
    BY <2>2, <1>1, <1>4 DEF OpenedPending
<1> QED
  BY <1>7, <1>8, <1>9, <1>10 DEF StageInv

\* The order survives the loss of the oldest event.
LEMMA AfterPop ==
  ASSUME StageInv, Pop
  PROVE  StageInv'
<1> DEFINE n == Len(events)
<1>1. /\ events' \in Seq(Event)
      /\ n \in Nat /\ n >= 1 /\ Len(events') = n - 1
      /\ \A i \in 1..(n - 1) : events'[i] = events[i + 1] /\ i + 1 \in 1..n
      /\ UNCHANGED <<stage, opened, loaded, closing>>
  BY Popped DEF StageInv, StageTypeOK, Pop
<1>2. StageTypeOK'
  BY <1>1 DEF StageTypeOK, StageInv
<1>3. QueueInv'
  BY <1>1 DEF QueueInv, StageInv
<1>4. LastIsLoaded'
  <2> SUFFICES ASSUME loaded, ~closing, events' # <<>>
               PROVE  events'[n - 1] = EventOf("ASSETS_LOADED", stage)
    BY <1>1 DEF LastIsLoaded
  <2>1. n - 1 \in 1..(n - 1)
    BY <1>1
  <2>2. events'[n - 1] = events[n]
    BY <1>1, <2>1
  <2> QED
    BY <1>1, <2>2 DEF StageInv, LastIsLoaded
<1>5. OpenedComes'
  <2> SUFFICES ASSUME NEW i \in 1..(n - 1), events'[i].of < opened
               PROVE  OpenedPending'
    BY <1>1 DEF OpenedComes
  <2>1. i + 1 \in 1..n /\ events[i + 1].of < opened
    BY <1>1
  <2>2. PICK j \in 1..n : events[j] = EventOf("OPENED", opened)
    BY <2>1 DEF StageInv, OpenedComes, OpenedPending
  <2>3. events[j].of = opened
    BY <2>2 DEF EventOf
  <2>4. events[1].of <= events[i + 1].of
    BY <1>1, <2>1 DEF StageInv, QueueInv
  <2>5. opened \in Nat /\ events[1].of \in Nat /\ events[i + 1].of \in Nat
    BY <1>1, <2>1, EventAt DEF StageInv, StageTypeOK
  <2>6. j # 1
    BY <2>1, <2>3, <2>4, <2>5
  <2>7. j - 1 \in 1..(n - 1) /\ events'[j - 1] = events[j]
    BY <1>1, <2>6
  <2> QED
    BY <1>1, <2>2, <2>7 DEF OpenedPending
<1> QED
  BY <1>2, <1>3, <1>4, <1>5 DEF StageInv

\* Each step is one of these on the queue, or none.
LEMMA StageStep ==
  ASSUME StageAssumption, StageInv, [Next]_vars
  PROVE  StageInv'
<1>1. CASE OpenStage
  BY <1>1, AfterOpen
<1>2. CASE LoadAssets
  BY <1>2, AfterLoad
<1>3. CASE StartClose \/ EndClose
  BY <1>3, AfterClose
<1>4. CASE Pop
  BY <1>4, AfterPop
<1>5. CASE UNCHANGED stageVars
  BY <1>5 DEF stageVars, StageInv, StageTypeOK, QueueInv, LastIsLoaded,
              OpenedComes, OpenedPending
<1>6. \/ OpenStage \/ LoadAssets \/ StartClose \/ EndClose \/ Pop
      \/ UNCHANGED stageVars
  BY DEF Next, vars, StageOpens, AssetsLoad, StageIsClosing, StageCloses,
         Deliver, StartProps, StopProps, SwitchProps, StartMonitor, StopMonitor,
         MonitorFrame, ClientCommand, UserOrbits
<1> QED
  BY <1>1, <1>2, <1>3, <1>4, <1>5, <1>6

\* The shape of the queue, at all times.
LEMMA StageInvariant == Spec => []StageInv
<1>1. Init => StageInv
  BY StageInitially, StageAssumption
<1>2. StageInv /\ [Next]_vars => StageInv'
  BY StageStep, StageAssumption
<1> QED
  BY <1>1, <1>2, PTL DEF Spec

-----------------------------------------------------------------------------
(* GuardTrue                                                               *)

\* Stages are numbered as they open, and what the extension remembers is one
\* of those that were opened: a new stage is none of them.
GuardInv ==
  /\ opened \in Nat
  /\ stage \in 0..opened
  /\ builder \in 0..opened
  /\ builtKey \in 0..opened
  /\ tagged \in BOOLEAN
  /\ GuardTrue

\* What the guard is about, untouched by every step of the monitor.
guardVars == <<stage, opened, builder, builtKey, tagged>>

\* Steps that leave all of that alone.
LEMMA GuardStutter ==
  ASSUME GuardInv, UNCHANGED guardVars
  PROVE  GuardInv'
BY DEF GuardInv, guardVars, GuardTrue

\* A build, a teardown or the decision for neither leaves key and builder in
\* step, the stage as it is (_try_build).
LEMMA TryBuildGuarded ==
  ASSUME GuardInv, TryBuild, UNCHANGED <<stage, opened>>
  PROVE  GuardInv'
<1> USE DEF NoStage
<1>1. CASE stage = NoStage /\ UNCHANGED <<memoryVars, overlayVars, broken, failed>>
  BY <1>1 DEF GuardInv, GuardTrue, memoryVars, overlayVars
<1>2. CASE TeardownStageOverlay /\ builtKey' = NoStage
  <2>1. builder' \in {NoStage, builder}
    BY <1>2 DEF TeardownStageOverlay
  <2>2. tagged' \in BOOLEAN
    BY <1>2, Zenon DEF TeardownStageOverlay, Teardown, TeardownRaises, GuardInv
  <2> QED
    BY <1>2, <2>1, <2>2 DEF GuardInv, GuardTrue
<1>3. CASE UNCHANGED <<memoryVars, overlayVars, broken, failed>>
  BY <1>3 DEF GuardInv, GuardTrue, memoryVars, overlayVars
<1>4. CASE stage # NoStage /\ BuildOnce
  <2>1. builder' = stage /\ builtKey' \in {NoStage, stage}
    BY <1>4 DEF BuildOnce
  <2>2. ASSUME builtKey' = stage PROVE tagged'
    BY <1>4, <2>2 DEF BuildOnce, Rebuild, GetOrCreateOverlay
  <2>3. tagged' \in BOOLEAN
    BY <1>4 DEF BuildOnce, Rebuild, RebuildRaises, GetOrCreateOverlay,
                GuardInv, overlayVars
  <2> QED
    BY <1>4, <2>1, <2>2, <2>3 DEF GuardInv, GuardTrue
<1> QED
  BY <1>1, <1>2, <1>3, <1>4 DEF TryBuild

\* With neither key nor builder there is nothing to be wrong about.
LEMMA ResetGuarded ==
  ASSUME GuardInv, ResetStageGuard, UNCHANGED <<stage, opened>>, tagged' \in BOOLEAN
  PROVE  GuardInv'
BY DEF GuardInv, GuardTrue, ResetStageGuard, NoStage

\* Nothing is built in the beginning.
LEMMA GuardInitially ==
  ASSUME Init
  PROVE  GuardInv
<1>1. /\ opened = 0 /\ stage = 0 /\ builder = 0 /\ builtKey = 0
  BY DEF Init, StageInit, PropsInit, NoStage
<1>2. tagged \in BOOLEAN
  BY Zenon DEF Init, PropsInit
<1> QED
  BY <1>1, <1>2 DEF GuardInv, GuardTrue, NoStage

\* Every step keeps the guard true.
LEMMA GuardStep ==
  ASSUME GuardInv, [Next]_vars
  PROVE  GuardInv'
<1>1. CASE StageOpens
  <2>1. opened' = opened + 1 /\ stage' = opened + 1
    BY <1>1 DEF StageOpens, OpenStage
  <2>2. UNCHANGED <<builder, builtKey, tagged>>
    BY <1>1 DEF StageOpens, IsMonitor, propsVars, memoryVars, overlayVars
  <2> QED
    BY <2>1, <2>2 DEF GuardInv, GuardTrue, NoStage
<1>2. CASE AssetsLoad \/ StageIsClosing
  <2>1. UNCHANGED guardVars
    BY <1>2 DEF AssetsLoad, StageIsClosing, LoadAssets, StartClose, Elsewhere,
                propsVars, memoryVars, overlayVars, guardVars
  <2> QED
    BY <2>1, GuardStutter
<1>3. CASE StageCloses
  <2>1. stage' = NoStage /\ UNCHANGED opened
    BY <1>3 DEF StageCloses, EndClose
  <2>2. UNCHANGED <<builder, builtKey>>
    BY <1>3 DEF StageCloses, IsMonitor, OverlayGone, propsVars, memoryVars
  <2>3. tagged' \in BOOLEAN
    BY <1>3, Zenon DEF StageCloses, IsMonitor, OverlayGone, Teardown, propsVars,
                       overlayVars, GuardInv
  <2> QED
    BY <2>1, <2>2, <2>3 DEF GuardInv, GuardTrue, NoStage
<1>4. CASE Deliver
  <2>1. UNCHANGED <<stage, opened>>
    BY <1>4 DEF Deliver, Pop
  <2>2. CASE UNCHANGED propsVars
    BY <2>1, <2>2, GuardStutter DEF propsVars, memoryVars, overlayVars, guardVars
  <2>3. CASE PropsOnStageEvent(Head(events))
    <3>1. CASE OnOpened(Head(events).of)
      BY <2>1, <3>1, ResetGuarded
      DEF OnOpened, overlayVars, GuardInv
    <3>2. CASE TryBuild
      BY <2>1, <3>2, TryBuildGuarded
    <3>3. CASE OnClosing
      BY <2>1, <3>3, ResetGuarded
      DEF OnClosing, overlayVars, GuardInv
    <3> QED
      BY <2>3, <3>1, <3>2, <3>3 DEF PropsOnStageEvent
  <2> QED
    BY <1>4, <2>2, <2>3 DEF Deliver, IsMonitor, Elsewhere
<1>5. CASE StartProps
  BY <1>5, TryBuildGuarded DEF StartProps, PropsStartup, stageVars
<1>6. CASE StopProps
  <2>1. tagged' \in BOOLEAN
    BY <1>6 DEF StopProps, PropsShutdown, Teardown, TeardownRaises, overlayVars,
                GuardInv
  <2> QED
    BY <1>6, <2>1, ResetGuarded DEF StopProps, PropsShutdown, stageVars
<1>7. CASE SwitchProps
  <2>1. UNCHANGED guardVars
    BY <1>7 DEF SwitchProps, ToggleEnabled, stageVars, memoryVars, overlayVars,
                guardVars
  <2> QED
    BY <2>1, GuardStutter
<1>8. CASE StartMonitor \/ StopMonitor \/ MonitorFrame \/ ClientCommand \/ UserOrbits
  <2>1. UNCHANGED guardVars
    BY <1>8 DEF StartMonitor, StopMonitor, MonitorFrame, ClientCommand,
                UserOrbits, IsMonitor, stageVars, propsVars, memoryVars,
                overlayVars, guardVars
  <2> QED
    BY <2>1, GuardStutter
<1>9. CASE UNCHANGED vars
  BY <1>9, GuardStutter
  DEF vars, stageVars, propsVars, memoryVars, overlayVars, guardVars
<1> QED
  BY <1>1, <1>2, <1>3, <1>4, <1>5, <1>6, <1>7, <1>8, <1>9 DEF Next

\* The guard with what it rests on, at all times.
LEMMA GuardInvariant == Spec => []GuardInv
<1>1. Init => GuardInv
  BY GuardInitially
<1>2. GuardInv /\ [Next]_vars => GuardInv'
  BY GuardStep
<1> QED
  BY <1>1, <1>2, PTL DEF Spec

\* The dynamic props never take a stage for one they have built that they have
\* not: the key of a built stage goes with a builder that keeps the stage
\* alive, and the overlay of that stage is in place.
THEOREM GuardTrueHolds == Spec => []GuardTrue
<1>1. GuardInv => GuardTrue
  BY DEF GuardInv
<1> QED
  BY <1>1, GuardInvariant, PTL

-----------------------------------------------------------------------------
(* OverlayOwned                                                            *)

\* There is an overlay only where there is a stage and the props are followed,
\* and a stopped extension counts nothing as built.
OwnedInv ==
  /\ stage = NoStage => ~tagged
  /\ host = "monitor" => ~tagged /\ builtKey = NoStage
  /\ ~up => builtKey = NoStage
  /\ OverlayOwned

\* _try_build leaves the stage with an owner, without an overlay or with a
\* teardown that raised.
LEMMA TryBuildOwned ==
  ASSUME GuardInv, TryBuild
  PROVE  /\ \/ stage = NoStage /\ UNCHANGED tagged
            \/ stage # NoStage /\ builder' = stage
            \/ stage # NoStage /\ tagged' = FALSE
            \/ stage # NoStage /\ failed'
         /\ failed => failed'
<1>1. CASE stage = NoStage /\ UNCHANGED <<memoryVars, overlayVars, broken, failed>>
  BY <1>1 DEF overlayVars
<1>2. CASE stage # NoStage /\ TeardownStageOverlay
  BY <1>2 DEF TeardownStageOverlay, Teardown, TeardownRaises
<1>3. CASE /\ stage # NoStage
           /\ \E reused \in BOOLEAN : AlreadyBuilt(reused)
           /\ UNCHANGED <<memoryVars, overlayVars, broken, failed>>
  BY <1>3 DEF AlreadyBuilt, GuardInv, GuardTrue, memoryVars
<1>4. CASE stage # NoStage /\ BuildOnce /\ UNCHANGED failed
  BY <1>4 DEF BuildOnce
<1> QED
  BY <1>1, <1>2, <1>3, <1>4 DEF TryBuild

\* Steps that touch neither the stage nor the props.
LEMMA OwnedStutter ==
  ASSUME OwnedInv, UNCHANGED <<stageVars, propsVars, up, host>>
  PROVE  OwnedInv'
BY DEF OwnedInv, OverlayOwned, Pending, stageVars, propsVars, memoryVars, overlayVars

\* A handler that forgets the builder has the ASSETS_LOADED still behind it,
\* unless the stage is closing or has not loaded.
LEMMA OwnedDelivery ==
  ASSUME StageInv, GuardInv, OwnedInv, Deliver, GuardInv'
  PROVE  OwnedInv'
<1> DEFINE n == Len(events)
<1>1. /\ n \in Nat /\ n >= 1 /\ Len(events') = n - 1
      /\ \A i \in 1..(n - 1) : events'[i] = events[i + 1]
      /\ Head(events) = events[1]
      /\ UNCHANGED <<stage, opened, loaded, closing, up>>
  BY Popped DEF Deliver, Pop, StageInv, StageTypeOK
<1>2. CASE ~up
  BY <1>1, <1>2, GuardInv' DEF Deliver, Elsewhere, propsVars, memoryVars, overlayVars,
     OwnedInv, OverlayOwned, GuardInv
<1>3. CASE up /\ IsMonitor
  BY <1>1, <1>3 DEF IsMonitor, propsVars, memoryVars, overlayVars, OwnedInv,
     OverlayOwned
<1>4. CASE up /\ IsProps /\ TryBuild
  BY <1>1, <1>4, TryBuildOwned DEF IsProps, OwnedInv, OverlayOwned, GuardInv
<1>5. CASE /\ up /\ IsProps
           /\ events[1].type # "ASSETS_LOADED"
           /\ OnOpened(events[1].of) \/ OnClosing
  <2>1. /\ UNCHANGED <<tagged, failed, host>> /\ host = "props"
    BY <1>5 DEF IsProps, OnOpened, OnClosing, overlayVars
  <2>2. ASSUME loaded, ~closing
        PROVE  Pending("ASSETS_LOADED")'
    <3>1. events[n] = EventOf("ASSETS_LOADED", stage)
      BY <2>2, <1>1 DEF StageInv, LastIsLoaded
    <3>2. n # 1
      BY <3>1, <1>5 DEF EventOf
    <3>3. n - 1 \in 1..(n - 1) /\ events'[n - 1] = events[n]
      BY <1>1, <3>2
    <3> QED
      BY <3>1, <3>3, <1>1 DEF Pending, EventOf
  <2> QED
    BY <1>1, <1>5, <2>1, <2>2 DEF OwnedInv, OverlayOwned
<1> QED
  BY <1>1, <1>2, <1>3, <1>4, <1>5 DEF Deliver, PropsOnStageEvent

\* Every step keeps the overlay accounted for.
LEMMA OwnedStep ==
  ASSUME StageInv, GuardInv, GuardInv', OwnedInv, [Next]_vars
  PROVE  OwnedInv'
<1>1. CASE StageOpens
  <2>1. /\ stage = NoStage /\ UNCHANGED <<tagged, builtKey, up, host>>
    BY <1>1 DEF StageOpens, OpenStage, IsProps, IsMonitor, CameraOfNewStage,
       propsVars, memoryVars, overlayVars
  <2> QED
    BY <2>1 DEF OwnedInv, OverlayOwned
<1>2. CASE AssetsLoad
  <2>1. /\ stage # NoStage
        /\ UNCHANGED <<stage, tagged, builtKey, up, host>>
    BY <1>2 DEF AssetsLoad, LoadAssets, Elsewhere, propsVars, memoryVars, overlayVars
  <2>2. Pending("ASSETS_LOADED")'
    <3>1. EventOf("ASSETS_LOADED", stage) \in Event
      BY <2>1 DEF Event, EventOf, StageInv, StageTypeOK, NoStage, Stages
    <3>2. /\ events'[Len(events) + 1] = EventOf("ASSETS_LOADED", stage)
          /\ Len(events') = Len(events) + 1 /\ Len(events) \in Nat
      BY <1>2, <3>1, Pushed DEF AssetsLoad, LoadAssets, StageInv, StageTypeOK
    <3> QED
      BY <2>1, <3>2 DEF Pending, EventOf
  <2> QED
    BY <2>1, <2>2 DEF OwnedInv, OverlayOwned
<1>3. CASE StageIsClosing
  <2>1. /\ closing' /\ UNCHANGED <<stage, tagged, builtKey, up, host>>
    BY <1>3 DEF StageIsClosing, StartClose, Elsewhere, propsVars, memoryVars, overlayVars
  <2> QED
    BY <2>1 DEF OwnedInv, OverlayOwned
<1>4. CASE StageCloses
  <2>1. /\ tagged' = FALSE /\ UNCHANGED <<builtKey, up, host>>
    BY <1>4 DEF StageCloses, IsProps, IsMonitor, OverlayGone, Teardown, propsVars,
       memoryVars, overlayVars, OwnedInv
  <2> QED
    BY <2>1 DEF OwnedInv, OverlayOwned
<1>5. CASE Deliver
  BY <1>5, OwnedDelivery
<1>6. CASE StartProps
  <2>1. /\ TryBuild /\ UNCHANGED <<stage, host>> /\ host = "props" /\ up'
    BY <1>6 DEF StartProps, PropsStartup, IsProps, stageVars
  <2> QED
    BY <2>1, TryBuildOwned DEF OwnedInv, OverlayOwned, GuardInv
<1>7. CASE StopProps
  <2>1. /\ UNCHANGED <<stage, host>> /\ host = "props" /\ ~up' /\ builtKey' = NoStage
        /\ tagged' => tagged
    BY <1>7 DEF StopProps, PropsShutdown, IsProps, stageVars, ResetStageGuard,
       Teardown, TeardownRaises, overlayVars
  <2> QED
    BY <2>1 DEF OwnedInv, OverlayOwned, GuardInv
<1>8. CASE SwitchProps
  <2>1. UNCHANGED <<stage, opened, loaded, closing, events, host, up, tagged,
                    builder, builtKey, failed>>
    BY <1>8 DEF SwitchProps, ToggleEnabled, IsProps, stageVars, memoryVars, overlayVars
  <2> QED
    BY <2>1 DEF OwnedInv, OverlayOwned, Pending
<1>9. CASE StartMonitor \/ StopMonitor
  <2>1. UNCHANGED <<stage, host, tagged, builtKey>> /\ host = "monitor"
    BY <1>9 DEF StartMonitor, StopMonitor, IsMonitor, stageVars, propsVars,
       memoryVars, overlayVars
  <2> QED
    BY <2>1 DEF OwnedInv, OverlayOwned
<1>10. CASE MonitorFrame \/ ClientCommand \/ UserOrbits \/ UNCHANGED vars
  <2>1. UNCHANGED <<stageVars, propsVars, up, host>>
    BY <1>10 DEF MonitorFrame, ClientCommand, UserOrbits, IsMonitor, vars
  <2> QED
    BY <2>1, OwnedStutter
<1> QED
  BY <1>1, <1>2, <1>3, <1>4, <1>5, <1>6, <1>7, <1>8, <1>9, <1>10 DEF Next

\* No overlay of a running extension is left without an owner: a stage that is
\* loaded and not closing has one, or the ASSETS_LOADED that restores it waits
\* (_try_build, _teardown_stage_overlay, _reset_stage_guard).
THEOREM OverlayOwnedHolds == Spec => []OverlayOwned
<1>1. Init => OwnedInv
  BY DEF Init, StageInit, PropsInit, OwnedInv, OverlayOwned, NoStage
<1>2. StageInv /\ GuardInv /\ GuardInv' /\ OwnedInv /\ [Next]_vars => OwnedInv'
  BY OwnedStep
<1>3. OwnedInv => OverlayOwned
  BY DEF OwnedInv
<1> QED
  BY <1>1, <1>2, <1>3, StageInvariant, GuardInvariant, PTL DEF Spec

-----------------------------------------------------------------------------
(* PanelsComplete                                                          *)

\* Once the OPENED of a stage has been handled, what waits is of that stage.
SeenInv ==
  /\ seen \in 0..opened
  /\ stage # NoStage /\ seen = stage =>
       \A i \in 1..Len(events) : events[i].of = stage /\ events[i].type # "OPENED"
  /\ PanelsComplete

\* With every prim there, a build has everything but what raised.
LEMMA CompleteBuild ==
  ASSUME NEW bad, PropsAssumption
  PROVE  LET all == PanelRack \cup HiddenPrim
         IN  BuildFloorUnderPanels(all, bad) \cup BuildViewPlane(bad)
               \cup HidePrims(all, bad)
             = Item \ (bad \cup {r \in PanelRack :
                 \A c \in PanelCluster : r \in ClusterPanels[c] => c \in bad})
<1> DEFINE all == PanelRack \cup HiddenPrim
           gone == {r \in PanelRack :
                      \A c \in PanelCluster : r \in ClusterPanels[c] => c \in bad}
<1>1. \A r \in PanelRack : r \notin HiddenPrim /\ r # Plane
  BY DEF PropsAssumption, PanelRack
<1>2. BuildFloorUnderPanels(all, bad) = (PanelRack \ bad) \ gone
  BY DEF BuildFloorUnderPanels, AddUnderPanel
<1>3. HidePrims(all, bad) = HiddenPrim \ bad
  BY DEF HidePrims
<1>4. Plane \notin PanelRack
  BY <1>1
<1> QED
  BY <1>1, <1>2, <1>3, <1>4 DEF BuildViewPlane, Item

\* A build that counts, after the OPENED of its stage, is complete.
LEMMA TryBuildComplete ==
  ASSUME PropsAssumption, GuardInv, SeenInv, TryBuild, UNCHANGED <<stage, seen>>,
         stage # NoStage /\ seen = stage => loaded
  PROVE  PanelsComplete'
<1> SUFFICES ASSUME builtKey' # NoStage, builtKey' = stage, seen = stage
             PROVE  content' = (Item \ Lost)'
  BY DEF PanelsComplete
<1>1. CASE UNCHANGED <<memoryVars, overlayVars, broken, failed>>
  BY <1>1 DEF memoryVars, overlayVars, SeenInv, PanelsComplete, Lost
<1>2. CASE BuildOnce
  <2>1. Present = {PanelRack \cup HiddenPrim}
    BY DEF Present
  <2>2. PICK bad : Rebuild(PanelRack \cup HiddenPrim, bad) /\ broken' = bad
    BY <1>2, <2>1 DEF BuildOnce
  <2> QED
    BY <2>2, CompleteBuild DEF Rebuild, Lost
<1> QED
  BY <1>1, <1>2 DEF TryBuild

\* When the OPENED of the current stage is handled, only events of that stage
\* are left; an ASSETS_LOADED handled after it finds the stage loaded.
LEMMA SeenDelivery ==
  ASSUME PropsAssumption, StageInv, GuardInv, SeenInv, Deliver
  PROVE  SeenInv'
<1> DEFINE n == Len(events)
<1>1. /\ n \in Nat /\ n >= 1 /\ Len(events') = n - 1
      /\ \A i \in 1..(n - 1) : events'[i] = events[i + 1] /\ i + 1 \in 1..n
      /\ Head(events) = events[1] /\ events[1] \in Event /\ 1 \in 1..n
      /\ UNCHANGED <<stage, opened, loaded, closing, up>>
  BY Popped DEF Deliver, Pop, StageInv, StageTypeOK
<1>2. ASSUME UNCHANGED seen
      PROVE  stage # NoStage /\ seen' = stage' =>
               \A i \in 1..Len(events') : events'[i].of = stage' /\ events'[i].type # "OPENED"
  BY <1>1, <1>2 DEF SeenInv
<1>3. CASE UNCHANGED propsVars
  BY <1>1, <1>2, <1>3 DEF propsVars, memoryVars, overlayVars, SeenInv, PanelsComplete,
     Lost
<1>4. CASE events[1].type = "ASSETS_LOADED" /\ TryBuild /\ UNCHANGED seen
  <2>1. ASSUME stage # NoStage, seen = stage PROVE loaded
    BY <2>1, <1>1, <1>4 DEF SeenInv, StageInv, QueueInv
  <2>2. PanelsComplete'
    BY <2>1, <1>1, <1>4, TryBuildComplete
  <2> QED
    BY <1>1, <1>2, <1>4, <2>2 DEF SeenInv
<1>5. CASE events[1].type = "OPENED" /\ OnOpened(events[1].of)
  <2>1. /\ seen' = events[1].of /\ builtKey' = NoStage
    BY <1>5 DEF OnOpened, ResetStageGuard
  <2>2. events[1].of \in 0..opened
    BY <1>1, EventAt DEF StageInv, QueueInv, StageTypeOK
  <2>3. ASSUME stage # NoStage, events[1].of = stage, NEW i \in 1..(n - 1)
        PROVE  events'[i].of = stage /\ events'[i].type # "OPENED"
    <3>1. stage = opened /\ opened \in Nat
      BY <2>3 DEF StageInv, StageTypeOK
    <3>2. /\ i + 1 \in 1..n /\ 1 < i + 1 /\ events'[i] = events[i + 1]
      BY <1>1
    <3>3. /\ events[i + 1].of \in Nat /\ events[i + 1].of <= opened
          /\ events[1].of <= events[i + 1].of
          /\ events[i + 1].type = "OPENED" => events[1].of < events[i + 1].of
      BY <1>1, <3>2, EventAt DEF StageInv, QueueInv
    <3> QED
      BY <2>3, <3>1, <3>2, <3>3
  <2> QED
    BY <1>1, <2>1, <2>2, <2>3 DEF SeenInv, PanelsComplete
<1>6. CASE OnClosing
  BY <1>1, <1>2, <1>6 DEF OnClosing, ResetStageGuard, SeenInv, PanelsComplete
<1> QED
  BY <1>1, <1>3, <1>4, <1>5, <1>6 DEF Deliver, PropsOnStageEvent, IsMonitor, Elsewhere

\* Every step keeps what is built complete.
LEMMA SeenStep ==
  ASSUME PropsAssumption, StageInv, GuardInv, SeenInv, [Next]_vars
  PROVE  SeenInv'
<1>0. opened \in Nat /\ stage \in {NoStage, opened} /\ events \in Seq(Event)
  BY DEF StageInv, StageTypeOK
<1>1. CASE StageOpens
  <2>1. /\ opened' = opened + 1 /\ stage' = opened + 1
        /\ UNCHANGED <<seen, builtKey>>
    BY <1>1 DEF StageOpens, OpenStage, IsMonitor, propsVars, memoryVars
  <2> QED
    BY <1>0, <2>1 DEF SeenInv, PanelsComplete, GuardInv
<1>2. CASE AssetsLoad \/ StageIsClosing
  <2>1. /\ stage # NoStage /\ UNCHANGED <<stage, opened>>
        /\ UNCHANGED <<seen, builtKey, content, broken>>
    BY <1>2 DEF AssetsLoad, LoadAssets, StageIsClosing, StartClose, Elsewhere,
       propsVars, memoryVars, overlayVars
  <2>2. PICK type \in {"ASSETS_LOADED", "CLOSING"} : Push(type, stage)
    BY <1>2 DEF AssetsLoad, LoadAssets, StageIsClosing, StartClose
  <2>3. EventOf(type, stage) \in Event
    BY <1>0, <2>1 DEF Event, EventOf, StageInv, StageTypeOK, NoStage, Stages
  <2>4. /\ Len(events') = Len(events) + 1 /\ Len(events) \in Nat
        /\ events'[Len(events) + 1] = EventOf(type, stage)
        /\ \A i \in 1..Len(events) : events'[i] = events[i]
    BY <1>0, <2>2, <2>3, Pushed
  <2> QED
    BY <2>1, <2>4 DEF SeenInv, PanelsComplete, Lost, EventOf
<1>3. CASE StageCloses
  <2>1. /\ stage' = NoStage /\ UNCHANGED <<opened, seen, builtKey>>
    BY <1>3 DEF StageCloses, EndClose, IsMonitor, OverlayGone, propsVars, memoryVars
  <2> QED
    BY <2>1 DEF SeenInv, PanelsComplete
<1>4. CASE Deliver
  BY <1>4, SeenDelivery
<1>5. CASE StartProps
  <2>1. seen' = NoStage /\ UNCHANGED <<stage, opened>>
    BY <1>5 DEF StartProps, PropsStartup, stageVars
  <2> QED
    BY <1>0, <2>1 DEF SeenInv, PanelsComplete, NoStage
<1>6. CASE StopProps
  <2>1. builtKey' = NoStage /\ UNCHANGED <<stage, opened, events, seen>>
    BY <1>6 DEF StopProps, PropsShutdown, ResetStageGuard, stageVars
  <2> QED
    BY <2>1 DEF SeenInv, PanelsComplete
<1>7. CASE \/ SwitchProps \/ StartMonitor \/ StopMonitor \/ MonitorFrame
           \/ ClientCommand \/ UserOrbits \/ UNCHANGED vars
  <2>1. UNCHANGED <<stage, opened, events, seen, builtKey, content, broken>>
    BY <1>7 DEF SwitchProps, ToggleEnabled, StartMonitor, StopMonitor,
       MonitorFrame, ClientCommand, UserOrbits, IsMonitor, vars, stageVars,
       propsVars, memoryVars, overlayVars
  <2> QED
    BY <2>1 DEF SeenInv, PanelsComplete, Lost
<1> QED
  BY <1>1, <1>2, <1>3, <1>4, <1>5, <1>6, <1>7 DEF Next

\* A stage whose OPENED was handled and that counts as built has every panel,
\* the plane and every hidden prim except what raised, for any number of stages
\* opened and closed while events wait (_on_stage_event, SceneBuilder.rebuild).
THEOREM PanelsCompleteHolds == Spec => []PanelsComplete
<1>1. Init => SeenInv
  BY DEF Init, StageInit, PropsInit, SeenInv, PanelsComplete, NoStage
<1>2. StageInv /\ GuardInv /\ SeenInv /\ [Next]_vars => SeenInv'
  BY SeenStep, PropsAssumption
<1>3. SeenInv => PanelsComplete
  BY DEF SeenInv
<1> QED
  BY <1>1, <1>2, <1>3, StageInvariant, GuardInvariant, PTL DEF Spec
=============================================================================
