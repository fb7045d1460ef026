------------------------ MODULE KafkaSubscriber_proofs ------------------------
(* Safety of KafkaSubscriber for any number of threads, any queue size and   *)
(* either backend.                                                           *)
EXTENDS KafkaSubscriber, TLAPS

\* TypeOK is inductive once a message is only taken within the frame's budget.
TypeInv ==
  /\ TypeOK
  /\ main = "take" => processed < FrameBudget

LEMMA InitType == Init => TypeInv
<1> SUFFICES ASSUME Init PROVE TypeInv
  OBVIOUS
<1>1. queue \in Seq(Topic) /\ Len(queue) <= MaxSize
  BY SubscriberAssumption DEF Init
<1>2. /\ backend \in {"confluent", "kafka-python"}
      /\ running \in BOOLEAN /\ topic \in Topic /\ connected \in BOOLEAN
      /\ pc \in [Thread -> ThreadPC] /\ myTopic \in [Thread -> Topic]
      /\ main \in MainPC /\ mode \in {"live", "replay"}
  BY DEF Init, Topic, ThreadPC, MainPC
<1>3. /\ processed \in 0..FrameBudget /\ late \in [Thread -> Nat]
      /\ main = "take" => processed < FrameBudget
  BY SubscriberAssumption DEF Init
<1>4. QED
  BY <1>1, <1>2, <1>3 DEF TypeInv, TypeOK

\* What the two queue operations preserve.
LEMMA QueueOps ==
  ASSUME TypeOK
  PROVE  /\ queue # <<>> => /\ Tail(queue) \in Seq(Topic)
                            /\ Len(Tail(queue)) < Len(queue)
                            /\ Len(Tail(queue)) \in Nat
         /\ \A m \in Topic : /\ Append(queue, m) \in Seq(Topic)
                             /\ Len(Append(queue, m)) = Len(queue) + 1
         /\ Len(queue) \in Nat
BY DEF TypeOK

\* Every queue operation of the subscriber keeps the queue well formed.
LEMMA QueueStep ==
  ASSUME TypeOK,
         \/ queue' = queue
         \/ queue # <<>> /\ queue' = Tail(queue)
         \/ Len(queue) < MaxSize /\ \E m \in Topic : queue' = Append(queue, m)
  PROVE  queue' \in Seq(Topic) /\ Len(queue') <= MaxSize
<1>1. Len(queue) <= MaxSize /\ queue \in Seq(Topic)
  BY DEF TypeOK
<1>2. CASE queue' = queue
  BY <1>1, <1>2
<1>3. CASE queue # <<>> /\ queue' = Tail(queue)
  BY <1>1, <1>3, QueueOps, SubscriberAssumption
<1>4. CASE Len(queue) < MaxSize /\ \E m \in Topic : queue' = Append(queue, m)
  BY <1>4, QueueOps, SubscriberAssumption
<1>5. QED
  BY <1>2, <1>3, <1>4

LEMMA ThreadStepType ==
  ASSUME TypeInv, NEW t \in Thread, ThreadStep(t)
  PROVE  TypeInv'
<1> USE SubscriberAssumption DEF TypeInv, TypeOK, Goto, ThreadPC
<1>1. CASE EnterLoop(t)
  BY <1>1 DEF EnterLoop
<1>2. CASE OuterTest(t)
  BY <1>2 DEF OuterTest
<1>3. CASE Connect(t)
  BY <1>3 DEF Connect
<1>4. CASE InnerTest(t)
  BY <1>4 DEF InnerTest
<1>5. CASE Poll(t)
  BY <1>5 DEF Poll
<1>6. CASE Fetch(t)
  BY <1>6 DEF Fetch
<1>7. CASE CheckFetched(t)
  BY <1>7 DEF CheckFetched
<1>8. CASE FullTest(t)
  BY <1>8 DEF FullTest
<1>9. CASE DropOldest(t)
  BY <1>9 DEF DropOldest
<1>10. CASE Put(t)
  <2>1. queue' \in Seq(Topic) /\ Len(queue') <= MaxSize
    <3>1. \/ queue' = queue
          \/ Len(queue) < MaxSize /\ queue' = Append(queue, myTopic[t])
      BY <1>10 DEF Put
    <3>2. QED
      BY <3>1, QueueStep
  <2>2. pc' \in [Thread -> ThreadPC]
    BY <1>10 DEF Put
  <2>3. late' \in [Thread -> Nat]
    <3>1. late[t] + 1 \in Nat
      OBVIOUS
    <3>2. late' = late \/ late' = [late EXCEPT ![t] = late[t] + 1]
      BY <1>10 DEF Put
    <3>3. QED
      BY <3>1, <3>2
  <2>4. UNCHANGED <<backend, running, topic, connected, myTopic, main, mode, processed>>
    BY <1>10 DEF Put
  <2>5. QED
    BY <2>1, <2>2, <2>3, <2>4
<1>11. CASE HandleError(t)
  BY <1>11 DEF HandleError
<1>12. CASE AfterConsume(t)
  BY <1>12 DEF AfterConsume
<1>13. CASE WakeUp(t)
  BY <1>13 DEF WakeUp
<1>14. CASE Finish(t)
  BY <1>14 DEF Finish
<1>15. QED
  BY ThreadStep(t), <1>1, <1>2, <1>3, <1>4, <1>5, <1>6, <1>7, <1>8, <1>9,
     <1>10, <1>11, <1>12, <1>13, <1>14 DEF ThreadStep

LEMMA MainStepType ==
  ASSUME TypeInv, MainStep
  PROVE  TypeInv'
<1> USE SubscriberAssumption
    DEF TypeInv, TypeOK, MainGoto, MainPC, ThreadPC, threadVars
<1>1. CASE Start
  BY <1>1 DEF Start, SpawnThread
<1>2. CASE ReplayCommand
  BY <1>2 DEF ReplayCommand
<1>3. CASE ClearQueue
  <2>1. queue' \in Seq(Topic) /\ Len(queue') <= MaxSize
    <3>1. queue' = queue \/ (queue # <<>> /\ queue' = Tail(queue))
      BY <1>3 DEF ClearQueue
    <3>2. QED
      BY <3>1, QueueStep
  <2>2. /\ main' \in {"clear", "set"}
        /\ UNCHANGED <<backend, running, topic, threadVars, mode, processed>>
    BY <1>3 DEF ClearQueue
  <2>3. QED
    BY <2>1, <2>2
<1>4. CASE SwitchTopic
  BY <1>4 DEF SwitchTopic, TopicOf, Topic
<1>5. CASE SwitchSpawn
  BY <1>5 DEF SwitchSpawn, SpawnThread
<1>6. CASE BeginFrame
  BY <1>6 DEF BeginFrame
<1>7. CASE FrameTest
  BY <1>7 DEF FrameTest
<1>8. CASE FrameTake
  <2>1. queue' \in Seq(Topic) /\ Len(queue') <= MaxSize
    <3>1. queue' = queue \/ (queue # <<>> /\ queue' = Tail(queue))
      BY <1>8 DEF FrameTake
    <3>2. QED
      BY <3>1, QueueStep
  <2>2. processed' \in 0..FrameBudget
    <3>1. main = "take" /\ processed' \in {processed, processed + 1}
      BY <1>8 DEF FrameTake
    <3>2. QED
      BY <3>1
  <2>3. /\ main' \in {"drain", "idle"}
        /\ UNCHANGED <<backend, running, topic, threadVars, mode>>
    BY <1>8 DEF FrameTake
  <2>4. QED
    BY <2>1, <2>2, <2>3
<1>9. CASE Stop
  BY <1>9 DEF Stop
<1>10. QED
  BY MainStep, <1>1, <1>2, <1>3, <1>4, <1>5, <1>6, <1>7, <1>8, <1>9
  DEF MainStep

\* The inductive invariant: types, and what a frame may still take.
LEMMA TypeInvHolds == Spec => []TypeInv
<1>1. TypeInv /\ [Next]_vars => TypeInv'
  <2> SUFFICES ASSUME TypeInv, [Next]_vars PROVE TypeInv'
    OBVIOUS
  <2>1. CASE MainStep
    BY <2>1, MainStepType
  <2>2. CASE \E t \in Thread : ThreadStep(t)
    BY <2>2, ThreadStepType
  <2>3. CASE Terminated \/ UNCHANGED vars
    BY <2>3 DEF Terminated, vars, TypeInv, TypeOK
  <2>4. QED
    BY <2>1, <2>2, <2>3 DEF Next
<1>2. QED
  BY InitType, <1>1, PTL DEF Spec

\* Type correctness of the subscriber; in particular the queue.Queue never
\* holds more than maxsize messages and a frame never exceeds its budget.
THEOREM TypeCorrect == Spec => []TypeOK
<1>1. TypeInv => TypeOK
  BY DEF TypeInv
<1>2. QED
  BY <1>1, TypeInvHolds, PTL

-----------------------------------------------------------------------------
(* What a thread step leaves alone.                                          *)

LEMMA ThreadFrame ==
  ASSUME TypeInv, NEW t \in Thread, ThreadStep(t)
  PROVE  /\ UNCHANGED <<running, topic, main, mode, processed>>
         /\ \A u \in Thread \ {t} : /\ pc'[u] = pc[u]
                                   /\ myTopic'[u] = myTopic[u]
                                   /\ late'[u] = late[u]
         /\ pc[t] \notin {"off", "done"}
         /\ pc'[t] \notin {"off", "new"}
BY DEF TypeInv, TypeOK, ThreadStep, Goto, EnterLoop, OuterTest, Connect, InnerTest, Poll, Fetch, CheckFetched,
       FullTest, DropOldest, Put, HandleError, AfterConsume, WakeUp, Finish

-----------------------------------------------------------------------------
(* LateBound: a thread that has put a late message is past the flag test     *)
(* that will make it leave, and back on no path to another put.              *)

LateInv ==
  \A t \in Thread :
    /\ late[t] <= 1
    /\ late[t] # 0 => /\ myTopic[t] # topic
                      /\ pc[t] \notin {"off", "new", "poll", "full", "drop", "put"}

LEMMA LateThreadStep ==
  ASSUME TypeInv, LateInv, NEW t \in Thread, ThreadStep(t)
  PROVE  LateInv'
<1>1. ASSUME NEW u \in Thread, u # t
      PROVE  /\ late'[u] <= 1
             /\ late'[u] # 0 =>
                  /\ myTopic'[u] # topic'
                  /\ pc'[u] \notin {"off", "new", "poll", "full", "drop", "put"}
  BY <1>1, ThreadFrame DEF LateInv
<1>2. /\ late'[t] <= 1
      /\ late'[t] # 0 =>
           /\ myTopic'[t] # topic'
           /\ pc'[t] \notin {"off", "new", "poll", "full", "drop", "put"}
  <2> USE DEF LateInv, TypeInv, TypeOK, Goto
  <2>1. CASE EnterLoop(t)
    BY <2>1 DEF EnterLoop
  <2>2. CASE OuterTest(t) \/ WakeUp(t) \/ HandleError(t) \/ Finish(t)
    BY <2>2 DEF OuterTest, WakeUp, HandleError, Finish
  <2>3. CASE Connect(t) \/ AfterConsume(t)
    BY <2>3 DEF Connect, AfterConsume
  <2>4. CASE InnerTest(t) \/ Poll(t)
    BY <2>4 DEF InnerTest, Poll
  <2>5. CASE Fetch(t) \/ CheckFetched(t)
    BY <2>5 DEF Fetch, CheckFetched
  <2>6. CASE FullTest(t) \/ DropOldest(t)
    BY <2>6 DEF FullTest, DropOldest
  <2>7. CASE Put(t)
    <3>1. late[t] = 0 /\ pc'[t] \in {"loop", "error"} /\ topic' = topic
          /\ myTopic' = myTopic
      BY <2>7 DEF Put
    <3>2. late'[t] = IF late' = late \/ topic = myTopic[t] THEN 0 ELSE 1
      BY <2>7, <3>1 DEF Put
    <3>3. late'[t] # 0 => topic # myTopic[t]
      BY <3>2
    <3>4. QED
      BY <3>1, <3>2, <3>3
  <2>8. QED
    BY ThreadStep(t), <2>1, <2>2, <2>3, <2>4, <2>5, <2>6, <2>7 DEF ThreadStep
<1>3. QED
  BY <1>1, <1>2 DEF LateInv

LEMMA LateMainStep ==
  ASSUME TypeInv, LateInv, MainStep
  PROVE  LateInv'
<1> USE DEF LateInv, TypeInv, TypeOK, MainGoto
<1>1. CASE Start
  BY <1>1 DEF Start, SpawnThread
<1>2. CASE ReplayCommand \/ ClearQueue \/ BeginFrame \/ FrameTest \/ FrameTake \/ Stop
  BY <1>2 DEF ReplayCommand, ClearQueue, BeginFrame, FrameTest, FrameTake, Stop,
              threadVars
<1>3. CASE SwitchTopic
  <2>1. pc' = pc /\ myTopic' = myTopic
    BY <1>3 DEF SwitchTopic
  <2>2. CASE topic' = topic /\ late' = late
    BY <2>1, <2>2
  <2>3. CASE late' = [t \in Thread |-> IF myTopic[t] = topic' THEN 0 ELSE late[t]]
    <3>1. \A t \in Thread : late'[t] = IF myTopic[t] = topic' THEN 0 ELSE late[t]
      BY <2>3
    <3>2. QED
      BY <2>1, <3>1
  <2>4. QED
    BY <1>3, <2>2, <2>3 DEF SwitchTopic
<1>4. CASE SwitchSpawn
  BY <1>4 DEF SwitchSpawn, SpawnThread
<1>5. QED
  BY MainStep, <1>1, <1>2, <1>3, <1>4 DEF MainStep

\* Each switch lets every thread of the old topic through with at most one
\* more message, for any number of threads and switches.
THEOREM LateBoundHolds == Spec => []LateBound
<1>1. Init => LateInv
  <2> SUFFICES ASSUME Init PROVE LateInv
    OBVIOUS
  <2>1. \A t \in Thread : late[t] = 0
    BY DEF Init
  <2>2. \A t \in Thread : late[t] <= 1
    <3>1. 0 <= 1
      OBVIOUS
    <3>2. QED
      BY <2>1, <3>1, Zenon
  <2>3. \A t \in Thread : ~(late[t] # 0)
    BY <2>1
  <2>4. QED
    BY <2>2, <2>3, Zenon DEF LateInv
<1>2. TypeInv /\ LateInv /\ [Next]_vars => LateInv'
  <2> SUFFICES ASSUME TypeInv, LateInv, [Next]_vars PROVE LateInv'
    OBVIOUS
  <2>1. CASE MainStep
    BY <2>1, LateMainStep
  <2>2. CASE \E t \in Thread : ThreadStep(t)
    BY <2>2, LateThreadStep
  <2>3. CASE Terminated \/ UNCHANGED vars
    BY <2>3 DEF Terminated, vars, LateInv
  <2>4. QED
    BY <2>1, <2>2, <2>3 DEF Next
<1>3. LateInv => LateBound
  BY DEF LateInv, LateBound
<1>4. QED
  BY <1>1, <1>2, <1>3, TypeInvHolds, PTL DEF Spec

-----------------------------------------------------------------------------
(* TopicServed: the thread created by the last switch, or the first thread   *)
(* while there was none, never sees a reason to leave.                       *)

Serves(t) == \/ pc[t] = "new"
             \/ Live(t) /\ pc[t] # "end" /\ myTopic[t] = topic

ServedInv ==
  /\ main \notin {"boot", "stopped"} => running
  /\ main \in {"idle", "clear", "set", "drain", "take"} =>
       \E t \in Thread : Serves(t)

LEMMA ServesStep ==
  ASSUME TypeInv, running, NEW t \in Thread, ThreadStep(t),
         NEW u \in Thread, Serves(u)
  PROVE  Serves(u)'
<1>1. CASE u # t
  BY <1>1, ThreadFrame DEF Serves, Live
<1>2. CASE u = t
  <2> USE <1>2 DEF Serves, Live, TypeInv, TypeOK, Goto
  <2>1. CASE EnterLoop(t)
    BY <2>1 DEF EnterLoop
  <2>2. CASE OuterTest(t) \/ WakeUp(t) \/ HandleError(t) \/ Finish(t)
    BY <2>2 DEF OuterTest, WakeUp, HandleError, Finish
  <2>3. CASE Connect(t) \/ AfterConsume(t)
    BY <2>3 DEF Connect, AfterConsume
  <2>4. CASE InnerTest(t) \/ Poll(t)
    BY <2>4 DEF InnerTest, Poll
  <2>5. CASE Fetch(t) \/ CheckFetched(t)
    BY <2>5 DEF Fetch, CheckFetched
  <2>6. CASE FullTest(t) \/ DropOldest(t) \/ Put(t)
    BY <2>6 DEF FullTest, DropOldest, Put
  <2>7. QED
    BY ThreadStep(t), <2>1, <2>2, <2>3, <2>4, <2>5, <2>6 DEF ThreadStep
<1>3. QED
  BY <1>1, <1>2

LEMMA ServedThreadStep ==
  ASSUME TypeInv, ServedInv, NEW t \in Thread, ThreadStep(t)
  PROVE  ServedInv'
<1>1. UNCHANGED <<running, main>>
  BY ThreadFrame
<1>2. ASSUME main \in {"idle", "clear", "set", "drain", "take"}
      PROVE  \E u \in Thread : Serves(u)'
  <2>1. running
    BY <1>2 DEF ServedInv
  <2>2. PICK u \in Thread : Serves(u)
    BY <1>2 DEF ServedInv
  <2>3. QED
    BY <2>1, <2>2, ServesStep
<1>3. QED
  BY <1>1, <1>2 DEF ServedInv

LEMMA ServedMainStep ==
  ASSUME TypeInv, ServedInv, MainStep
  PROVE  ServedInv'
<1> USE DEF ServedInv, Serves, Live, MainGoto
<1>1. CASE Start \/ SwitchSpawn
  BY <1>1 DEF Start, SwitchSpawn, SpawnThread, TypeInv, TypeOK
<1>2. CASE ReplayCommand \/ ClearQueue \/ BeginFrame \/ FrameTest \/ FrameTake
  BY <1>2 DEF ReplayCommand, ClearQueue, BeginFrame, FrameTest, FrameTake,
              threadVars
<1>3. CASE SwitchTopic
  BY <1>3 DEF SwitchTopic
<1>4. CASE Stop
  BY <1>4 DEF Stop
<1>5. QED
  BY MainStep, <1>1, <1>2, <1>3, <1>4 DEF MainStep

\* The topic the subscriber is set to always has a thread on its way to it or
\* on it, however switches and threads interleave.
THEOREM TopicServedHolds == Spec => []TopicServed
<1>1. Init => ServedInv
  BY DEF Init, ServedInv
<1>2. TypeInv /\ ServedInv /\ [Next]_vars => ServedInv'
  <2> SUFFICES ASSUME TypeInv, ServedInv, [Next]_vars PROVE ServedInv'
    OBVIOUS
  <2>1. CASE MainStep
    BY <2>1, ServedMainStep
  <2>2. CASE \E t \in Thread : ThreadStep(t)
    BY <2>2, ServedThreadStep
  <2>3. CASE Terminated \/ UNCHANGED vars
    BY <2>3 DEF Terminated, vars, ServedInv, Serves, Live
  <2>4. QED
    BY <2>1, <2>2, <2>3 DEF Next
<1>3. ServedInv => TopicServed
  BY DEF ServedInv, TopicServed, Serves
<1>4. QED
  BY <1>1, <1>2, <1>3, TypeInvHolds, PTL DEF Spec

-----------------------------------------------------------------------------
(* FullOnlyByRace: between a thread's full() test and its put only another   *)
(* thread can make the queue full.                                           *)

LEMMA FullThreadStep ==
  ASSUME TypeInv, FullOnlyByRace, NEW t \in Thread, ThreadStep(t)
  PROVE  FullOnlyByRace'
<1> SUFFICES ASSUME NEW u \in Thread, pc'[u] = "put", Len(queue') >= MaxSize
             PROVE  \E w \in Thread \ {u} : pc'[w] \notin {"off", "new"}
  BY DEF FullOnlyByRace
<1>1. CASE u # t
  BY <1>1, ThreadFrame
<1>2. CASE u = t
  <2>1. \/ FullTest(t) /\ Len(queue) < MaxSize
        \/ DropOldest(t)
    BY <1>2 DEF ThreadStep, Goto, TypeInv, TypeOK, EnterLoop, OuterTest, Connect,
       InnerTest, Poll, Fetch, CheckFetched, FullTest, DropOldest, Put,
       HandleError, AfterConsume, WakeUp, Finish
  <2>2. CASE FullTest(t) /\ Len(queue) < MaxSize
    <3>1. queue' = queue /\ Len(queue) \in Nat
      BY <2>2, QueueOps DEF FullTest, TypeInv
    <3>2. QED
      BY <2>2, <3>1, SubscriberAssumption
  <2>3. CASE DropOldest(t)
    <3>1. Len(queue') < MaxSize
      <4>1. CASE queue = <<>>
        BY <2>3, <4>1, SubscriberAssumption DEF DropOldest
      <4>2. CASE queue # <<>>
        <5>1. queue' = Tail(queue) /\ Len(queue) <= MaxSize
          BY <2>3, <4>2 DEF DropOldest, TypeInv, TypeOK
        <5>2. QED
          BY <4>2, <5>1, QueueOps, SubscriberAssumption DEF TypeInv
      <4>3. QED
        BY <4>1, <4>2
    <3>2. Len(queue') \in Nat
      BY <2>3, QueueOps DEF DropOldest, TypeInv
    <3>3. QED
      BY <3>1, <3>2, SubscriberAssumption
  <2>4. QED
    BY <2>1, <2>2, <2>3
<1>3. QED
  BY <1>1, <1>2

LEMMA FullMainStep ==
  ASSUME TypeInv, FullOnlyByRace, MainStep
  PROVE  FullOnlyByRace'
<1> SUFFICES ASSUME NEW u \in Thread, pc'[u] = "put", Len(queue') >= MaxSize
             PROVE  \E w \in Thread \ {u} : pc'[w] \notin {"off", "new"}
  BY DEF FullOnlyByRace
<1>1. \/ queue' = queue
      \/ queue # <<>> /\ queue' = Tail(queue)
  BY MainStep DEF MainStep, Start, ReplayCommand, ClearQueue, SwitchTopic,
     SwitchSpawn, BeginFrame, FrameTest, FrameTake, Stop
<1>2. Len(queue) >= MaxSize
  BY <1>1, QueueOps, SubscriberAssumption DEF TypeInv
<1>3. /\ pc[u] = "put"
      /\ \A w \in Thread : pc'[w] = pc[w] \/ (pc[w] = "off" /\ pc'[w] = "new")
  BY MainStep DEF MainStep, Start, SpawnThread, ReplayCommand, ClearQueue,
     SwitchTopic, SwitchSpawn, BeginFrame, FrameTest, FrameTake, Stop,
     threadVars, TypeInv, TypeOK
<1>4. PICK w \in Thread \ {u} : pc[w] \notin {"off", "new"}
  BY <1>2, <1>3 DEF FullOnlyByRace
<1>5. QED
  BY <1>3, <1>4

\* With a single consumer thread put_nowait never raises queue.Full; only the
\* overlap of threads that a switch creates can make it raise.
THEOREM FullOnlyByRaceHolds == Spec => []FullOnlyByRace
<1>1. Init => FullOnlyByRace
  BY DEF Init, FullOnlyByRace
<1>2. TypeInv /\ FullOnlyByRace /\ [Next]_vars => FullOnlyByRace'
  <2> SUFFICES ASSUME TypeInv, FullOnlyByRace, [Next]_vars PROVE FullOnlyByRace'
    OBVIOUS
  <2>1. CASE MainStep
    BY <2>1, FullMainStep
  <2>2. CASE \E t \in Thread : ThreadStep(t)
    BY <2>2, FullThreadStep
  <2>3. CASE Terminated \/ UNCHANGED vars
    BY <2>3 DEF Terminated, vars, FullOnlyByRace
  <2>4. QED
    BY <2>1, <2>2, <2>3 DEF Next
<1>3. QED
  BY <1>1, <1>2, TypeInvHolds, PTL DEF Spec

-----------------------------------------------------------------------------
(* ConnectedHasThread                                                        *)

LEMMA ConnectedThreadStep ==
  ASSUME TypeInv, ConnectedHasThread, NEW t \in Thread, ThreadStep(t)
  PROVE  ConnectedHasThread'
<1>1. CASE Finish(t)
  BY <1>1 DEF Finish, ConnectedHasThread
<1>2. CASE ~Finish(t)
  <2>1. pc'[t] \notin {"off", "new", "done"}
    BY <1>2 DEF ThreadStep, Goto, TypeInv, TypeOK, EnterLoop, OuterTest, Connect,
       InnerTest, Poll, Fetch, CheckFetched, FullTest, DropOldest, Put,
       HandleError, AfterConsume, WakeUp
  <2>2. QED
    BY <2>1 DEF ConnectedHasThread, Live
<1>3. QED
  BY <1>1, <1>2

\* is_connected() answers False once every consumer thread has ended.
THEOREM ConnectedHasThreadHolds == Spec => []ConnectedHasThread
<1>1. Init => ConnectedHasThread
  BY DEF Init, ConnectedHasThread
<1>2. TypeInv /\ ConnectedHasThread /\ [Next]_vars => ConnectedHasThread'
  <2> SUFFICES ASSUME TypeInv, ConnectedHasThread, [Next]_vars PROVE ConnectedHasThread'
    OBVIOUS
  <2>1. CASE MainStep
    BY <2>1 DEF MainStep, Start, SpawnThread, ReplayCommand, ClearQueue,
       SwitchTopic, SwitchSpawn, BeginFrame, FrameTest, FrameTake, Stop,
       threadVars, TypeInv, TypeOK, ConnectedHasThread, Live
  <2>2. CASE \E t \in Thread : ThreadStep(t)
    BY <2>2, ConnectedThreadStep
  <2>3. CASE Terminated \/ UNCHANGED vars
    BY <2>3 DEF Terminated, vars, ConnectedHasThread, Live
  <2>4. QED
    BY <2>1, <2>2, <2>3 DEF Next
<1>3. QED
  BY <1>1, <1>2, TypeInvHolds, PTL DEF Spec

-----------------------------------------------------------------------------
(* Refinement: the subscriber is a TopicFeed.                                *)

Holding == {"poll", "full", "drop", "put"}

\* What a thread step does to the hands: only the hand of the thread that takes
\* the step can change.
LEMMA HandThreadStep ==
  ASSUME TypeInv, NEW t \in Thread, ThreadStep(t)
  PROVE  InHand' = [InHand EXCEPT
                      ![t] = IF pc'[t] \in Holding THEN {myTopic'[t]} ELSE {}]
BY ThreadFrame DEF InHand, Holding

\* The hand of a thread that keeps its message, or stays without one.
LEMMA HandKept ==
  ASSUME TypeInv, NEW t \in Thread, ThreadStep(t), myTopic' = myTopic,
         pc[t] \in Holding <=> pc'[t] \in Holding
  PROVE  InHand' = InHand
BY HandThreadStep DEF InHand, Holding

LEMMA FeedThreadStep ==
  ASSUME TypeInv, NEW t \in Thread, ThreadStep(t)
  PROVE  [Feed!Next]_(Feed!feedVars)
<1> DEFINE nothing == UNCHANGED Feed!feedVars
<1>0. /\ InHand[t] = IF pc[t] \in Holding THEN {myTopic[t]} ELSE {}
      /\ topic' = topic
  BY ThreadFrame DEF InHand, Holding
<1>1. ASSUME queue' = queue, myTopic' = myTopic,
             pc[t] \in Holding <=> pc'[t] \in Holding
      PROVE  nothing
  BY <1>0, <1>1, HandKept DEF Feed!feedVars
<1>2. ASSUME queue' = queue, pc[t] \in Holding, pc'[t] \notin Holding
      PROVE  Feed!GiveUp(t)
  <2>1. InHand' = [InHand EXCEPT ![t] = {}]
    BY <1>2, HandThreadStep
  <2>2. QED
    BY <1>0, <1>2, <2>1 DEF Feed!GiveUp
<1>3. ASSUME queue' = queue, myTopic' = myTopic, topic = myTopic[t],
             pc[t] \notin Holding, pc'[t] \in Holding
      PROVE  Feed!PickUp(t)
  <2>1. InHand' = [InHand EXCEPT ![t] = {topic}]
    BY <1>3, HandThreadStep
  <2>2. QED
    BY <1>0, <1>3, <2>1 DEF Feed!PickUp
<1> USE DEF Goto, TypeInv, TypeOK, Holding
<1>4. CASE EnterLoop(t)
  <2>1. InHand' = [InHand EXCEPT ![t] = {}] /\ InHand[t] = {} /\ queue' = queue
    BY <1>0, <1>4, HandThreadStep DEF EnterLoop
  <2>2. InHand' = InHand
    BY <2>1 DEF InHand
  <2>3. QED
    BY <1>0, <2>1, <2>2 DEF Feed!feedVars
<1>5. CASE OuterTest(t) \/ WakeUp(t) \/ HandleError(t) \/ Finish(t)
  BY <1>1, <1>5 DEF OuterTest, WakeUp, HandleError, Finish
<1>6. CASE Connect(t) \/ AfterConsume(t) \/ Fetch(t) \/ FullTest(t)
  BY <1>1, <1>6 DEF Connect, AfterConsume, Fetch, FullTest
<1>7. CASE InnerTest(t)
  <2>1. nothing \/ Feed!PickUp(t)
    BY <1>1, <1>3, <1>7 DEF InnerTest
  <2>2. QED
    BY <2>1 DEF Feed!Next
<1>8. CASE Poll(t)
  <2>1. nothing \/ Feed!GiveUp(t)
    BY <1>1, <1>2, <1>8 DEF Poll
  <2>2. QED
    BY <2>1 DEF Feed!Next
<1>9. CASE CheckFetched(t)
  <2>1. nothing \/ Feed!PickUp(t)
    BY <1>1, <1>3, <1>9 DEF CheckFetched
  <2>2. QED
    BY <2>1 DEF Feed!Next
<1>10. CASE DropOldest(t)
  <2>1. InHand' = InHand
    BY <1>10, HandKept DEF DropOldest
  <2>2. queue' = queue \/ (queue # <<>> /\ queue' = Tail(queue))
    BY <1>10 DEF DropOldest
  <2>3. nothing \/ Feed!Leave
    BY <1>0, <2>1, <2>2 DEF Feed!feedVars, Feed!Leave
  <2>4. QED
    BY <2>3 DEF Feed!Next
<1>11. CASE Put(t)
  <2>1. CASE queue' = queue /\ pc'[t] = "error"
    <3>1. Feed!GiveUp(t)
      BY <1>2, <1>11, <2>1 DEF Put
    <3>2. QED
      BY <3>1 DEF Feed!Next
  <2>2. CASE /\ Len(queue) < MaxSize
             /\ pc'[t] = "loop"
             /\ queue' = Append(queue, myTopic[t])
    <3>1. InHand' = [InHand EXCEPT ![t] = {}] /\ InHand[t] = {myTopic[t]}
      BY <1>0, <1>11, <2>2, HandThreadStep DEF Put
    <3>2. Feed!Deliver(t)
      BY <1>0, <2>2, <3>1 DEF Feed!Deliver
    <3>3. QED
      BY <3>2 DEF Feed!Next
  <2>3. QED
    BY <1>11, <2>1, <2>2 DEF Put
<1>12. QED
  BY ThreadStep(t), <1>4, <1>5, <1>6, <1>7, <1>8, <1>9, <1>10, <1>11
  DEF ThreadStep

LEMMA FeedMainStep ==
  ASSUME TypeInv, MainStep
  PROVE  [Feed!Next]_(Feed!feedVars)
<1>1. InHand' = InHand
  <2>1. \A t \in Thread : /\ pc'[t] = pc[t] \/ (pc[t] = "off" /\ pc'[t] = "new")
                          /\ myTopic'[t] = myTopic[t]
    BY DEF MainStep, Start, SpawnThread, ReplayCommand, ClearQueue, SwitchTopic,
       SwitchSpawn, BeginFrame, FrameTest, FrameTake, Stop, threadVars,
       TypeInv, TypeOK
  <2>2. QED
    BY <2>1 DEF InHand
<1>2. CASE ClearQueue \/ FrameTake
  <2>1. topic' = topic /\ (queue' = queue \/ (queue # <<>> /\ queue' = Tail(queue)))
    BY <1>2 DEF ClearQueue, FrameTake
  <2>2. UNCHANGED Feed!feedVars \/ Feed!Leave
    BY <1>1, <2>1 DEF Feed!feedVars, Feed!Leave
  <2>3. QED
    BY <2>2 DEF Feed!Next
<1>3. CASE SwitchTopic
  <2>1. queue' = queue /\ (topic' = topic \/ topic' = TopicOf(mode))
    BY <1>3 DEF SwitchTopic
  <2>2. TopicOf(mode) \in {StartTopic, ReplayTopic, RestoreTopic}
    BY DEF TopicOf
  <2>3. UNCHANGED Feed!feedVars
          \/ \E new \in {StartTopic, ReplayTopic, RestoreTopic} : Feed!SwitchTo(new)
    BY <1>1, <2>1, <2>2 DEF Feed!feedVars, Feed!SwitchTo
  <2>4. QED
    BY <2>3 DEF Feed!Next, Topic
<1>4. CASE Start \/ ReplayCommand \/ SwitchSpawn \/ BeginFrame \/ FrameTest \/ Stop
  <2>1. topic' = topic /\ queue' = queue
    BY <1>4 DEF Start, ReplayCommand, SwitchSpawn, BeginFrame, FrameTest, Stop
  <2>2. QED
    BY <1>1, <2>1 DEF Feed!feedVars
<1>5. QED
  BY MainStep, <1>2, <1>3, <1>4 DEF MainStep

\* Every behaviour of the subscriber, its threads and the main thread is one of
\* TopicFeed: first in first out, bounded, and a consumer delivers at most the
\* one message it had in hand when its topic was switched away.
THEOREM FeedRefined == Spec => FeedImplemented
<1>1. Init => Feed!Init
  BY DEF Init, Feed!Init, InHand
<1>2. TypeInv /\ [Next]_vars => [Feed!Next]_(Feed!feedVars)
  <2> SUFFICES ASSUME TypeInv, [Next]_vars PROVE [Feed!Next]_(Feed!feedVars)
    OBVIOUS
  <2>1. CASE MainStep
    BY <2>1, FeedMainStep
  <2>2. CASE \E t \in Thread : ThreadStep(t)
    BY <2>2, FeedThreadStep
  <2>3. CASE Terminated \/ UNCHANGED vars
    BY <2>3 DEF Terminated, vars, Feed!feedVars, InHand
  <2>4. QED
    BY <2>1, <2>2, <2>3 DEF Next
<1>3. QED
  BY <1>1, <1>2, TypeInvHolds, PTL DEF Spec, FeedImplemented, Feed!Spec
=============================================================================
