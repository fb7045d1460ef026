--------------------------- MODULE KafkaSubscriber ---------------------------
(***************************************************************************)
(* One Kafka subscriber of the datacenter_monitor extension: the consumer  *)
(* threads that poll a topic, the bounded queue between them and Kit's     *)
(* main thread, and the main-thread operations on it (start, the replay    *)
(* callbacks that clear the queue and switch the topic, the per-frame      *)
(* drain, stop).  KafkaSubscriber and NodeStateSubscriber differ only in   *)
(* the topics they are given; ClusterRankSubscriber never switches, which  *)
(* is the instance with a single element in Thread.                        *)
(*                                                                         *)
(* A message is abstracted to the topic it was polled from.  Every step is *)
(* one access to state shared between threads.                             *)
(***************************************************************************)
EXTENDS Naturals, Sequences

CONSTANTS
  Thread,       \* consumer threads the subscriber may create (bounds the switches)
  StartTopic,   \* topic handed to the constructor
  ReplayTopic,  \* topic _on_replay_start switches to
  RestoreTopic, \* topic _on_replay_stop switches to
  MaxSize,      \* maxsize of the queue.Queue
  FrameBudget   \* messages one _on_update may process

ASSUME SubscriberAssumption ==
  /\ MaxSize \in Nat \ {0}
  /\ FrameBudget \in Nat \ {0}

Topic == {StartTopic, ReplayTopic, RestoreTopic}

VARIABLES
  backend,    \* _BACKEND: the library found when the module is imported
  running,    \* self._running
  topic,      \* self._current_topic (self._topic in NodeStateSubscriber)
  connected,  \* self._connected
  queue,      \* the shared queue.Queue, oldest message first
  pc,         \* where each consumer thread is
  myTopic,    \* the local my_topic of each thread
  main,       \* where the Kit main thread is
  mode,       \* what the operator last asked for: "live" or "replay"
  processed,  \* messages the current _on_update has taken
  late        \* history: messages a thread put since its topic was switched away

vars == <<backend, running, topic, connected, queue, pc, myTopic, main, mode,
          processed, late>>

threadVars == <<pc, myTopic, connected, late>>

ThreadPC == {"off", "new", "top", "open", "loop", "poll", "check", "full",
             "drop", "put", "error", "after", "sleep", "end", "done"}
MainPC == {"boot", "idle", "clear", "set", "spawn", "drain", "take", "stopped"}

\* A thread exists and has not finished.
Live(t) == pc[t] \notin {"off", "done"}

TypeOK ==
  /\ backend \in {"confluent", "kafka-python"}
  /\ running \in BOOLEAN
  /\ topic \in Topic
  /\ connected \in BOOLEAN
  /\ queue \in Seq(Topic)
  /\ Len(queue) <= MaxSize
  /\ pc \in [Thread -> ThreadPC]
  /\ myTopic \in [Thread -> Topic]
  /\ main \in MainPC
  /\ mode \in {"live", "replay"}
  /\ processed \in 0..FrameBudget
  /\ late \in [Thread -> Nat]

Init ==
  /\ backend \in {"confluent", "kafka-python"}
  /\ running = FALSE
  /\ topic = StartTopic
  /\ connected = FALSE
  /\ queue = <<>>
  /\ pc = [t \in Thread |-> "off"]
  /\ myTopic = [t \in Thread |-> StartTopic]
  /\ main = "boot"
  /\ mode = "live"
  /\ processed = 0
  /\ late = [t \in Thread |-> 0]

-----------------------------------------------------------------------------
(* Consumer threads                                                        *)

Goto(t, from, to) ==
  /\ pc[t] = from
  /\ pc' = [pc EXCEPT ![t] = to]
  /\ UNCHANGED backend

\* The new thread reads the topic it will consume only once it runs.
EnterLoop(t) ==
  /\ Goto(t, "new", "top")
  /\ myTopic' = [myTopic EXCEPT ![t] = topic]
  /\ UNCHANGED <<running, topic, connected, queue, main, mode, processed, late>>

\* while self._running: ...
OuterTest(t) ==
  /\ Goto(t, "top", IF running THEN "open" ELSE "end")
  /\ UNCHANGED <<running, topic, connected, queue, myTopic, main, mode,
                 processed, late>>

\* Creating the consumer and subscribing succeeds, or raises.
Connect(t) ==
  /\ \/ Goto(t, "open", "loop") /\ connected' = TRUE
     \/ Goto(t, "open", "error") /\ UNCHANGED connected
  /\ UNCHANGED <<running, topic, queue, myTopic, main, mode, processed, late>>

\* Slip: the inner while forgets the topic.
MutInnerTestNoTopic(t) ==
  /\ backend = "confluent"
  /\ Goto(t, "loop", IF running THEN "poll" ELSE "after")
  /\ UNCHANGED <<running, topic, connected, queue, myTopic, main, mode,
                 processed, late>>

\* confluent: the inner while tests both flags before every poll.
InnerTest(t) ==
  /\ backend = "confluent"
  /\ Goto(t, "loop",
          IF running /\ topic = myTopic[t] THEN "poll" ELSE "after")
  /\ UNCHANGED <<running, topic, connected, queue, myTopic, main, mode,
                 processed, late>>

\* confluent: nothing, EOF or an unusable payload; a message; a broker error.
Poll(t) ==
  /\ backend = "confluent"
  /\ \E result \in {"loop", "full", "error"} : Goto(t, "poll", result)
  /\ UNCHANGED <<running, topic, connected, queue, myTopic, main, mode,
                 processed, late>>

\* kafka-python: the iterator ends when idle, yields a message, or raises.
Fetch(t) ==
  /\ backend = "kafka-python"
  /\ \E result \in {"after", "check", "error"} : Goto(t, "loop", result)
  /\ UNCHANGED <<running, topic, connected, queue, myTopic, main, mode,
                 processed, late>>

\* Slip: the fetched message is kept whatever the topic is now.
MutCheckFetchedNoTopic(t) ==
  /\ \/ running /\ \E result \in {"loop", "full"} : Goto(t, "check", result)
     \/ ~running /\ Goto(t, "check", "after")
  /\ UNCHANGED <<running, topic, connected, queue, myTopic, main, mode,
                 processed, late>>

\* kafka-python: the flags are tested after a message was fetched, which is
\* then dropped, skipped as unusable, or kept.
CheckFetched(t) ==
  /\ \/ /\ running /\ topic = myTopic[t]
        /\ \E result \in {"loop", "full"} : Goto(t, "check", result)
     \/ /\ ~(running /\ topic = myTopic[t])
        /\ Goto(t, "check", "after")
  /\ UNCHANGED <<running, topic, connected, queue, myTopic, main, mode,
                 processed, late>>

\* Slip: off by one in the full() test.
MutFullTestOffByOne(t) ==
  /\ Goto(t, "full", IF Len(queue) > MaxSize THEN "drop" ELSE "put")
  /\ UNCHANGED <<running, topic, connected, queue, myTopic, main, mode,
                 processed, late>>

\* if self._queue.full(): ...
FullTest(t) ==
  /\ Goto(t, "full", IF Len(queue) >= MaxSize THEN "drop" ELSE "put")
  /\ UNCHANGED <<running, topic, connected, queue, myTopic, main, mode,
                 processed, late>>

\* get_nowait() discards the oldest message; queue.Empty is ignored.
DropOldest(t) ==
  /\ Goto(t, "drop", "put")
  /\ queue' = IF queue = <<>> THEN queue ELSE Tail(queue)
  /\ UNCHANGED <<running, topic, connected, myTopic, main, mode, processed, late>>

\* Slip: a queue that admits one message too many.
MutPutOverfull(t) ==
  /\ Len(queue) <= MaxSize
  /\ Goto(t, "put", "loop")
  /\ queue' = Append(queue, myTopic[t])
  /\ UNCHANGED <<running, topic, connected, myTopic, main, mode, processed, late>>

\* put_nowait() appends, or raises queue.Full into the except clause.
Put(t) ==
  /\ \/ /\ Len(queue) < MaxSize
        /\ Goto(t, "put", "loop")
        /\ queue' = Append(queue, myTopic[t])
        /\ late' = IF topic = myTopic[t] THEN late
                   ELSE [late EXCEPT ![t] = @ + 1]
     \/ /\ Len(queue) >= MaxSize
        /\ Goto(t, "put", "error")
        /\ UNCHANGED <<queue, late>>
  /\ UNCHANGED <<running, topic, connected, myTopic, main, mode, processed>>

\* except Exception: the consumer is closed and the thread falls through.
HandleError(t) ==
  /\ Goto(t, "error", "after")
  /\ connected' = FALSE
  /\ UNCHANGED <<running, topic, queue, myTopic, main, mode, processed, late>>

\* Slip: the thread reconnects to its old topic instead of leaving.
MutAfterConsumeNoTopic(t) ==
  /\ Goto(t, "after", IF running THEN "sleep" ELSE "top")
  /\ UNCHANGED <<running, topic, connected, queue, myTopic, main, mode,
                 processed, late>>

\* Leave for good if the topic changed, otherwise sleep 5 s while running.
AfterConsume(t) ==
  /\ Goto(t, "after", IF topic # myTopic[t] THEN "end"
                      ELSE IF running THEN "sleep" ELSE "top")
  /\ UNCHANGED <<running, topic, connected, queue, myTopic, main, mode,
                 processed, late>>

WakeUp(t) ==
  /\ Goto(t, "sleep", "top")
  /\ UNCHANGED <<running, topic, connected, queue, myTopic, main, mode,
                 processed, late>>

\* Slip: the thread leaves without clearing the flag.
MutFinishKeepsFlag(t) ==
  /\ Goto(t, "end", "done")
  /\ UNCHANGED <<running, topic, connected, queue, myTopic, main, mode,
                 processed, late>>

\* The last statements of the loop run whichever way it ended.
Finish(t) ==
  /\ Goto(t, "end", "done")
  /\ connected' = FALSE
  /\ UNCHANGED <<running, topic, queue, myTopic, main, mode, processed, late>>

ThreadStep(t) ==
  \/ EnterLoop(t)
  \/ OuterTest(t)
  \/ Connect(t)
  \/ InnerTest(t)
  \/ Poll(t)
  \/ Fetch(t)
  \/ CheckFetched(t)
  \/ FullTest(t)
  \/ DropOldest(t)
  \/ Put(t)
  \/ HandleError(t)
  \/ AfterConsume(t)
  \/ WakeUp(t)
  \/ Finish(t)

-----------------------------------------------------------------------------
(* Kit main thread                                                         *)

MainGoto(from, to) ==
  /\ main = from
  /\ main' = to
  /\ UNCHANGED backend

\* threading.Thread(target=self._consume_loop).start(): a new thread, which
\* element of Thread stands for it does not matter.
SpawnThread ==
  \E t \in Thread :
    /\ pc[t] = "off"
    /\ t = CHOOSE u \in Thread : pc[u] = "off"
    /\ pc' = [pc EXCEPT ![t] = "new"]

\* on_startup calls start() once, with no thread and _running unset.
Start ==
  /\ MainGoto("boot", "idle")
  /\ ~running
  /\ running' = TRUE
  /\ SpawnThread
  /\ UNCHANGED <<topic, connected, queue, myTopic, mode, processed, late>>

\* React sent replay_start or replay_stop.  A switch needs an unused thread,
\* which bounds the number of switches.
ReplayCommand ==
  /\ MainGoto("idle", "clear")
  /\ \E t \in Thread : pc[t] = "off"
  /\ mode' \in {"live", "replay"}
  /\ UNCHANGED <<running, topic, queue, threadVars, processed>>

\* _clear_kafka_queue: get_nowait() until queue.Empty.
ClearQueue ==
  /\ \/ queue # <<>> /\ MainGoto("clear", "clear") /\ queue' = Tail(queue)
     \/ queue = <<>> /\ MainGoto("clear", "set") /\ UNCHANGED queue
  /\ UNCHANGED <<running, topic, threadVars, mode, processed>>

TopicOf(m) == IF m = "replay" THEN ReplayTopic ELSE RestoreTopic

\* Slip: the topic is set but no thread is created for it.
MutSwitchTopicNoThread ==
  /\ MainGoto("set", "idle")
  /\ topic' = TopicOf(mode)
  /\ late' = [t \in Thread |-> IF myTopic[t] = topic' THEN 0 ELSE late[t]]
  /\ UNCHANGED <<running, connected, queue, pc, myTopic, mode, processed>>

\* switch_topic: nothing to do, or the new topic is published to the threads.
SwitchTopic ==
  /\ \/ /\ topic = TopicOf(mode)
        /\ MainGoto("set", "idle")
        /\ UNCHANGED <<topic, late>>
     \/ /\ topic # TopicOf(mode)
        /\ MainGoto("set", "spawn")
        /\ topic' = TopicOf(mode)
        /\ late' = [t \in Thread |-> IF myTopic[t] = topic' THEN 0 ELSE late[t]]
  /\ UNCHANGED <<running, connected, queue, pc, myTopic, mode, processed>>

\* switch_topic: then the thread for it is created.
SwitchSpawn ==
  /\ MainGoto("spawn", "idle")
  /\ SpawnThread
  /\ UNCHANGED <<running, topic, connected, queue, myTopic, mode, processed, late>>

\* _on_update
BeginFrame ==
  /\ MainGoto("idle", "drain")
  /\ processed' = 0
  /\ UNCHANGED <<running, topic, queue, threadVars, mode>>

\* while not queue.empty() and processed < FrameBudget
FrameTest ==
  /\ MainGoto("drain", IF queue # <<>> /\ processed < FrameBudget
                       THEN "take" ELSE "idle")
  /\ UNCHANGED <<running, topic, queue, threadVars, mode, processed>>

\* get_nowait(): a consumer thread may have emptied the queue since the test.
FrameTake ==
  /\ \/ /\ queue # <<>>
        /\ MainGoto("take", "drain")
        /\ queue' = Tail(queue)
        /\ processed' = processed + 1
     \/ /\ queue = <<>>
        /\ MainGoto("take", "idle")
        /\ UNCHANGED <<queue, processed>>
  /\ UNCHANGED <<running, topic, threadVars, mode>>

\* on_shutdown: stop(), after which the main thread leaves the subscriber alone.
Stop ==
  /\ MainGoto("idle", "stopped")
  /\ running' = FALSE
  /\ UNCHANGED <<topic, queue, threadVars, mode, processed>>

\* Nothing is left to run.
Terminated ==
  /\ main = "stopped"
  /\ \A t \in Thread : ~Live(t)
  /\ UNCHANGED vars

MainStep ==
  \/ Start
  \/ ReplayCommand
  \/ ClearQueue
  \/ SwitchTopic
  \/ SwitchSpawn
  \/ BeginFrame
  \/ FrameTest
  \/ FrameTake
  \/ Stop

Next ==
  \/ MainStep
  \/ \E t \in Thread : ThreadStep(t)
  \/ Terminated

\* A started Python thread keeps being scheduled and every poll, connection
\* attempt and sleep has a timeout.  The operator owes nothing: MainStep has
\* no fairness.
Spec == Init /\ [][Next]_vars /\ \A t \in Thread : WF_vars(ThreadStep(t))

-----------------------------------------------------------------------------
(* Properties                                                              *)

\* A consumer thread whose topic was switched away puts at most one more
\* message into the shared queue before it notices the switch (the flag test
\* of the consume loops against the write in switch_topic).
LateBound == \A t \in Thread : late[t] <= 1

\* Whenever no switch is half done, the current topic has a thread that will
\* consume it or is consuming it: no order of switches and thread steps makes
\* every thread leave a topic that the subscriber is set to.
TopicServed ==
  main \in {"idle", "clear", "set", "drain", "take"} =>
    \E t \in Thread :
      \/ pc[t] = "new"
      \/ Live(t) /\ pc[t] # "end" /\ myTopic[t] = topic

\* The put that follows the full() test can only meet a full queue, and so
\* raise queue.Full and drop the connection, when a second consumer thread
\* has run: a subscriber that never switched topics never does.
FullOnlyByRace ==
  \A t \in Thread :
    pc[t] = "put" /\ Len(queue) >= MaxSize =>
      \E u \in Thread \ {t} : pc[u] \notin {"off", "new"}

\* is_connected() never answers True once every thread is gone: the flag is
\* written by all threads without a lock, and the last one to leave clears it.
ConnectedHasThread ==
  connected =>
    \E t \in Thread : Live(t) /\ pc[t] # "new"

\* Once a replay callback has returned, the subscriber is set to the replay
\* topic in replay, and to the topic it was constructed with otherwise
\* (extension.py _on_replay_start, _on_replay_stop).
TopicFollowsMode ==
  main = "idle" =>
    topic = IF mode = "replay" THEN ReplayTopic ELSE StartTopic

\* The message a thread has in hand: between the test that its topic is still
\* the current one and the put, or the error, that ends the attempt.
InHand ==
  [t \in Thread |->
     IF pc[t] \in {"poll", "full", "drop", "put"} THEN {myTopic[t]} ELSE {}]

Feed == INSTANCE TopicFeed WITH Consumer <- Thread, hand <- InHand

\* What the main thread may rely on: the subscriber is a TopicFeed.  A message
\* enters the queue at its end only, one per thread that tested its topic, and
\* leaves from the front, whichever of the two loops runs and however the three
\* queue calls of an insertion interleave (_consume_loop against the drain of
\* _on_update, _clear_kafka_queue and switch_topic).
FeedImplemented == Feed!Spec

\* No thread outlives its purpose: after stop() it ends, and on a topic the
\* subscriber has left it ends or the subscriber comes back to it (the tests of
\* _running and _topic in and around the loops of _consume_loop).
RetiredThreadsEnd ==
  \A t \in Thread :
    []<>(~Live(t) \/ (main # "stopped" /\ myTopic[t] = topic))

=============================================================================
