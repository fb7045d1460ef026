# ScaleX-Omniverse in TLA+

This directory models and verifies the program logic of ScaleX-Omniverse: a
digital twin of a data centre, made of an Omniverse Kit extension
(`datacenter_monitor`), a demo backend (`kafka-dummy`) and a second extension
(`scalex_dynamic_props`). Paths below are relative to `src/extensions/`;
`DCM` stands for `datacenter_monitor/datacenter_monitor_python`, `QS` for
`datacenter_monitor/kafka-dummy/query-server`.

Run anything here with `tlc -config X.cfg MCModule.tla` and
`tlapm Module_proofs.tla`. `PROJECT.json` maps every definition to the lines it
models and lists runs, mutants, findings, hazards and theorems. The operators
named `Mut...` are slips a change of the code could make; each is written beside
the definition it distorts and, put in its place, breaks one property.

## 1. Inventory

### How the parts interact

```
 seed-data --> Iceberg tables <----------------- kafka-ingestor
                    |                                  ^
                    v                                  |
     loop/event producers --> Kafka topics ------------+
                            |   ^       |
                            |   |       +--> query server caches --> HTTP (React)
                            |   +-- replay topics <-- ReplayEngine <-- HTTP, Trino
                            v                              |
             three subscriber threads                      +--> websockets
                            |
                       queue.Queue
                            |  per-frame drain
 React --messages--> MessageHandler --> SceneManager --> USD stage, camera
                          |                  ^               ^
                          |                  |               | session overlay
                          +-- replay callbacks, stage events -+-> SceneBuilder
                                  (datacenter_monitor)     (scalex_dynamic_props)
```

The Kit extension has one main thread (stage events, client messages, the
per-frame `_on_update`) and one consumer thread per Kafka subscription; the two extensions
hear the same stage events and share no state of their own. The query server and
the ingestor are one asyncio event loop each; the producers and the seed job are
sequential programs that meet in tables and topics.

### Components

| Component | State | Operations | Hard behaviour | What makes it correct |
|---|---|---|---|---|
| Kafka subscribers, `DCM/kafka_subscriber.py` | `_running`, `_current_topic`, `_connected`, `_queue`, thread locals `my_topic` | `start`, `stop`, `switch_topic`, `process_messages`, clear; two consume loops (confluent-kafka, kafka-python) | threads that share flags without a lock, threads of several topics alive at once, the three-step drop-oldest put, reconnection | a bounded number of stale messages after a switch; the current topic is always consumed; threads end |
| Extension, `DCM/extension.py` | `_stage_ready_attempts_remaining`, replay mode, the subscribers | `on_startup`, `on_shutdown`, `_on_update`, stage events, replay callbacks, selection | callbacks between frames, retries against a scene in use | topics follow the replay mode; a retry disturbs nothing |
| Message handler, `DCM/message_handler.py` | `_view_stage` (stage, primPath) | one handler per client message | any message in any stage | the view names what the scene shows |
| Scene manager and visibility, `DCM/scene_manager.py`, `scene/node_visibility.py` | prim visibility, pops and dims, caches of originals, inspected node | `cluster_focus`, `rack_focus`, `node_inspect`, `node_deselect`, `rack_deselect_to_cluster`, `scene_reset`, `set_transparency_mode`, `initialize`, `cleanup` | originals cached from a scene that may be changed already; half-done operations | every way out of a stage restores what the way in changed |
| Overlay cubes, `scene/material.py` | suppressed, persistent and pulsing sets, colours, statuses | `apply_node_state`, `tick_pulse`, suppression | node states arrive in any view stage; showing a cube un-hides its rack | what a focus hides stays hidden; what is down stays marked |
| Path resolution, node index, dev fake mapping, `scene/material.py`, `scene/node_index.py` | index, assignments | load, resolve | assignments outlive an index | one prim per node, sticky |
| Topology discovery, `scene/topology.py` | path indexes, `_topology_cache` | discover, fallback to the REST answer | partly loaded scenes | indexes agree with the stage |
| Camera, `scene/camera.py` | `_cam_current`, `_cam_overview`, `_cam_anim`, against the viewport camera | read, set, fly, tick; `initialize`, `cleanup` | commands interrupt flights, the retry reads the camera in the middle of one, the user moves it too | no flight jumps away from its end; the overview is where the stage began |
| Event panels and alert decals, network lines, node metrics, `scene/*.py` | timers, textures, last rows | show, tick, clear | none that is reached (section 13) | - |
| Replay engine, `QS/replay_engine.py`, endpoints in `QS/main.py` | `_state`, `_task`, `_speed`, `_ws_clients` | `start`, `pause`, `resume`, `stop`, `add_ws`, `remove_ws`, `_run` | awaits between test and use, concurrent requests, a set iterated across awaits | one replay at a time; a stop stops; a replay is complete |
| Caches, `QS/live_cache.py`, `QS/node_state_cache.py` | latest message, histories | consuming task, start, stop | a task that dies; malformed messages | what is served is the newest |
| Query server lifespan, `QS/main.py` | started services | startup, shutdown | partial failure | everything started is stopped |
| Trino client, `QS/trino_client.py` | engine | window queries | clamping | the window is what was asked for |
| Topology DB and seed, `QS/topology_*.py` | PostgreSQL tables | upsert, select | none here (one transaction) | - |
| Ingestor, `kafka-dummy/kafka-ingestor/ingestor.py` | column buffer, offsets | append, flush | crash between flush and commit; half an append | rows neither lost nor duplicated |
| Producers, `kafka-dummy/{loop,event}-producer` | loop, group, previous ts | load with retries, send, flush, sleep | messages given up, kills, a table that is not there yet | the recording is replayed with its order and its length |
| Seed job, `kafka-dummy/seed-data/seed.py` | two Iceberg tables | test, create and fill each | a failure between creating and filling | the producers get rows |
| Dynamic props, `scalex_dynamic_props/...` | build guard, session overlay | build, tear down | stage events in any order, handled late; parts that raise | built once per stage and completely; never left without an owner |

Every component is in `PROJECT.json` with what is modelled of it and, if not,
why. The `hazards` there name the line where each hard behaviour bites and the
properties that would catch it.

## 2. Modules and plan

| # | Module | Status |
|---|---|---|
| 1 | `KafkaSubscriber` (+ `MC`, `_proofs`), and `TopicFeed`, what a subscriber promises | modelled, checked; every safety property of the run proved, the refinement too |
| 2 | `ReplayEngine` (+ `MC`, `_proofs`), and `ReplayPlayer`, what a replay promises | modelled, checked; every safety property proved, the refinement too |
| 3 | `SceneView` (+ `MC`, `_proofs`) | modelled, checked, all its properties that hold proved |
| 4 | `QueryCaches` (+ `MC`, `_proofs`): the three caches and the server's lifespan | modelled, checked, all its invariants proved |
| 5 | `NodeResolve` (+ `MC`, `_proofs`): path resolution and dev fake mapping | modelled, checked, all its properties proved |
| 6 | `TelemetryTopic`, `SeedSource`, `Ingestor`, composed by `MetricsPipeline` (+ `MC`, `_proofs`) | modelled, checked; every safety property proved, and the grouping of the recording |
| 7 | `StageEvents`, `DynamicProps`, `CameraFlight`, composed by `KitStage` (+ `MC`, `_proofs`, `KitCamera_proofs`) | modelled, checked, all its properties proved |
| 8 | topology traversal and its label rules | open |
| 9 | abstract specifications of the query server's caches (functions of the messages accepted) and of the ingestor (a table fed from a log), with their refinements | open |

Modules are written to be proved about: constants carry named assumptions, each
operation of the code is one action, invariants are conjunctions of named parts
and no module declares a RECURSIVE operator. Modules 6 and 7 are composed by
EXTENDS: the parts share the variables of the topic (`TelemetryTopic`) and of the
stage (`StageEvents`). The others do not share variables: `SceneView` takes the
envelopes that `KafkaSubscriber` drains as its input, any envelope at any frame,
which is what `TopicFeed` allows, and `KafkaSubscriber` takes the replay messages
of the client. Putting the two into one state space would multiply them without
adding a behaviour to either.

## 3. KafkaSubscriber

**State.** `running`, `topic`, `connected`, `queue` are the fields of the Python
object; `pc`, `myTopic` the position and the local `my_topic` of each consumer
thread; `main`, `mode`, `processed` belong to Kit's main thread; `backend` is
the library found at import; `late` is a history variable. A message is
abstracted to the topic it was polled from.

**Grain.** Every action is one access to state that threads share, because
nothing in the code takes a lock: `FullTest`, `DropOldest`, `Put` are the three
queue calls of one insertion; `SwitchTopic`, `SwitchSpawn` the assignment and the
thread creation of `switch_topic`; `FrameTest`, `FrameTake` the two halves of the
drain loop; `ClearQueue` one `get_nowait`. The confluent loop tests the flags
before a poll (`InnerTest`, `Poll`), the kafka-python loop after a fetch (`Fetch`,
`CheckFetched`); both are in the same module and both are explored by the same
run. `KafkaSubscriber` and `NodeStateSubscriber` have the same loops;
`ClusterRankSubscriber` is the instance with one thread.

**Runs.**

- `subscriber` (`MCSubscriber.cfg`): 3 threads, so two switches (away and back,
  the shortest sequence in which two threads serve one topic), a queue of 1 and a
  frame of 1 message (full, dropped, refilled and raced for in few steps), both
  backends; no symmetry because of the liveness property. It checks `TypeOK`,
  `LateBound` (an old thread delivers at most one message after a switch),
  `TopicServed` (the current topic always has a thread), `FullOnlyByRace`
  (`queue.Full` needs a second thread), `ConnectedHasThread`, `RetiredThreadsEnd`
  (a thread that was told to stop or switched away for good ends) and
  `FeedImplemented`: the threads, the flags and the three queue calls implement
  `TopicFeed`, a queue without threads whose consumers take in hand only messages
  of the topic of the moment. What a thread has in hand is the refinement mapping.
- `sub_event_restore` (`MCSubEvent.cfg`): the topics of the event subscriber. It
  violates `TopicFollowsMode`: see the findings.

**Fairness.** Weak fairness of each thread: Python keeps scheduling a started
thread and every call it makes (poll with a timeout, connection attempt, sleep)
returns. The main thread owes nothing: an operator may never stop anything.
Deadlock is checked; the only state without a successor but itself is a stopped
subscriber whose threads are gone (`Terminated`).

## 4. ReplayEngine

**State.** `state`, `task`, `speed`, `clients` are the fields of the engine;
`tpc`, `idx`, `phase`, `todo`, `size`, `target`, `dead` the position and the
locals of each `_run`; `cancel`, `rpc`, `awaited`, `ws` stand for what asyncio
and the endpoints keep. `loop` is the task that has the event loop: a coroutine
keeps it until its next await, so a handler acts only while `loop = None`. That
is the atomicity asyncio gives and no more.

**Actions.** `WakeUp`, `Advance`, `PauseWait`, `Leave`, `BeginBatch`, `SendNext`,
`SendReturns`, `SetChanged`, `EndBatch` are the segments of `_run` and of the two
publish functions; `Cancelled` is the CancelledError a task meets at its await;
`BeginRequest`, `RequestAtOnce`, `ResumeRequest` are `start` and `stop` before and
after the await in `_stop_task`; `Pause`, `Resume`, `Connect`, `Disconnect` the
other handlers. `SetChanged` is Python's RuntimeError for a set that changed size
while it is iterated; a new element may or may not be met by an iteration that
does not notice.

**Runs.**

- `replay` (`MCReplay.cfg`): 2 requests that start or stop, 2 tasks, 2 websockets,
  2 timestamps of which one has events, speeds 0 and 1, no symmetry because of
  the liveness properties. Two requests are enough for one to run inside the
  other's `_stop_task`; there are as many tasks as requests, else a start would
  lack a task and never return for a reason the code does not have. Checks
  `TypeOK`, `OnlyOverlapOrphans`, `PauseBound`, `RequestsReturn`, `ReplayEnds` and
  `PlayerImplemented`: until requests overlap, tasks, awaits and
  websockets implement `ReplayPlayer`, which has one track. It takes the timestamps up
  in order and only while PLAYING, shows the metrics of each once and then its
  events, and is silent from the moment a request calls it off, before the task has
  ended. The refinement mapping takes a timestamp for taken up once the test of
  `_state` has let it pass, and for shown when its batch goes to Kafka. `CHECK_DEADLOCK FALSE`: with its requests made, its websockets gone
  and no replay, this instance has nothing to do.
- `replay_status` (`MCReplayStatus.cfg`): violates `StatusTruthful`, see findings.

**Fairness.** The event loop runs every ready coroutine; sleeps and sends return
(a send to a client that has gone raises). Requests, pauses and clients come when
they please, which is why `ReplayEnds` excepts a paused replay.

## 5. SceneView

**State.** The USD stage (`loaded`, `hidden`, `cube`, `away`, `dim`) is kept apart
from what `SceneManager` remembers of it (`found`, `suppressed`, `persistent`,
`pulse`, `status`, `saved`, `cache`, `cachedDim`, `inspected`, ...), since the
hazards are all cases of the two coming apart. A position is a number of pops away
from home, an opacity is dimmed or not, a cube is hidden or shows a status.
`early` records that a client message other than `get_topology`, which moves
nothing, reached a scene the stage-ready retry was still working on; `obedient` tells which client a behaviour has: one that makes
the transitions of the protocol table of `datacenter_monitor_python/README.md` only, or
one that sends any message with any path in any order (the handlers test nothing).

**Actions.** One per client message (`ClusterFocus`, `RackFocus`, `NodeInspect`,
`NodeDeselect`, `RackDeselect`, `SceneReset`, `SetTransparency`, `GetTopology`,
which indexes the scene when nothing has yet), one per stage
event (`StageOpened`, `StageLoads`, `StageClosed`), and the frame: `BeginFrame`
(with `StageReady`, the retry's `initialize` and `discover_topology`), any number
of `ApplyNodeState`, `EndFrame` (`tick_pulse`). Everything runs on one thread; a
message is handled between two frames. A retry whose discovery or manifest raises
keeps its tries and is followed in `CameraFlight` only (section 9): here it would
repeat without a bound, and each repetition may add to what the client has changed.
`Shown` is USD's `MakeVisible`, which makes
hidden ancestors visible and hides their other children.

**Runs.**

- `scene_stages` (`MCSceneStages.cfg`): 2 clusters, 2 racks, 2 nodes of one rack
  (so that a sibling can be popped and dimmed), a path that names nothing, 2 tries
  of the retry, either client. `DimOnlyInspecting` and `SceneHome` for any client,
  `FocusVisible`, `CubesOnNodes` for the obedient one.
- `scene_overlay` (`MCSceneOverlay.cfg`): 2 nodes in two clusters (so that a focus
  hides one), blinks on, one try. `HiddenCovered`, `CubesAccounted` (what is
  suppressed is hidden, and every visible cube is there for a reason), `NeverReveals`.
- `scene_home` and `scene_persistent` violate `StageDCleared` and `PersistentStays`,
  see findings.

Every client sends both values of `hide_others`. `HiddenCovered` and `NeverReveals`
are stated for `Careful` ones, which are obedient or never turn it off (see section
12 for why); the runs have the obedient one, the theorems both. Two nodes and two racks suffice
because every operation treats a prim and the set of all others: a third element
behaves as one of the two. The specification has no fairness and no liveness
property: nothing in this component has to happen.

## 6. QueryCaches

**State.** `phase` and `cur` are where `lifespan` is, `consumer` and `task` the
aiokafka consumer and the asyncio task of each cache, the rest is what the caches
hold: the live cache's history per node (its last entry is `_latest`: both are
written in one segment), the two ring buffers of events, the last accepted status
of each (cluster, node).

**Actions.** `StartSucceeds`, `StartFails`, `UndoNodeState`, `Shutdown`, `Stop`,
`SkipNodeState`, `StopResumes`, `CloseConsumer`, `StopReplay` are the steps of
`lifespan` between awaits; `ConsumeLive`, `ConsumeEvent`, `ConsumeJunkEvent`,
`ConsumeNodeState`, `Fails`, `Cancelled` those of the tasks. `Fails` covers what
does not decode, a broker error and, in the live cache, a value that is no object;
the event cache has appended such a value before it fails (`ConsumeJunkEvent`).

**Run** `caches` (`MCCaches.cfg`): 2 nodes, 2 payloads, buffers of 3 and 2 events
(the code has 200 and 50: what matters is that the global one is longer and that
both overflow), three statuses of which one is not accepted. `EventsAgree` (the two
event endpoints never contradict each other: the k-th newest event of a node is the
same in its own buffer and in the global one, as far back as both reach), `ReturnAccountsForAll` (a lifespan
that returns has stopped everything and no task had died), `ShutdownEnds`.

**Fairness.** The lifespan coroutine and cancelled tasks go on: the event loop runs
what is ready, aiokafka's `start` and `stop` return or raise. A `stop` that raises
(`CloseConsumer`), with the consumer closed or not, ends `lifespan` as a task that
has died does: the stops after it are skipped.

## 7. NodeResolve

**State.** `answer` (the topology's answer is held, with it the node index),
`attempted`, `scene` and `mode` (what the last discovery indexed and by which of
its three ways), `assigned` (`_dev_fake_assigned`). The spelling rules (`BOX_`
prefix) are the constant `Guess`, the hash of a name is `Hash`, the order of
`sorted` and of the traversal is `Place`.

**Actions.** `Discover`, `DiscoverByApi`, `ClearIndexes`, `Resolve`. `KnownPath` is
`_resolve_prim_path` up to its last resort; linear probing is stated by what it
ends at, the nearest candidate after the hash that nobody holds (`EndsAt`).

**Run** `resolve` (`MCResolve.cfg`): two clusters with boxes of equal names, three
boxes in the topology, five nodes of which one is registered, one is guessed by
name and three need an assignment, two of those with equal hashes; assignments
fill the table. `FakePathsApart`, `FakeSticky`, and `FullIsExact`: comparing two sizes
decides rightly whether a box is free, and if one is the probe ends, at one box
(`_dev_fake_resolve` returns None after the probe "should not happen", and does not).

## 8. MetricsPipeline

**State.** `TelemetryTopic` is one Kafka topic: `log` and `end`, and the budget
`faults` that everything which can fail draws from. `SeedSource` has the Iceberg
catalog (`tables`: of each table how many rows, or absent), what a producer makes of
its rows (`GroupByTs`: groups of equal timestamps, ascending, each in scan order;
`Recordings` for both topics, `Groups` for the one at hand), the place of the seed
job (`seedPc`) and the locals of a producer (`prod`, `tries`, `loop`, `group`,
`sent`, `prevTs`, `pause`) with the client library's `outq` and the `clock`, which
passes while the producer sleeps and while `flush()` blocks; the hand-over of a
group to the client library takes no time, so its messages carry one time.
`Ingestor` has the place of the main coroutine (`ipc`), the consumer's position
and the committed offset, the rows in the column buffer (`buf`), whether the
columns differ in length (`torn`) and how often each row is in the table. `run`,
`waited` (the seconds spent in `flush()`), `joined` and `mishaps` are history.
Which producer a behaviour has is chosen by `name`: the loop producer and the
ingestor on the metrics topic, the event producer on the other.

**Actions.** The seed job: `StartSeed`, `WaitForCatalog`, and for each table
`CheckTable` (exists, create, fail) and `FillTable`, which are two steps because
they are two catalog commits. A producer: `LoadSeedRows`/`LoadEventRows` are one
try of the load loop, `Produce` one row of a group, `Flush` the end of the group
with the time it took and the pause computed, `NextGroup` the end of the sleep;
`Deliver` is the client library's own thread, which delivers in order or gives a
message up; `KillProducer` and `RestartProducer` are Docker's. The ingestor:
`WaitForTable`, `Join`, `Receive` (a message may tear the columns, or break before
the first), `FlushDue`, `Interrupt`, `FinalFlush` and `StopConsumer` (the
`finally` block), `AutoCommit` (aiokafka's timer, which runs only while the
coroutine waits), `KillIngestor`. `OtherPublisher` is whoever else sends to the
topic.

**Run** `pipeline` (`MCPipeline.cfg`): two seconds of two boxes, an event table out
of order with uneven distances, four offsets, two faults (so that a failure can
meet the recovery from another), two tries per load, two starts of the seed job
and of the ingestor, a `flush()` that takes no time or a second. `DuplicateBound`, `ExactlyOnce`, `TornNotPassed` for the
ingestor; `LoopsRepeat` (the order is kept, and a row comes back one recording
later plus the time the flushes between took, although each single pause belongs
before the group it follows); `MetricsFlow`: after a
seed job that completed at its first start the loop producer publishes, however
its thirty tries and its restarts fell.

**Fairness.** Weak fairness of the steps of the seed job, of one try to load, of
Docker's restart (`restart: on-failure`) and of the producer with its client
library: each is a process that runs, and each call in it has a timeout. Starting
the seed job and the ingestor, committing, and every failure are nobody's duty.
`Exhausted` is the only stuttering step: the bound on messages is reached.

## 9. KitStage

**State.** `StageEvents` is the omni.usd context, modelled from how the two
extensions use it: the current `stage`, whether its assets are `loaded`, and the
`events` not yet popped. Both extensions subscribe to the pop stream, so a handler
may be given the event of a stage that is gone; what is not popped yet is part of
the state. `DynamicProps` keeps what the extension remembers (`builder`, the stage
its `_builder` holds, and `builtKey`, the stage whose `id()` is in
`_built_stage_key`) apart from the overlay (`tagged`: there is a sublayer with the
builder's tag, and `content`). How many sublayer paths carry the tag is left out: one
whose layer is gone (`Sdf.Layer.Find` answers None) gets a second beside it, which
the teardown removes as well. `id()` of a stage
that nobody holds any more may come back, which is why `AlreadyBuilt` has a choice.
`CameraFlight` has the viewport camera (`cam`) apart from `_cam_current`,
`_cam_overview`, `_cam_anim`; a pose is a point on a line and the interpolation is
the code's up to integer rounding. `seen`, `broken`, `failed`, `home`, `spoiled`,
`lost`, `goal` are history.

**Actions.** `StageOpens`, `AssetsLoad`, `StageIsClosing`, `StageCloses` belong to
Kit; `Deliver` hands the oldest event to the extension. `StartProps`, `StopProps`,
`SwitchProps` are startup, shutdown and the environment switch (it is read at every
try); `TryBuild` is `_try_build` with a build in which nothing or one thing raises:
a mesh, a material, the plane, a hidden prim, or the build as a whole, before or
after it has a layer; a teardown may raise too. A stage whose references have not
loaded has any part of its prims. `MonitorFrame` is `_on_update` in two halves
(retry, flight), `ClientCommand` a flight to a prim or to the overview,
`UserOrbits` the viewport's own navigation. `StartMonitor` may leave an open stage
without tries (`MAIN_STAGE_USD_PATH` is set), and a try in which the discovery or
the manifest raises (`BeginFrame`) costs nothing and is repeated at the next frame. Reading and setting the camera may
fail. Everything runs on Kit's main thread, one handler at a time. The two
extensions share only the events, so a behaviour follows one of them (`host`).

**Run** `kit_stage` (`MCKitStage.cfg`): two stages (an event of the first handled
on the second), four pending events (a whole life of a stage), two clusters of
which one has two racks, one hidden prim, three poses, flights of three frames
(first, middle, last), two tries of the retry. `GuardTrue`, `PanelsComplete`,
`OverlayOwned` for the props; `OverviewIsHome`, `NoDetour` for the camera. There is
no fairness and nothing to wait for: Kit owes no event. Deadlock is checked.

## 10. What is proved

All theorems hold for every value of the constants that satisfies the named
`ASSUME` of the module; `tlapm` checks them to the last leaf.

- **`KafkaSubscriber_proofs`**: `TypeCorrect`, `LateBoundHolds`, `TopicServedHolds`,
  `FullOnlyByRaceHolds`, `ConnectedHasThreadHolds`, `FeedRefined`, for any number of
  threads, any queue size and both backends. `TypeOK` needs that a message is taken
  only within the frame's budget. `LateBound` is not inductive: the strengthening
  says that a thread which has delivered its late message is past the point from
  which it could deliver another without testing the topic, and that its topic is
  not the current one. `TopicServed` needs that the subscriber runs whenever no
  operation is half done, and that a thread serving the topic keeps serving it under
  every thread's step. `FeedRefined` (the subscriber implements `TopicFeed`) has one
  step per action: a flag test that passes picks a message up, the insertion
  delivers it, `DropOldest` and the drain are the feed's `Leave`, and everything
  else stutters.
- **`ReplayEngine_proofs`**: `TypeCorrect`, `OnlyOverlapOrphansHolds`,
  `DoneIsCompleteHolds`, `PauseBoundHolds`, `PlayerRefined`. The invariant says
  that, unless requests overlapped, at most one request is inside `_stop_task`, it
  waits for the task `self._task` names, that task is the only one alive, and no
  live task finds `_state` IDLE; and that a pause finds a task in the gap with no
  batch begun. `DoneIsComplete` is stated as a theorem only; the runs have it as
  part of `PlayerImplemented`. `PlayerRefined` needs `TrackInv` besides: a task
  whose cancellation was requested is at an await (it was when the request came,
  because the request had the event loop), so it neither takes up nor shows anything
  more.
- **`SceneView_proofs`**: `TypeCorrect`, `DimOnlyInspectingHolds`, `SceneHomeHolds`,
  `CubesOnNodesHolds`, `CubesAccountedHolds`, `HiddenCoveredHolds`, `NeverRevealsHolds`,
  `FocusVisibleHolds`, for any scene, envelopes, clients and number of tries. Types
  are proved helper by helper, since messages share them. Of the others only
  `DimOnlyInspecting` is inductive. `CubeInv` adds that a cube shows on indexed nodes
  only. `StageInv` says what is there before anything is indexed, by a retry or by
  `get_topology`: nothing hidden; what there is without a stage: nothing saved or
  moved, no tries left; and that what is indexed is part of an open stage. `HomeInv`: a node
  is away by one pop exactly when its home is saved, which is one node in stage D and
  none while tries are left; a retry that clears `saved` then has nothing to forget
  (`scene_home` is what happens otherwise, after an `early` message). `HiddenInv`:
  besides the cover itself, only racks and clusters are hidden, nothing in stage A or
  while tries are left, and what an obedient client views is in sight, so the next
  message's `MakeVisible` has no hidden ancestor to uncover. `NeverReveals` follows
  from the cover: an envelope shows a cube only of a node nothing suppresses, and
  none of whose ancestors is hidden.
- **`NodeResolve_proofs`**: `TypeCorrect`, `FakePathsApartAlways`, `FakeStickyAlways`,
  `FullIsExactAlways`. The invariant: assignments are injective and only boxes of
  the index are held. The index is filled before the first assignment and never
  emptied, which is why comparing two sizes is exact. That the probe ends at exactly one free box
  (`ProbeEnds`), for any hash and any order, is the arithmetic of the table: the places
  of the sorted candidates are distinct numbers below their count, so their distances
  from a hash modulo the count differ (`ModApart`), and a set of numbers has a smallest.
- **`QueryCaches_proofs`**: `ReturnAccountsForAllHolds`: the invariant gives the state
  of each cache for each place of the lifespan: fresh, started, leaving, stopped.
  `TypeCorrect` and `EventsAgreeHolds`, for any buffer sizes: an event is found by
  its recency, the number of events of its node from it to the newest end
  (`Recency`). Pushing an event adds one to the recencies of its node and drops an
  oldest one (`PushRecency`, which maps the set of positions to the set shifted by
  one, so that equal cardinality takes the place of an induction).
- **`MetricsPipeline_proofs`**: `DuplicateBoundHolds`, `ExactlyOnceHolds`,
  `TornNotPassedHolds`, for any number of messages, restarts and faults. Under them
  `OffsetsInvariant`: the commit never passes the position, nor the position the end
  of the topic; only an ingestor that reads has anything in its buffer; torn columns
  are met by nothing but the final flush. On top of it: a row ahead of the commit has
  been stored once per mishap at most; a torn message is ahead of the commit, because
  the timer runs only while the coroutine waits; and without a mishap nothing ahead
  of the position is stored and an ingestor that ended has committed its position.
  `GroupByTsCorrect`: grouping a scan gives strictly ascending timestamps, one group
  for each in the table, with exactly its rows in scan order. `Ascending` is proved to
  enumerate any finite set of numbers by the ranks of its members (`Ranks`: as many
  members below as the place says), not by induction. `LoopsRepeatHolds`: no pause is
  added up; instead `DeliveredInv` says of every delivered message of this run that it
  is as far from the producer's present place as the recording says, the time spent
  in `flush()` taken off both (`Start(l, g)`
  is the offset of group g in loop l), and `ProducerInv` that only messages of the
  current group wait in the client library and that the pause is the one of the group
  just flushed. A step of the producer then moves both sides by one `Gap`
  (`StartOfNext`). `TypeCorrect` needs both for the timestamps.
- **`KitStage_proofs`**: `GuardTrueHolds`, `OverlayOwnedHolds`, `PanelsCompleteHolds`, for any
  number of stages, any panels and any number of waiting events. Stages are numbered
  as they open and what the extension remembers was opened, so a new stage is none
  of them; key and builder are set and dropped together whatever the queue holds.
  The other two need the queue's shape: it is in the order of the stages, a loaded
  stage that is not closing has its ASSETS_LOADED last, and whatever waits from an
  older stage is followed by the OPENED of the newest. So an event that forgets the
  builder has a rebuild behind it, and after the OPENED of a stage only its own
  events are left, whose ASSETS_LOADED finds it loaded.
- **`KitCamera_proofs`**: `OverviewIsHomeHolds`, for any poses, flights and tries. The
  overview is where the stage began because nobody has moved a camera that is not
  settled; a flight to the overview of an older stage may be under way, but the
  CLOSED that ends it waits, and behind it the OPENED of the new stage. `NoDetourHolds`, that no frame of a flight takes the
  camera away from its end: `PathInv` says where the last frame put the camera, and
  that the manager's known pose is the camera's unless somebody else moved it; then
  `SmoothstepAdvances` compares two frames of one flight. The interpolation is a cubic
  with rounded division; `PartGrows` and `DivOrder` give the prover its monotony.

Every invariant and every action property that a passing run checks is proved.
Only model-checked are the liveness properties (the prover has no fairness and no
ENABLED): `RetiredThreadsEnd`, `RequestsReturn`, `ReplayEnds`, `ShutdownEnds`,
`MetricsFlow`. Not stated at all is what an operator computes by recursion over data
(`SelectSeq`, folds); where a property needed one it is stated by places, ranks and
cardinalities instead.

## 11. Findings

| Run | The code | The text it contradicts |
|---|---|---|
| `sub_event_restore` | `_on_replay_stop` sets the event subscriber to `datacenter.metrics.event`, not to the node-state topic it was created with; node states stop after the first replay | `extension.py:343`: the subscription is restored to the live topic |
| `replay_status` | a websocket that connects or leaves during a send ends the replay task with RuntimeError; the status stays PLAYING | `kafka-dummy/README.md:114`: the replay's current state |
| `scene_home` | a retry of the stage-ready initialization forgets where a popped node came from; it stays popped | `scene/node_visibility.py:482`: the restoring removes what is left of stage D |
| `scene_persistent` | leaving a rack or a node hides the overlays of the DISCONNECTED nodes of that rack | `scene/material.py:69-70`: DISCONNECTED and MISSING stay as a persistent overlay |

## 12. Behaviour worth knowing that has no run

- Two overlapping start requests leave a replay running that no later stop reaches;
  `OnlyOverlapOrphans` is stated for the rest.
- A thread blocked in a poll may survive a switch away and back and then serve the
  topic beside the new thread; clearing the queue comes before the switch, so one
  message per old thread still comes through (`LateBound`). Two threads of one topic
  may also discard a message too many: both find the queue full and drop one.
- The epilogue of an old thread may write `_connected = False` while the new thread
  is connected. The flag is only reported; `ConnectedHasThread` is the other direction.
- A second `node_deselect`, which the protocol table does not have, takes the rack
  the view holds for a node and makes an overlay cube on it (`CubesOnNodes` is stated
  for obedient clients).
- CLOSED keeps `_topology_cache`, `_node_status` and `_node_pulse_start` of the
  stage that is gone.
- `scene_reset` and the two deselects paint visible overlays of DISCONNECTED nodes
  in the HEALTHY colour.
- `hide_others = false` together with transitions outside the protocol table (a focus
  on a hidden rack) lets `MakeVisible` hide siblings that nothing has suppressed, and
  `scene_reset` does not bring those back; hence `Careful`.
- A consumer task of the query server that has died is never started again; the
  endpoints go on serving what it left, `/health` answers ok, and at shutdown the
  first such cache makes `lifespan` raise, which skips the stops after it.
- `NodeStateCache` drops MISSING, one of the three public statuses of
  `datacenter_monitor/README.md:41`, and serves the state before it as the latest.
- `LiveCache` is keyed by node name alone: `/metrics/latest` has one entry for two
  boxes of the same name in different clusters.
- A table that the seed job created and then failed to fill is skipped by every
  later run: "completed (Exited 0)" no longer means that the loop producer sends
  (`kafka-dummy/README.md:51`), and `MetricsFlow` is stated for the first run.
- The pause after a group is the distance from the group before it, not to the one
  after (`loop_producer.py:10`, `event_producer.py:9`: the original spacing is
  kept); the length of a loop is right all the same (`LoopsRepeat`).
- `docker-compose.yml:190` says the event producer sends `dc.events_seed`; the code
  reads `infra.node_events`, which nothing in the repository fills. Nothing creates
  `dc.metrics` either, and the ingestor has no service in the compose file.
- Rows of a topic that has gone quiet stay in the ingestor's buffer until another
  message comes: the flush interval is looked at on a message only. A message that
  tears the columns stops the ingestor at every start, for ever (`TornNotPassed`).
- The props are built by `on_startup` on a stage that is still loading, and the
  ASSETS_LOADED that follows finds it built (`scalex_dynamic_props` `extension.py:7`:
  built when it has loaded); panels whose meshes had not come are missing until the
  stage is opened again. `PanelsComplete` is stated for stages whose OPENED came.
- OPENED forgets the builder of a stage whose overlay an event of the stage before
  it has built; a shutdown before its ASSETS_LOADED leaves the overlay in the
  session layer (`scalex_dynamic_props/docs/README.md:53`: shutdown removes it).
- Flights start from `_cam_current`, which is where the extension last left the
  camera: after the user has moved it the first frame jumps (`scene/camera.py:146`:
  from the current position). Tries of the stage-ready retry take whatever the
  viewport shows, a camera in flight too, for the overview (`OverviewIsHome`
  excepts it), and do not end that flight.
- kafka-python's consumer is closed only on an exception
  (`kafka_subscriber.py:351`); after an idle second its loop makes another.
- A replay visits the timestamps of the metrics: events at other timestamps are
  never published (`replay_engine.py:165`).
- After 20 failed tries nothing looks for the topology until the next OPENED
  (`extension.py:291`) but a `get_topology` message, which indexes the scene without
  `initialize` (`scene/topology.py:406`); it is fetched at most twice (`scene/topology.py:333`).
- The widening of an empty replay window does nothing at 599 s
  (`trino_client.py:132`).
- "No two nodes share a prim" (`_dev_fake_resolve`) holds among the nodes of the
  mapping in a scene discovered by clusters; a node of the index may have the prim
  too, and where boxes are looked up by name alone boxes of equal names coincide.

## 13. Not modelled

- Event panels and alert decals (`scene/event_alert.py`): nothing calls them. The
  caller of `show_event_panel` is commented out (`extension.py:224-241`), and
  `create_alert_decal` is called only by `update_node_color_from_kafka`, whose own
  call is commented out.
- `scene/net_line_anim.py` and the node-state pulse helper: pictures whose state no
  other part reads, the latter without a caller (the pulse in use is `tick_pulse`,
  in `SceneView`). The node metrics cache is a dictionary that every drain
  overwrites.
- The traversal that indexes racks and boxes (`scene/topology.py`) and its label
  rules: string matching on prim names. What it yields is `found` in `SceneView`
  and `scene` in `NodeResolve`.
- Geometry, materials, bounding boxes and transforms: a pose is a point, a panel is
  there or not.
- The SQL of the topology database and of Trino, one statement each in external
  engines; the values the seed job generates.
- `dummy_producer.py` and the script that animates UVs, which stand alone;
  configuration files and deployment, except for the restart policies that
  `SeedSource` takes from the compose file.
