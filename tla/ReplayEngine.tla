----------------------------- MODULE ReplayEngine -----------------------------
(***************************************************************************)
(* The query server's ReplayEngine: one asyncio event loop on which run    *)
(* the replay tasks (_run), the HTTP handlers that start, stop, pause and  *)
(* resume a replay, and the websocket handlers that add and remove         *)
(* clients.  A coroutine keeps the event loop until its next await, so     *)
(* `loop` names the task that has it; handlers run in one step between two *)
(* awaits.                                                                 *)
(*                                                                         *)
(* A replay is the timestamps 1..Steps in order, with one metrics row each *)
(* and one event row at those in EventSteps.  A websocket object connects  *)
(* and disconnects once.                                                   *)
(***************************************************************************)
EXTENDS Naturals, FiniteSets

CONSTANTS
  Task,       \* asyncio tasks that may be created (bounds the starts)
  Request,    \* start and stop requests, each made once (bounds them)
  Client,     \* websocket objects
  Steps,      \* timestamps in a replay
  EventSteps, \* timestamps that also have events
  Speeds,     \* speeds a start request may carry; the endpoint checks none
  None        \* no task

ASSUME ReplayAssumption ==
  /\ Steps \in Nat \ {0}
  /\ EventSteps \subseteq 1..Steps
  /\ Speeds \subseteq Nat
  /\ None \notin Task
  /\ IsFiniteSet(Client)

VARIABLES
  state,      \* self._state
  task,       \* self._task
  speed,      \* self._speed
  clients,    \* self._ws_clients
  loop,       \* the task that has the event loop, or None
  tpc,        \* where each task is
  idx,        \* the timestamp each task is at
  phase,      \* which of _publish_batch and _publish_events it is in
  todo,       \* clients the for loop over _ws_clients has still to visit
  size,       \* size of _ws_clients when that loop began
  target,     \* client being sent to
  dead,       \* local dead_ws
  cancel,     \* tasks whose cancellation was requested
  rpc,        \* where each request is
  awaited,    \* task a request waits for in _stop_task
  ws,         \* life of each websocket: "new", "open", "gone"
  overlapped, \* history: a request ran while another was inside _stop_task
  batches     \* history: batches each task began since it was last not PAUSED

runVars == <<tpc, idx, phase, todo, size, target, dead>>
engineVars == <<state, task, speed, clients>>
requestVars == <<cancel, rpc, awaited, ws, overlapped>>
vars == <<engineVars, loop, runVars, requestVars, batches>>

AwaitPC == {"ready", "paused", "gap", "send"}
EndPC == {"done", "cancelled", "crashed"}
TaskPC == {"none", "top", "batch", "iter"} \cup AwaitPC \cup EndPC

\* The task was created and is not done().
Live(t) == tpc[t] \notin {"none"} \cup EndPC

TypeOK ==
  /\ state \in {"IDLE", "PLAYING", "PAUSED"}
  /\ task \in Task \cup {None}
  /\ speed \in Nat
  /\ clients \subseteq Client
  /\ loop \in Task \cup {None}
  /\ tpc \in [Task -> TaskPC]
  /\ idx \in [Task -> 1..(Steps + 1)]
  /\ phase \in [Task -> {"metrics", "events"}]
  /\ todo \in [Task -> SUBSET Client]
  /\ size \in [Task -> Nat]
  /\ target \in [Task -> Client \cup {None}]
  /\ dead \in [Task -> SUBSET Client]
  /\ cancel \subseteq Task
  /\ rpc \in [Request -> {"new", "starting", "stopping", "done"}]
  /\ awaited \in [Request -> Task \cup {None}]
  /\ ws \in [Client -> {"new", "open", "gone"}]
  /\ overlapped \in BOOLEAN
  /\ batches \in [Task -> Nat]

Init ==
  /\ state = "IDLE"
  /\ task = None
  /\ speed = 1
  /\ clients = {}
  /\ loop = None
  /\ tpc = [t \in Task |-> "none"]
  /\ idx = [t \in Task |-> 1]
  /\ phase = [t \in Task |-> "metrics"]
  /\ todo = [t \in Task |-> {}]
  /\ size = [t \in Task |-> 0]
  /\ target = [t \in Task |-> None]
  /\ dead = [t \in Task |-> {}]
  /\ cancel = {}
  /\ rpc = [r \in Request |-> "new"]
  /\ awaited = [r \in Request |-> None]
  /\ ws = [c \in Client |-> "new"]
  /\ overlapped = FALSE
  /\ batches = [t \in Task |-> 0]

-----------------------------------------------------------------------------
(* The replay task                                                         *)

\* Task t goes on with the event loop, gives it up at an await, or ends.
Run(t, from, to) ==
  /\ loop = t
  /\ tpc[t] = from
  /\ tpc' = [tpc EXCEPT ![t] = to]
  /\ loop' = IF to \in AwaitPC \cup EndPC THEN None ELSE t

\* The awaited sleep or the first scheduling of the task returns.
WakeUp(t) ==
  /\ loop = None
  /\ t \notin cancel
  /\ \E p \in {<<"ready", "top">>, <<"paused", "top">>, <<"gap", "batch">>} :
       tpc[t] = p[1] /\ tpc' = [tpc EXCEPT ![t] = p[2]]
  /\ loop' = t
  /\ UNCHANGED <<engineVars, idx, phase, todo, size, target, dead,
                 requestVars, batches>>

\* Slip: the pause loop swallows CancelledError.
MutCancelledNotPaused(t) ==
  /\ loop = None
  /\ t \in cancel
  /\ tpc[t] \in AwaitPC \ {"paused"}
  /\ tpc' = [tpc EXCEPT ![t] = "cancelled"]
  /\ UNCHANGED <<engineVars, loop, idx, phase, todo, size, target, dead,
                 requestVars, batches>>

\* A cancelled task ends at its await: no handler of it catches CancelledError.
Cancelled(t) ==
  /\ loop = None
  /\ t \in cancel
  /\ tpc[t] \in AwaitPC
  /\ tpc' = [tpc EXCEPT ![t] = "cancelled"]
  /\ UNCHANGED <<engineVars, loop, idx, phase, todo, size, target, dead,
                 requestVars, batches>>

\* The for loop is over or _state is IDLE: the epilogue sets IDLE.
Leave(t) ==
  /\ Run(t, "top", "done")
  /\ idx[t] > Steps \/ state = "IDLE"
  /\ state' = "IDLE"
  /\ UNCHANGED <<task, speed, clients, idx, phase, todo, size, target, dead,
                 requestVars, batches>>

\* while self._state == PAUSED: await asyncio.sleep(0.2)
PauseWait(t) ==
  /\ Run(t, "top", "paused")
  /\ idx[t] <= Steps
  /\ state = "PAUSED"
  /\ UNCHANGED <<engineVars, idx, phase, todo, size, target, dead,
                 requestVars, batches>>

\* Slip: the pause is not looked at before the next timestamp.
MutAdvancePaused(t) ==
  /\ Run(t, "top", IF speed = 0 THEN "crashed"
                   ELSE IF idx[t] = 1 THEN "batch" ELSE "gap")
  /\ idx[t] <= Steps
  /\ state # "IDLE"
  /\ UNCHANGED <<engineVars, idx, phase, todo, size, target, dead,
                 requestVars, batches>>

\* gap = (ts - prev_ts) / speed: 0 at the first timestamp; a speed of 0 raises.
Advance(t) ==
  /\ Run(t, "top", IF speed = 0 THEN "crashed"
                   ELSE IF idx[t] = 1 THEN "batch" ELSE "gap")
  /\ idx[t] <= Steps
  /\ state = "PLAYING"
  /\ UNCHANGED <<engineVars, idx, phase, todo, size, target, dead,
                 requestVars, batches>>

\* The row is produced to Kafka and the loop over the clients begins.
BeginBatch(t) ==
  /\ Run(t, "batch", "iter")
  /\ todo' = [todo EXCEPT ![t] = clients]
  /\ size' = [size EXCEPT ![t] = Cardinality(clients)]
  /\ dead' = [dead EXCEPT ![t] = {}]
  /\ batches' = [batches EXCEPT ![t] =
                   IF phase[t] = "events" THEN @
                   ELSE IF state = "PAUSED" THEN @ + 1 ELSE 0]
  /\ UNCHANGED <<engineVars, idx, phase, target, requestVars>>

\* await ws.send_text(...) for the next client.
SendNext(t) ==
  /\ Run(t, "iter", "send")
  /\ Cardinality(clients) = size[t]
  /\ \E c \in todo[t] \cap clients :
       /\ target' = [target EXCEPT ![t] = c]
       /\ todo' = [todo EXCEPT ![t] = @ \ {c}]
  /\ UNCHANGED <<engineVars, idx, phase, size, dead, requestVars, batches>>

\* Slip: the handler around the send catches the CancelledError as well.
MutSendReturnsUncancelled(t) ==
  /\ loop = None
  /\ tpc[t] = "send"
  /\ tpc' = [tpc EXCEPT ![t] = "iter"]
  /\ loop' = t
  /\ dead' = [dead EXCEPT ![t] = @ \cup {target[t]}]
  /\ target' = [target EXCEPT ![t] = None]
  /\ UNCHANGED <<engineVars, idx, phase, todo, size, requestVars, batches>>

\* The send returns, or raises and the client is remembered as dead.
SendReturns(t) ==
  /\ loop = None
  /\ t \notin cancel
  /\ tpc[t] = "send"
  /\ tpc' = [tpc EXCEPT ![t] = "iter"]
  /\ loop' = t
  /\ \E failed \in BOOLEAN :
       dead' = IF failed THEN [dead EXCEPT ![t] = @ \cup {target[t]}] ELSE dead
  /\ target' = [target EXCEPT ![t] = None]
  /\ UNCHANGED <<engineVars, idx, phase, todo, size, requestVars, batches>>

\* Python raises RuntimeError when the set changed size since the loop began.
SetChanged(t) ==
  /\ Run(t, "iter", "crashed")
  /\ Cardinality(clients) # size[t]
  /\ UNCHANGED <<engineVars, idx, phase, todo, size, target, dead,
                 requestVars, batches>>

\* Slip: a timestamp with events is published again and again.
MutEndBatchStuck(t) ==
  /\ Cardinality(clients) = size[t]
  /\ todo[t] \cap clients = {}
  /\ clients' = clients \ dead[t]
  /\ Run(t, "iter", IF phase[t] = "metrics" /\ idx[t] \in EventSteps
                    THEN "batch" ELSE "top")
  /\ phase' = [phase EXCEPT ![t] = IF @ = "metrics" THEN "events" ELSE "metrics"]
  /\ idx' = [idx EXCEPT ![t] = IF @ \in EventSteps THEN @ ELSE @ + 1]
  /\ UNCHANGED <<state, task, speed, todo, size, target, dead, requestVars, batches>>

\* flush, drop the dead clients, then the events of this timestamp if it has
\* any, then the next timestamp.
EndBatch(t) ==
  /\ Cardinality(clients) = size[t]
  /\ todo[t] \cap clients = {}
  /\ clients' = clients \ dead[t]
  /\ \/ /\ phase[t] = "metrics" /\ idx[t] \in EventSteps
        /\ Run(t, "iter", "batch")
        /\ phase' = [phase EXCEPT ![t] = "events"]
        /\ UNCHANGED idx
     \/ /\ ~(phase[t] = "metrics" /\ idx[t] \in EventSteps)
        /\ Run(t, "iter", "top")
        /\ phase' = [phase EXCEPT ![t] = "metrics"]
        /\ idx' = [idx EXCEPT ![t] = @ + 1]
  /\ UNCHANGED <<state, task, speed, todo, size, target, dead, requestVars, batches>>

TaskStep(t) ==
  \/ WakeUp(t)
  \/ Cancelled(t)
  \/ Leave(t)
  \/ PauseWait(t)
  \/ Advance(t)
  \/ BeginBatch(t)
  \/ SendNext(t)
  \/ SendReturns(t)
  \/ SetChanged(t)
  \/ EndBatch(t)

-----------------------------------------------------------------------------
(* HTTP and websocket handlers                                             *)

\* The rest of start() once _stop_task has returned.
FinishStart(r) ==
  \E t \in Task, s \in Speeds :
    /\ tpc[t] = "none"
    /\ tpc' = [tpc EXCEPT ![t] = "ready"]
    /\ task' = t
    /\ speed' = s
    /\ state' = "PLAYING"
    /\ rpc' = [rpc EXCEPT ![r] = "done"]

\* Slip: a state that ReplayState does not have.
MutFinishStopState(r) ==
  /\ state' = "STOPPED"
  /\ rpc' = [rpc EXCEPT ![r] = "done"]
  /\ UNCHANGED <<task, speed, tpc>>

\* The rest of stop() once _stop_task has returned.
FinishStop(r) ==
  /\ state' = "IDLE"
  /\ rpc' = [rpc EXCEPT ![r] = "done"]
  /\ UNCHANGED <<task, speed, tpc>>

\* Slip: only a replay that is playing is stopped.
MutMustAwaitPlaying == task # None /\ Live(task) /\ state = "PLAYING"

MustAwait == task # None /\ Live(task)

\* Some request is inside _stop_task.
Stopping == \E q \in Request : rpc[q] \in {"starting", "stopping"}

\* _stop_task with a task that is not done: cancel it and wait for it.
BeginRequest(r) ==
  /\ loop = None
  /\ rpc[r] = "new"
  /\ MustAwait
  /\ rpc' \in {[rpc EXCEPT ![r] = "starting"], [rpc EXCEPT ![r] = "stopping"]}
  /\ cancel' = cancel \cup {task}
  /\ awaited' = [awaited EXCEPT ![r] = task]
  /\ overlapped' = (overlapped \/ Stopping)
  /\ UNCHANGED <<engineVars, loop, runVars, ws, batches>>

\* _stop_task with nothing to stop does not wait.
RequestAtOnce(r) ==
  /\ loop = None
  /\ rpc[r] = "new"
  /\ ~MustAwait
  /\ FinishStart(r) \/ FinishStop(r)
  /\ overlapped' = (overlapped \/ Stopping)
  /\ UNCHANGED <<clients, loop, idx, phase, todo, size, target, dead,
                 cancel, awaited, ws, batches>>

\* The awaited task has ended.
ResumeRequest(r) ==
  /\ loop = None
  /\ rpc[r] \in {"starting", "stopping"}
  /\ ~Live(awaited[r])
  /\ \/ rpc[r] = "starting" /\ FinishStart(r)
     \/ rpc[r] = "stopping" /\ FinishStop(r)
  /\ awaited' = [awaited EXCEPT ![r] = None]
  /\ UNCHANGED <<clients, loop, idx, phase, todo, size, target, dead,
                 cancel, ws, overlapped, batches>>

Pause ==
  /\ loop = None
  /\ state = "PLAYING"
  /\ state' = "PAUSED"
  /\ batches' = [t \in Task |-> 0]
  /\ UNCHANGED <<task, speed, clients, loop, runVars, requestVars>>

Resume ==
  /\ loop = None
  /\ state = "PAUSED"
  /\ state' = "PLAYING"
  /\ UNCHANGED <<task, speed, clients, loop, runVars, requestVars, batches>>

\* add_ws: a loop under way may or may not come across the new element.
Connect(c) ==
  /\ loop = None
  /\ ws[c] = "new"
  /\ ws' = [ws EXCEPT ![c] = "open"]
  /\ clients' = clients \cup {c}
  /\ \E seen \in SUBSET {t \in Task : tpc[t] = "send"} :
       todo' = [t \in Task |-> IF t \in seen THEN todo[t] \cup {c} ELSE todo[t]]
  /\ UNCHANGED <<state, task, speed, loop, tpc, idx, phase, size, target, dead,
                 cancel, rpc, awaited, overlapped, batches>>

\* WebSocketDisconnect: remove_ws.
Disconnect(c) ==
  /\ loop = None
  /\ ws[c] = "open"
  /\ ws' = [ws EXCEPT ![c] = "gone"]
  /\ clients' = clients \ {c}
  /\ UNCHANGED <<state, task, speed, loop, runVars, cancel, rpc, awaited,
                 overlapped, batches>>

Next ==
  \/ \E t \in Task : TaskStep(t)
  \/ \E r \in Request : BeginRequest(r) \/ RequestAtOnce(r) \/ ResumeRequest(r)
  \/ \E c \in Client : Connect(c) \/ Disconnect(c)
  \/ Pause
  \/ Resume

\* The event loop runs every ready coroutine and every sleep and send returns;
\* requests, pauses and websockets come when they please.
Spec ==
  /\ Init /\ [][Next]_vars
  /\ \A t \in Task : WF_vars(TaskStep(t))
  /\ \A r \in Request : WF_vars(ResumeRequest(r))

-----------------------------------------------------------------------------
(* Properties                                                              *)

\* Unless a request ran while another was inside _stop_task, the only replay under
\* way is the one self._task names: start() never leaves an earlier _run
\* behind that no later stop() can reach.
OnlyOverlapOrphans ==
  ~overlapped => \A t \in Task : Live(t) => t = task

\* A _run that ends by itself has published every timestamp, unless requests
\* overlapped: no pause, resume, stop or client shortens it silently.
DoneIsComplete ==
  ~overlapped => \A t \in Task : tpc[t] = "done" => idx[t] > Steps

\* After a pause each replay begins at most one more batch (it was sleeping in
\* the gap before it), although _state is not tested again after the sleep.
PauseBound ==
  \A t \in Task : state = "PAUSED" => batches[t] <= 1

\* The replay self._task names as a track: a timestamp is taken up by the test of
\* _state that lets it pass, and shown when its batch goes to Kafka.
TakenUp(t) == tpc[t] \in {"gap", "batch", "iter", "send"}
StillToShow(t) ==
  {p \in {"metrics", "events"} :
     /\ p = "events" => idx[t] \in EventSteps
     /\ \/ tpc[t] \in {"gap", "batch"} /\ p \in {phase[t], "events"}
        \/ tpc[t] \in {"iter", "send"} /\ p = "events" /\ phase[t] = "metrics"}
Track ==
  [ts   |-> IF TakenUp(task) THEN idx[task] ELSE idx[task] - 1,
   left |-> StillToShow(task),
   call |-> IF task \in cancel THEN "off" ELSE "on"]

Player == INSTANCE ReplayPlayer
          WITH tracks <- IF MustAwait THEN {Track} ELSE {}, misused <- overlapped

\* What an operator may rely on: until requests overlap, the engine is a player
\* with one track.  Every timestamp is published once, in order, its metrics
\* before its events, none is taken up while PAUSED, and nothing is published of a
\* replay once a stop or start request has been taken, whatever websockets do
\* (_stop_task and the awaits of _run).
PlayerImplemented == Player!Spec

\* stop and start requests always return: the task they wait for ends, paused
\* or not, whatever its clients do.
RequestsReturn ==
  \A r \in Request : rpc[r] \in {"starting", "stopping"} ~> rpc[r] = "done"

\* A replay nobody pauses ends, and so do its clients' sends.
ReplayEnds ==
  \A t \in Task : Live(t) ~> (~Live(t) \/ state = "PAUSED")

\* Claimed by README.md of kafka-dummy (GET /replay/status: the replay's
\* current state): PLAYING is answered only while a replay is under way.
StatusTruthful ==
  state = "PLAYING" => \E t \in Task : Live(t)

=============================================================================
