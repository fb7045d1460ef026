------------------------------ MODULE QueryCaches ------------------------------
(***************************************************************************)
(* The query server's lifespan and its three Kafka caches: LiveCache,      *)
(* EventCache and NodeStateCache each run one asyncio task that folds a    *)
(* topic into memory; lifespan starts them in order, serves, and stops     *)
(* them in order.  A task that raises is never started again, and stop()   *)
(* of its cache raises what it died of.                                    *)
(*                                                                         *)
(* A task runs without interruption between two awaits, so consuming one   *)
(* message is one step.  aiokafka is external: a consumer starts or fails, *)
(* yields messages or raises, and stops.                                   *)
(***************************************************************************)
EXTENDS SequencesExt

CONSTANTS
  Cluster, Node, Value,
  Status,         \* statuses producers may send
  ValidStatus,    \* VALID_STATUSES
  LiveSize,       \* LIVE_CACHE_SIZE
  EventSize,      \* EVENT_CACHE_SIZE
  NodeEventSize,  \* maxlen of the per-node deques of EventCache
  None

ASSUME CachesAssumption ==
  /\ LiveSize \in Nat \ {0}
  /\ EventSize \in Nat \ {0}
  /\ NodeEventSize \in Nat \ {0}
  /\ ValidStatus \subseteq Status
  /\ None \notin Status \cup Node

Cache == {"live", "event", "node_state"}
Key == Cluster \X Node

\* What an event entry holds; Junk is a decoded value that is no object.
Event == Node \X Value
Junk == <<None, None>>

VARIABLES
  phase,      \* where lifespan is
  cur,        \* the cache it is busy with
  enabled,    \* node_state_enabled
  consumer,   \* each cache's AIOKafkaConsumer
  task,       \* each cache's consuming task
  live,       \* LiveCache: _history, whose last entry is also _latest
  events,     \* EventCache: _events
  byNode,     \* EventCache: _by_node
  nodeState   \* NodeStateCache: _latest, the status

vars == <<phase, cur, enabled, consumer, task, live, events, byNode, nodeState>>
contents == <<live, events, byNode, nodeState>>

TypeOK ==
  /\ phase \in {"start", "undo", "serve", "stop", "wait", "close", "replay",
                "returned", "raised"}
  /\ cur \in Cache
  /\ enabled \in BOOLEAN
  /\ consumer \in [Cache -> {"none", "failed", "open", "closed"}]
  /\ task \in [Cache -> {"none", "running", "cancelling", "ended", "failed"}]
  /\ live \in [Node -> BoundedSeq(Cluster, LiveSize)]
  /\ events \in BoundedSeq(Event \cup {Junk}, EventSize)
  /\ byNode \in [Node -> BoundedSeq(Event, NodeEventSize)]
  /\ nodeState \in [Key -> ValidStatus \cup {None}]

Init ==
  /\ phase = "start" /\ cur = "live"
  /\ enabled = FALSE
  /\ consumer = [c \in Cache |-> "none"]
  /\ task = [c \in Cache |-> "none"]
  /\ live = [n \in Node |-> <<>>]
  /\ events = <<>>
  /\ byNode = [n \in Node |-> <<>>]
  /\ nodeState = [k \in Key |-> None]

-----------------------------------------------------------------------------
(* lifespan: startup                                                       *)

NextCache(c) == IF c = "live" THEN "event" ELSE "node_state"

\* Slip: the flag that guards the cache's stop() is left unset.
MutStartSucceedsNotEnabled ==
  /\ phase = "start"
  /\ consumer' = [consumer EXCEPT ![cur] = "open"]
  /\ task' = [task EXCEPT ![cur] = "running"]
  /\ phase' = IF cur = "node_state" THEN "serve" ELSE "start"
  /\ cur' = NextCache(cur)
  /\ UNCHANGED <<enabled, contents>>

StartSucceeds ==
  /\ phase = "start"
  /\ consumer' = [consumer EXCEPT ![cur] = "open"]
  /\ task' = [task EXCEPT ![cur] = "running"]
  /\ phase' = IF cur = "node_state" THEN "serve" ELSE "start"
  /\ enabled' = (cur = "node_state")
  /\ cur' = NextCache(cur)
  /\ UNCHANGED contents

\* Only the node-state cache may fail to start: the others end the lifespan.
StartFails ==
  /\ phase = "start"
  /\ consumer' = [consumer EXCEPT ![cur] = "failed"]
  /\ phase' = IF cur = "node_state" THEN "undo" ELSE "raised"
  /\ UNCHANGED <<cur, enabled, task, contents>>

\* node_state_cache.stop() without a task; what it raises is swallowed.
UndoNodeState ==
  /\ phase = "undo"
  /\ \/ consumer' = [consumer EXCEPT !["node_state"] = "closed"]
     \/ UNCHANGED consumer
  /\ phase' = "serve"
  /\ UNCHANGED <<cur, enabled, task, contents>>
-----------------------------------------------------------------------------
(* lifespan: shutdown                                                      *)

Shutdown ==
  /\ phase = "serve"
  /\ phase' = "stop"
  /\ cur' = "live"
  /\ UNCHANGED <<enabled, consumer, task, contents>>

\* Slip: the task is awaited without having been cancelled.
MutStopNoCancel ==
  /\ phase = "stop"
  /\ cur = "node_state" => enabled
  /\ phase' = IF task[cur] = "failed" THEN "raised" ELSE "wait"
  /\ UNCHANGED <<cur, enabled, consumer, task, contents>>

\* stop(): cancel the task and await it, unless it has died before; then the
\* await raises what it died of, out of stop() and out of lifespan.
Stop ==
  /\ phase = "stop"
  /\ cur = "node_state" => enabled
  /\ \/ /\ task[cur] = "running"
        /\ task' = [task EXCEPT ![cur] = "cancelling"]
        /\ phase' = "wait"
     \/ /\ task[cur] = "failed"
        /\ phase' = "raised"
        /\ UNCHANGED task
  /\ UNCHANGED <<cur, enabled, consumer, contents>>

\* The cache that never started is not stopped.
SkipNodeState ==
  /\ phase = "stop" /\ cur = "node_state" /\ ~enabled
  /\ phase' = "replay"
  /\ UNCHANGED <<cur, enabled, consumer, task, contents>>

\* The task ended with CancelledError and stop() goes on to the consumer, or
\* it ended with another exception, which stop() raises.
StopResumes ==
  /\ phase = "wait"
  /\ \/ task[cur] = "ended" /\ phase' = "close"
     \/ task[cur] = "failed" /\ phase' = "raised"
  /\ UNCHANGED <<cur, enabled, consumer, task, contents>>

\* consumer.stop() closes the consumer, or raises, closed or not, out of the
\* cache's stop() and out of lifespan.
CloseConsumer ==
  /\ phase = "close"
  /\ \/ /\ consumer' = [consumer EXCEPT ![cur] = "closed"]
        /\ phase' = IF cur = "node_state" THEN "replay" ELSE "stop"
        /\ cur' = NextCache(cur)
     \/ /\ \/ consumer' = [consumer EXCEPT ![cur] = "closed"]
           \/ UNCHANGED consumer
        /\ phase' = "raised"
        /\ UNCHANGED cur
  /\ UNCHANGED <<enabled, task, contents>>

\* replay_engine.stop(): its task is awaited only after a cancel.
StopReplay ==
  /\ phase = "replay"
  /\ phase' = "returned"
  /\ UNCHANGED <<cur, enabled, consumer, task, contents>>

\* The server process has nothing left to do.
Over ==
  /\ phase \in {"returned", "raised"}
  /\ UNCHANGED vars

Lifespan ==
  \/ StartSucceeds
  \/ StartFails
  \/ UndoNodeState
  \/ Stop
  \/ SkipNodeState
  \/ StopResumes
  \/ CloseConsumer
  \/ StopReplay
-----------------------------------------------------------------------------
(* The consuming tasks                                                     *)

Process == <<phase, cur, enabled, consumer>>

\* Slip: a full buffer refuses what is new.
MutPushRefuses(s, x, max) == IF Len(s) < max THEN Append(s, x) ELSE s

\* Appending to a deque of the given maxlen.
Push(s, x, max) == Append(IF Len(s) < max THEN s ELSE Tail(s), x)

\* CancelledError is thrown at the await of `async for`; what aiokafka does
\* on the way out may raise something else.
Cancelled(c) ==
  /\ task[c] = "cancelling"
  /\ \E outcome \in {"ended", "failed"} : task' = [task EXCEPT ![c] = outcome]
  /\ UNCHANGED <<Process, contents>>

\* The value does not decode, the broker reports an error, or the live cache
\* meets a value that is no object: the task ends with the exception.
Fails(c) ==
  /\ task[c] = "running"
  /\ task' = [task EXCEPT ![c] = "failed"]
  /\ UNCHANGED <<Process, contents>>

\* Keyed by the node alone, whatever its cluster.
ConsumeLive ==
  /\ task["live"] = "running"
  /\ \E c \in Cluster, n \in Node :
       live' = [live EXCEPT ![n] = Push(@, c, LiveSize)]
  /\ UNCHANGED <<Process, task, events, byNode, nodeState>>

ConsumeEvent ==
  /\ task["event"] = "running"
  /\ \E e \in Event :
       /\ events' = Push(events, e, EventSize)
       /\ byNode' = [byNode EXCEPT ![e[1]] = Push(@, e, NodeEventSize)]
  /\ UNCHANGED <<Process, task, live, nodeState>>

\* A value that is no object is kept among the events before it is read, and
\* reading it ends the task.
ConsumeJunkEvent ==
  /\ task["event"] = "running"
  /\ events' = Push(events, Junk, EventSize)
  /\ task' = [task EXCEPT !["event"] = "failed"]
  /\ UNCHANGED <<Process, live, byNode, nodeState>>

\* Slip: the status is not looked at.
MutValidAny(status) == status \in Status

\* _validate: any other envelope is dropped and leaves the former state.
Valid(status) == status \in ValidStatus

ConsumeNodeState ==
  /\ task["node_state"] = "running"
  /\ \E k \in Key, s \in Status :
       /\ Valid(s)
       /\ nodeState' = [nodeState EXCEPT ![k] = s]
  /\ UNCHANGED <<Process, task, live, events, byNode>>

TaskStep ==
  \/ \E c \in Cache : Cancelled(c) \/ Fails(c)
  \/ ConsumeLive
  \/ ConsumeEvent
  \/ ConsumeJunkEvent
  \/ ConsumeNodeState

Next ==
  \/ Lifespan
  \/ Shutdown
  \/ TaskStep
  \/ Over

\* The event loop keeps running what is ready, and aiokafka's start and stop
\* return.  Nobody owes a shutdown or a message.
Spec ==
  /\ Init /\ [][Next]_vars
  /\ WF_vars(Lifespan)
  /\ \A c \in Cache : WF_vars(Cancelled(c))
-----------------------------------------------------------------------------
(* Properties                                                              *)

\* How recent the i-th event is among those of its node: 1 for the newest.
Recency(i) ==
  Cardinality({j \in i..Len(events) : events[j][1] = events[i][1]})

\* /events/latest and /events/latest/{node} never contradict each other: the
\* two ring buffers have different lengths, and as far as both reach, the k-th
\* newest event of a node is the same in each.
EventsAgree ==
  \A i \in 1..Len(events) :
    LET ofNode == byNode[events[i][1]]
    IN  events[i] # Junk /\ Recency(i) <= Len(ofNode) =>
          ofNode[Len(ofNode) + 1 - Recency(i)] = events[i]

\* A lifespan that returns has stopped every task and left no consumer open,
\* and no task had died unnoticed: in whatever order tasks die, the optional
\* cache fails to start and shutdown comes, a return accounts for all of them.
ReturnAccountsForAll ==
  phase = "returned" =>
    \A c \in Cache : task[c] \in {"none", "ended"} /\ consumer[c] # "open"

\* A shutdown that has begun ends, whatever the tasks are doing.
ShutdownEnds == phase = "stop" ~> phase \in {"returned", "raised"}

=============================================================================
