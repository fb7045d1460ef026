--------------------------- MODULE ReplayEngine_proofs ---------------------------
(* Safety of ReplayEngine for any number of tasks, requests, websockets and     *)
(* timestamps.                                                                  *)
EXTENDS ReplayEngine, FiniteSetTheorems, TLAPS

Busy == {"top", "batch", "iter"}

\* A task that is past the test of the for loop has a timestamp to publish.
InRange ==
  \A t \in Task :
    tpc[t] \in {"paused", "gap", "batch", "iter", "send"} => idx[t] <= Steps

\* A send has a client.
SendInv == \A t \in Task : tpc[t] = "send" => target[t] \in Client

\* Events are published only inside a batch.
PhaseInv ==
  \A t \in Task :
    tpc[t] \in {"none", "ready", "top", "paused", "gap"} => phase[t] = "metrics"

\* Where a pause finds a task, and how many batches that leaves it.
PauseInv ==
  state = "PAUSED" =>
    \A t \in Task :
      /\ batches[t] <= 1
      /\ tpc[t] = "gap" => batches[t] = 0
      /\ tpc[t] = "batch" /\ phase[t] = "metrics" => batches[t] = 0

\* One request at a time inside _stop_task, and it waits for the task that
\* self._task names, which is the only one alive.
Waiting(r) == rpc[r] \in {"starting", "stopping"}
OwnerInv ==
  ~overlapped =>
    /\ \A t \in Task : Live(t) => t = task
    /\ \A r \in Request : Waiting(r) => awaited[r] = task
    /\ \A q, r \in Request : Waiting(q) /\ Waiting(r) => q = r

\* A task alive finds _state IDLE only if requests overlapped.
DoneInv ==
  ~overlapped =>
    \A t \in Task :
      /\ Live(t) => state # "IDLE"
      /\ tpc[t] = "done" => idx[t] > Steps

IInv ==
  TypeOK /\ InRange /\ SendInv /\ PhaseInv /\ PauseInv /\ OwnerInv /\ DoneInv

LEMMA InitInv == Init => IInv
<1> SUFFICES ASSUME Init PROVE IInv
  OBVIOUS
<1> USE ReplayAssumption
<1>1. /\ state \in {"IDLE", "PLAYING", "PAUSED"} /\ task \in Task \cup {None}
      /\ speed \in Nat /\ clients \subseteq Client /\ loop \in Task \cup {None}
      /\ cancel \subseteq Task /\ overlapped \in BOOLEAN
  BY DEF Init
<1>2. /\ tpc \in [Task -> TaskPC] /\ idx \in [Task -> 1..(Steps + 1)]
      /\ phase \in [Task -> {"metrics", "events"}]
      /\ todo \in [Task -> SUBSET Client] /\ size \in [Task -> Nat]
      /\ target \in [Task -> Client \cup {None}]
      /\ dead \in [Task -> SUBSET Client] /\ batches \in [Task -> Nat]
  BY DEF Init, TaskPC
<1>3. /\ rpc \in [Request -> {"new", "starting", "stopping", "done"}]
      /\ awaited \in [Request -> Task \cup {None}]
      /\ ws \in [Client -> {"new", "open", "gone"}]
  BY DEF Init
<1>4. TypeOK
  BY <1>1, <1>2, <1>3 DEF TypeOK
<1>5. InRange /\ SendInv /\ PhaseInv /\ PauseInv /\ OwnerInv /\ DoneInv
  BY DEF Init, InRange, SendInv, PhaseInv, PauseInv, OwnerInv, DoneInv, Waiting,
     Live, EndPC
<1>6. QED
  BY <1>4, <1>5 DEF IInv

LEMMA CardinalityOfClients ==
  ASSUME TypeOK
  PROVE  Cardinality(clients) \in Nat
BY ReplayAssumption, FS_Subset, FS_CardinalityType DEF TypeOK

-----------------------------------------------------------------------------
(* Steps of a replay task                                                  *)

LEMMA TaskStepType ==
  ASSUME IInv, NEW t \in Task, TaskStep(t)
  PROVE  TypeOK'
<1> USE ReplayAssumption
    DEF IInv, TypeOK, Run, TaskPC, AwaitPC, EndPC, engineVars, requestVars
<1>1. CASE WakeUp(t)
  BY <1>1 DEF WakeUp
<1>2. CASE Cancelled(t)
  BY <1>2 DEF Cancelled
<1>3. CASE Leave(t)
  BY <1>3 DEF Leave
<1>4. CASE PauseWait(t)
  BY <1>4 DEF PauseWait
<1>5. CASE Advance(t)
  BY <1>5 DEF Advance
<1>6. CASE BeginBatch(t)
  BY <1>6, CardinalityOfClients DEF BeginBatch
<1>7. CASE SendNext(t)
  BY <1>7 DEF SendNext
<1>8. CASE SendReturns(t)
  BY <1>8 DEF SendReturns, SendInv
<1>9. CASE SetChanged(t)
  BY <1>9 DEF SetChanged
<1>10. CASE EndBatch(t)
  BY <1>10 DEF EndBatch, InRange
<1>11. QED
  BY <1>1, <1>2, <1>3, <1>4, <1>5, <1>6, <1>7, <1>8, <1>9, <1>10, TaskStep(t)
  DEF TaskStep

LEMMA TaskStepPlace ==
  ASSUME IInv, NEW t \in Task, TaskStep(t)
  PROVE  (InRange /\ SendInv /\ PhaseInv /\ PauseInv)'
<1> USE ReplayAssumption
    DEF IInv, TypeOK, InRange, SendInv, PhaseInv, PauseInv, Run, AwaitPC, EndPC,
        engineVars, requestVars
<1>1. CASE WakeUp(t)
  BY <1>1 DEF WakeUp
<1>2. CASE Cancelled(t)
  BY <1>2 DEF Cancelled
<1>3. CASE Leave(t)
  BY <1>3 DEF Leave
<1>4. CASE PauseWait(t)
  BY <1>4 DEF PauseWait
<1>5. CASE Advance(t)
  BY <1>5 DEF Advance
<1>6. CASE BeginBatch(t)
  BY <1>6 DEF BeginBatch
<1>7. CASE SendNext(t)
  BY <1>7 DEF SendNext
<1>8. CASE SendReturns(t)
  BY <1>8 DEF SendReturns
<1>9. CASE SetChanged(t)
  BY <1>9 DEF SetChanged
<1>10. CASE EndBatch(t)
  BY <1>10 DEF EndBatch
<1>11. QED
  BY <1>1, <1>2, <1>3, <1>4, <1>5, <1>6, <1>7, <1>8, <1>9, <1>10, TaskStep(t)
  DEF TaskStep

\* No step of a task starts another one or changes who waits for whom.
LEMMA TaskStepOwner ==
  ASSUME IInv, NEW t \in Task, TaskStep(t)
  PROVE  (OwnerInv /\ DoneInv)'
<1>1. /\ UNCHANGED <<task, rpc, awaited, overlapped>>
      /\ Live(t)
      /\ \A u \in Task \ {t} : tpc'[u] = tpc[u] /\ idx'[u] = idx[u]
  BY DEF IInv, TypeOK, TaskStep, WakeUp, Cancelled, Leave, PauseWait, Advance,
     BeginBatch, SendNext, SendReturns, SetChanged, EndBatch, Run, Live, AwaitPC,
     EndPC, engineVars, requestVars
<1>2. tpc'[t] = "done" => Leave(t)
  BY DEF IInv, TypeOK, TaskStep, WakeUp, Cancelled, Leave, PauseWait, Advance,
     BeginBatch, SendNext, SendReturns, SetChanged, EndBatch, Run, AwaitPC
<1>3. state' = state \/ Leave(t)
  BY DEF TaskStep, WakeUp, Cancelled, Leave, PauseWait, Advance,
     BeginBatch, SendNext, SendReturns, SetChanged, EndBatch, engineVars
<1>4. OwnerInv'
  BY <1>1 DEF IInv, OwnerInv, Waiting, Live, EndPC
<1>5. CASE Leave(t)
  <2>1. tpc'[t] = "done" /\ idx' = idx /\ (idx[t] > Steps \/ state = "IDLE")
    BY <1>5 DEF Leave, Run, IInv, TypeOK
  <2>2. DoneInv'
    BY <1>1, <2>1 DEF IInv, OwnerInv, DoneInv, Live, EndPC
  <2>3. QED
    BY <1>4, <2>2
<1>6. CASE ~Leave(t)
  <2>1. DoneInv'
    BY <1>1, <1>2, <1>3, <1>6 DEF IInv, DoneInv, Live, EndPC
  <2>2. QED
    BY <1>4, <2>1
<1>7. QED
  BY <1>5, <1>6

-----------------------------------------------------------------------------
(* Steps of the handlers                                                   *)

LEMMA HandlerType ==
  ASSUME IInv,
         \/ \E r \in Request : BeginRequest(r) \/ RequestAtOnce(r) \/ ResumeRequest(r)
         \/ \E c \in Client : Connect(c) \/ Disconnect(c)
         \/ Pause
         \/ Resume
  PROVE  (TypeOK /\ InRange /\ SendInv /\ PhaseInv /\ PauseInv)'
<1> USE ReplayAssumption
    DEF IInv, TypeOK, InRange, SendInv, PhaseInv, PauseInv, TaskPC, AwaitPC, EndPC,
        engineVars, requestVars, runVars
<1>1. ASSUME NEW r \in Request, BeginRequest(r)
      PROVE  (TypeOK /\ InRange /\ SendInv /\ PhaseInv /\ PauseInv)'
  BY <1>1 DEF BeginRequest, MustAwait, Live
<1>2. ASSUME NEW r \in Request, RequestAtOnce(r)
      PROVE  (TypeOK /\ InRange /\ SendInv /\ PhaseInv /\ PauseInv)'
  <2>1. CASE FinishStart(r)
    BY <1>2, <2>1 DEF RequestAtOnce, FinishStart, MustAwait, Stopping
  <2>2. CASE FinishStop(r)
    BY <1>2, <2>2 DEF RequestAtOnce, FinishStop, MustAwait, Stopping
  <2>3. QED
    BY <1>2, <2>1, <2>2 DEF RequestAtOnce
<1>3. ASSUME NEW r \in Request, ResumeRequest(r)
      PROVE  (TypeOK /\ InRange /\ SendInv /\ PhaseInv /\ PauseInv)'
  <2>1. CASE FinishStart(r)
    BY <1>3, <2>1 DEF ResumeRequest, FinishStart
  <2>2. CASE FinishStop(r)
    BY <1>3, <2>2 DEF ResumeRequest, FinishStop
  <2>3. QED
    BY <1>3, <2>1, <2>2 DEF ResumeRequest
<1>4. ASSUME NEW c \in Client, Connect(c)
      PROVE  (TypeOK /\ InRange /\ SendInv /\ PhaseInv /\ PauseInv)'
  BY <1>4 DEF Connect
<1>5. ASSUME NEW c \in Client, Disconnect(c)
      PROVE  (TypeOK /\ InRange /\ SendInv /\ PhaseInv /\ PauseInv)'
  BY <1>5 DEF Disconnect
<1>6. CASE Pause
  BY <1>6 DEF Pause
<1>7. CASE Resume
  BY <1>7 DEF Resume
<1>8. QED
  BY <1>1, <1>2, <1>3, <1>4, <1>5, <1>6, <1>7

\* The new task is the only one: when requests do not overlap, the task that
\* self._task named is not alive any more.
LEMMA FinishOwner ==
  ASSUME IInv, NEW r \in Request, FinishStart(r) \/ FinishStop(r),
         \A t \in Task : ~Live(t),
         \A q \in Request \ {r} : ~Waiting(q),
         UNCHANGED idx, ~overlapped,
         \A q \in Request \ {r} : awaited'[q] = awaited[q]
  PROVE  (OwnerInv /\ DoneInv)'
<1> USE DEF IInv, TypeOK, OwnerInv, DoneInv, Waiting, Live, EndPC
<1>1. rpc'[r] = "done" /\ \A q \in Request \ {r} : rpc'[q] = rpc[q]
  BY DEF FinishStart, FinishStop
<1>2. CASE FinishStop(r)
  BY <1>1, <1>2 DEF FinishStop
<1>3. CASE FinishStart(r)
  <2>1. PICK t \in Task : /\ tpc[t] = "none"
                          /\ tpc' = [tpc EXCEPT ![t] = "ready"]
                          /\ task' = t /\ state' = "PLAYING"
    BY <1>3 DEF FinishStart
  <2>2. QED
    BY <1>1, <2>1
<1>4. QED
  BY <1>2, <1>3

LEMMA HandlerOwner ==
  ASSUME IInv,
         \/ \E r \in Request : BeginRequest(r) \/ RequestAtOnce(r) \/ ResumeRequest(r)
         \/ \E c \in Client : Connect(c) \/ Disconnect(c)
         \/ Pause
         \/ Resume
  PROVE  (OwnerInv /\ DoneInv)'
<1>1. ASSUME NEW r \in Request, BeginRequest(r)
      PROVE  (OwnerInv /\ DoneInv)'
  <2>1. UNCHANGED <<state, task, tpc, idx>>
    BY <1>1 DEF BeginRequest, engineVars, runVars
  <2>2. overlapped' = (overlapped \/ Stopping)
    BY <1>1 DEF BeginRequest
  <2>3. DoneInv'
    BY <2>1, <2>2 DEF IInv, DoneInv, Live
  <2>4. CASE overlapped'
    BY <2>3, <2>4 DEF OwnerInv
  <2>5. CASE ~overlapped'
    <3>1. ~overlapped /\ \A q \in Request : ~Waiting(q)
      BY <2>2, <2>5 DEF Stopping, Waiting
    <3>2. \A q \in Request \ {r} : ~Waiting(q)'
      BY <1>1, <3>1 DEF BeginRequest, Waiting, IInv, TypeOK
    <3>3. awaited'[r] = task
      BY <1>1 DEF BeginRequest, IInv, TypeOK
    <3>4. QED
      BY <2>1, <2>3, <3>1, <3>2, <3>3 DEF IInv, OwnerInv, Live
  <2>6. QED
    BY <2>4, <2>5
<1>2. ASSUME NEW r \in Request, RequestAtOnce(r)
      PROVE  (OwnerInv /\ DoneInv)'
  <2>1. CASE overlapped'
    BY <2>1 DEF OwnerInv, DoneInv
  <2>2. CASE ~overlapped'
    <3>1. ~overlapped /\ \A q \in Request : ~Waiting(q)
      BY <1>2, <2>2 DEF RequestAtOnce, Stopping, Waiting
    <3>2. \A t \in Task : ~Live(t)
      BY <1>2, <3>1, ReplayAssumption DEF RequestAtOnce, MustAwait, IInv, OwnerInv
    <3>3. UNCHANGED <<idx, awaited>>
      BY <1>2 DEF RequestAtOnce
    <3>4. QED
      BY <1>2, <3>1, <3>2, <3>3, FinishOwner DEF RequestAtOnce
  <2>3. QED
    BY <2>1, <2>2
<1>3. ASSUME NEW r \in Request, ResumeRequest(r)
      PROVE  (OwnerInv /\ DoneInv)'
  <2>1. UNCHANGED <<idx, overlapped>>
    BY <1>3 DEF ResumeRequest
  <2>2. CASE overlapped
    BY <2>1, <2>2 DEF OwnerInv, DoneInv
  <2>3. CASE ~overlapped
    <3>1. Waiting(r) /\ ~Live(awaited[r])
      BY <1>3 DEF ResumeRequest, Waiting
    <3>2. \A t \in Task : ~Live(t)
      BY <2>3, <3>1 DEF IInv, OwnerInv
    <3>3. \A q \in Request \ {r} : ~Waiting(q)
      BY <2>3, <3>1 DEF IInv, OwnerInv
    <3>4. \A q \in Request \ {r} : awaited'[q] = awaited[q]
      BY <1>3 DEF ResumeRequest, IInv, TypeOK
    <3>5. FinishStart(r) \/ FinishStop(r)
      BY <1>3 DEF ResumeRequest
    <3>6. QED
      BY <2>1, <2>3, <3>2, <3>3, <3>4, <3>5, FinishOwner
  <2>4. QED
    BY <2>2, <2>3
<1>4. CASE \E c \in Client : Connect(c) \/ Disconnect(c)
  <2>1. UNCHANGED <<state, task, tpc, idx, rpc, awaited, overlapped>>
    BY <1>4 DEF Connect, Disconnect, runVars
  <2>2. QED
    BY <2>1 DEF IInv, OwnerInv, DoneInv, Waiting, Live
<1>5. CASE Pause \/ Resume
  <2>1. /\ UNCHANGED <<task, tpc, idx, rpc, awaited, overlapped>>
        /\ state' # "IDLE"
    BY <1>5 DEF Pause, Resume, runVars, requestVars
  <2>2. QED
    BY <2>1 DEF IInv, OwnerInv, DoneInv, Waiting, Live
<1>6. QED
  BY <1>1, <1>2, <1>3, <1>4, <1>5

LEMMA NextInv == IInv /\ [Next]_vars => IInv'
<1> SUFFICES ASSUME IInv, [Next]_vars PROVE IInv'
  OBVIOUS
<1>1. CASE \E t \in Task : TaskStep(t)
  BY <1>1, TaskStepType, TaskStepPlace, TaskStepOwner DEF IInv
<1>2. CASE \/ \E r \in Request :
                BeginRequest(r) \/ RequestAtOnce(r) \/ ResumeRequest(r)
           \/ \E c \in Client : Connect(c) \/ Disconnect(c)
           \/ Pause
           \/ Resume
  BY <1>2, HandlerType, HandlerOwner DEF IInv
<1>3. CASE UNCHANGED vars
  BY <1>3 DEF vars, engineVars, runVars, requestVars, IInv, TypeOK, InRange,
     SendInv, PhaseInv, PauseInv, OwnerInv, DoneInv, Waiting, Live
<1>4. QED
  BY <1>1, <1>2, <1>3 DEF Next

LEMMA Inductive == Spec => []IInv
BY InitInv, NextInv, PTL DEF Spec

\* Type correctness; in particular no task runs past the last timestamp.
THEOREM TypeCorrect == Spec => []TypeOK
<1>1. IInv => TypeOK
  BY DEF IInv
<1>2. QED
  BY <1>1, Inductive, PTL

\* As long as no request runs inside another's _stop_task, self._task names the
\* only replay alive, for any number of tasks and requests.
THEOREM OnlyOverlapOrphansHolds == Spec => []OnlyOverlapOrphans
<1>1. IInv => OnlyOverlapOrphans
  BY DEF IInv, OwnerInv, OnlyOverlapOrphans
<1>2. QED
  BY <1>1, Inductive, PTL

\* Under the same proviso a replay that ends by itself is complete: it cannot
\* find _state IDLE before its last timestamp.
THEOREM DoneIsCompleteHolds == Spec => []DoneIsComplete
<1>1. IInv => DoneIsComplete
  BY DEF IInv, DoneInv, DoneIsComplete
<1>2. QED
  BY <1>1, Inductive, PTL

\* After a pause a replay begins at most one more batch, however long it is.
THEOREM PauseBoundHolds == Spec => []PauseBound
<1>1. IInv => PauseBound
  BY DEF IInv, PauseInv, PauseBound
<1>2. QED
  BY <1>1, Inductive, PTL

-----------------------------------------------------------------------------
(* Refinement: the engine is a ReplayPlayer.                               *)

\* The event loop is where the tasks say; a task whose cancellation was
\* requested is at an await; a task begins at the first timestamp; and it is in
\* the events of a timestamp only if that has some.
LoopInv == \A t \in Task : tpc[t] \in Busy <=> loop = t
CancelInv == \A t \in cancel : tpc[t] \in AwaitPC \cup EndPC
FreshInv == \A t \in Task : tpc[t] \in {"none", "ready"} => idx[t] = 1
EventsInv == \A t \in Task : phase[t] = "events" => idx[t] \in EventSteps
TrackInv == LoopInv /\ CancelInv /\ FreshInv /\ EventsInv

LEMMA TaskStepTrack ==
  ASSUME IInv, TrackInv, NEW t \in Task, TaskStep(t)
  PROVE  TrackInv'
<1> USE ReplayAssumption
    DEF IInv, TypeOK, TrackInv, LoopInv, CancelInv, FreshInv, EventsInv, Run, Busy,
        TaskPC, AwaitPC, EndPC, engineVars, requestVars
<1>1. CASE WakeUp(t)
  BY <1>1 DEF WakeUp
<1>2. CASE Cancelled(t)
  BY <1>2 DEF Cancelled
<1>3. CASE Leave(t)
  BY <1>3 DEF Leave
<1>4. CASE PauseWait(t)
  BY <1>4 DEF PauseWait
<1>5. CASE Advance(t)
  BY <1>5 DEF Advance
<1>6. CASE BeginBatch(t)
  BY <1>6 DEF BeginBatch
<1>7. CASE SendNext(t)
  BY <1>7 DEF SendNext
<1>8. CASE SendReturns(t)
  BY <1>8 DEF SendReturns
<1>9. CASE SetChanged(t)
  BY <1>9 DEF SetChanged
<1>10. CASE EndBatch(t)
  BY <1>10 DEF EndBatch
<1>11. QED
  BY <1>1, <1>2, <1>3, <1>4, <1>5, <1>6, <1>7, <1>8, <1>9, <1>10, TaskStep(t)
  DEF TaskStep

LEMMA HandlerTrack ==
  ASSUME IInv, TrackInv,
         \/ \E r \in Request : BeginRequest(r) \/ RequestAtOnce(r) \/ ResumeRequest(r)
         \/ \E c \in Client : Connect(c) \/ Disconnect(c)
         \/ Pause
         \/ Resume
  PROVE  TrackInv'
<1> USE ReplayAssumption
    DEF IInv, TypeOK, TrackInv, LoopInv, CancelInv, FreshInv, EventsInv, Busy,
        TaskPC, AwaitPC, EndPC
<1>1. ASSUME NEW r \in Request, BeginRequest(r) PROVE TrackInv'
  BY <1>1 DEF BeginRequest, MustAwait, Live, engineVars, runVars
<1>2. ASSUME NEW r \in Request, FinishStart(r) \/ FinishStop(r),
             UNCHANGED <<loop, idx, phase, cancel>>
      PROVE  TrackInv'
  BY <1>2 DEF FinishStart, FinishStop
<1>3. ASSUME NEW r \in Request, RequestAtOnce(r) \/ ResumeRequest(r) PROVE TrackInv'
  BY <1>2, <1>3 DEF RequestAtOnce, ResumeRequest
<1>4. ASSUME NEW c \in Client, Connect(c) \/ Disconnect(c) PROVE TrackInv'
  BY <1>4 DEF Connect, Disconnect, runVars
<1>5. CASE Pause \/ Resume
  BY <1>5 DEF Pause, Resume, runVars, requestVars
<1>6. QED
  BY <1>1, <1>3, <1>4, <1>5

LEMMA TrackInvariant == Spec => []TrackInv
<1>1. Init => TrackInv
  BY ReplayAssumption DEF Init, TrackInv, LoopInv, CancelInv, FreshInv, EventsInv, Busy
<1>2. IInv /\ TrackInv /\ [Next]_vars => TrackInv'
  <2> SUFFICES ASSUME IInv, TrackInv, [Next]_vars PROVE TrackInv'
    OBVIOUS
  <2>1. CASE \E t \in Task : TaskStep(t)
    BY <2>1, TaskStepTrack
  <2>2. CASE \/ \E r \in Request :
                  BeginRequest(r) \/ RequestAtOnce(r) \/ ResumeRequest(r)
             \/ \E c \in Client : Connect(c) \/ Disconnect(c)
             \/ Pause
             \/ Resume
    BY <2>2, HandlerTrack
  <2>3. CASE UNCHANGED vars
    BY <2>3 DEF vars, engineVars, runVars, requestVars, TrackInv, LoopInv,
       CancelInv, FreshInv, EventsInv
  <2>4. QED
    BY <2>1, <2>2, <2>3 DEF Next
<1>3. QED
  BY <1>1, <1>2, Inductive, PTL DEF Spec

\* The tracks of the refinement mapping.
Tracks == IF MustAwait THEN {Track} ELSE {}

\* The only task that can take a step is the one self._task names; whether its
\* replay goes on and where it is then decides what the track becomes.
LEMMA OwnStep ==
  ASSUME IInv, ~overlapped, NEW t \in Task, TaskStep(t)
  PROVE  /\ t = task /\ task' = task /\ cancel' = cancel /\ overlapped' = overlapped
         /\ Tracks = {Track}
         /\ tpc[t] \notin EndPC
         /\ tpc'[t] \in EndPC => Tracks' = {}
         /\ tpc'[t] \notin EndPC /\ tpc'[t] # "none" => Tracks' = {Track'}
<1>1. Live(t) /\ UNCHANGED <<task, cancel, overlapped>>
  BY DEF TaskStep, WakeUp, Cancelled, Leave, PauseWait, Advance, BeginBatch, SendNext,
     SendReturns, SetChanged, EndBatch, Run, Live, EndPC, AwaitPC, engineVars,
     requestVars
<1>2. t = task /\ task # None
  BY <1>1, ReplayAssumption DEF IInv, OwnerInv
<1>3. QED
  BY <1>1, <1>2 DEF Tracks, MustAwait, Live

LEMMA PlayerTaskStep ==
  ASSUME IInv, TrackInv, ~overlapped, NEW t \in Task, TaskStep(t)
  PROVE  (Player!Next \/ UNCHANGED <<state, Tracks>>) /\ UNCHANGED overlapped
<1> DEFINE Same == UNCHANGED <<state, Tracks>>
<1>00. /\ t = task /\ UNCHANGED <<task, cancel, overlapped>>
       /\ Tracks = {Track}
       /\ tpc'[t] \in EndPC => Tracks' = {}
       /\ tpc'[t] \notin EndPC /\ tpc'[t] # "none" => Tracks' = {Track'}
  BY OwnStep
<1> USE <1>00
<1>0. /\ tpc \in [Task -> TaskPC] /\ idx \in [Task -> 1..(Steps + 1)]
      /\ phase \in [Task -> {"metrics", "events"}] /\ Steps \in Nat
  BY ReplayAssumption DEF IInv, TypeOK
<1>1. CASE WakeUp(t)
  <2>1. /\ \/ tpc[t] \in {"ready", "paused"} /\ tpc'[t] = "top"
           \/ tpc[t] = "gap" /\ tpc'[t] = "batch"
        /\ idx' = idx /\ phase' = phase /\ state' = state
    BY <1>0, <1>1 DEF WakeUp, engineVars
  <2>2. TakenUp(t)' = TakenUp(t) /\ StillToShow(t)' = StillToShow(t)
    BY <2>1 DEF TakenUp, StillToShow
  <2>3. Track' = Track
    BY <2>1, <2>2 DEF Track
  <2>4. QED
    BY <2>1, <2>3 DEF EndPC
<1>2. CASE Cancelled(t)
  <2>1. tpc'[t] = "cancelled" /\ state' = state
    BY <1>0, <1>2 DEF Cancelled, engineVars
  <2>2. Player!Break(Track)
    BY <2>1 DEF Player!Break, Tracks, EndPC
  <2>3. QED
    BY <2>2 DEF Player!Next, Tracks
<1>3. CASE Leave(t)
  <2>1. tpc[t] = "top" /\ tpc'[t] = "done" /\ state' = "IDLE" /\ idx[t] = Steps + 1
    BY <1>0, <1>3 DEF Leave, Run, IInv, DoneInv, Live, EndPC
  <2>2. Track.ts = Steps /\ Track.left = {}
    BY <1>0, <2>1 DEF Track, TakenUp, StillToShow
  <2>3. Player!Finish(Track)
    BY <2>1, <2>2 DEF Player!Finish, Tracks, EndPC
  <2>4. QED
    BY <2>3 DEF Player!Next, Tracks
<1>4. CASE PauseWait(t)
  <2>1. Track' = Track /\ tpc'[t] = "paused" /\ state' = state
    BY <1>0, <1>4 DEF PauseWait, Run, Track, TakenUp, StillToShow, engineVars
  <2>2. QED
    BY <2>1 DEF EndPC
<1>5. CASE Advance(t)
  <2>1. tpc[t] = "top" /\ state' = state /\ state = "PLAYING" /\ idx[t] <= Steps
    BY <1>5 DEF Advance, Run, engineVars
  <2>2. CASE speed = 0
    <3>1. tpc'[t] = "crashed"
      BY <1>0, <1>5, <2>2 DEF Advance, Run
    <3>2. Player!Break(Track)
      BY <2>1, <3>1 DEF Player!Break, Tracks, EndPC
    <3>3. QED
      BY <3>2 DEF Player!Next, Tracks
  <2>3. CASE speed # 0
    <3>1. tpc'[t] \in {"batch", "gap"} /\ idx' = idx /\ phase' = phase
      BY <1>0, <1>5, <2>3 DEF Advance, Run
    <3>2. phase[t] = "metrics" /\ t \notin cancel
      BY <2>1 DEF IInv, PhaseInv, TrackInv, CancelInv, AwaitPC, EndPC
    <3>3. Track = [ts |-> idx[t] - 1, left |-> {}, call |-> "on"]
      <4>1. ~TakenUp(t) /\ StillToShow(t) = {}
        BY <2>1 DEF TakenUp, StillToShow
      <4>2. QED
        BY <3>2, <4>1 DEF Track
    <3>4. Track' = [ts |-> idx[t], left |-> Player!Parts(idx[t]), call |-> "on"]
      <4>1. StillToShow(t)' = Player!Parts(idx[t])
        BY <3>1, <3>2 DEF StillToShow, Player!Parts, Player!Part
      <4>2. TakenUp(t)'
        BY <3>1 DEF TakenUp
      <4>3. QED
        BY <3>1, <3>2, <4>1, <4>2 DEF Track
    <3>5. idx[t] - 1 < Steps /\ idx[t] - 1 + 1 = idx[t]
      BY <1>0, <2>1
    <3>6. Track' = [ts |-> Track.ts + 1, left |-> Player!Parts(Track.ts + 1), call |-> "on"]
      BY <3>3, <3>4, <3>5
    <3>7. Tracks' = {Track'}
      BY <3>1 DEF EndPC
    <3>8. Player!TakeUp(Track)
      BY <2>1, <3>3, <3>5, <3>6, <3>7 DEF Player!TakeUp, Tracks
    <3>9. QED
      BY <3>8 DEF Player!Next, Tracks
  <2>4. QED
    BY <2>2, <2>3
<1>6. CASE BeginBatch(t)
  <2>1. /\ tpc[t] = "batch" /\ tpc'[t] = "iter" /\ state' = state
        /\ idx' = idx /\ phase' = phase
    BY <1>0, <1>6 DEF BeginBatch, Run, engineVars
  <2>2. t \notin cancel
    BY <2>1 DEF TrackInv, CancelInv, AwaitPC, EndPC
  <2>3. phase[t] \in {"metrics", "events"} /\ (phase[t] = "events" => idx[t] \in EventSteps)
    BY <1>0 DEF TrackInv, EventsInv
  <2>4. /\ phase[t] \in StillToShow(t)
        /\ phase[t] = "events" => "metrics" \notin StillToShow(t)
        /\ StillToShow(t)' = StillToShow(t) \ {phase[t]}
    BY <2>1, <2>3 DEF StillToShow
  <2>5. Track' = [Track EXCEPT !.left = @ \ {phase[t]}]
    <3>1. Track = [ts |-> idx[t], left |-> StillToShow(t), call |-> "on"]
      BY <2>1, <2>2 DEF Track, TakenUp
    <3>2. Track' = [ts |-> idx[t], left |-> StillToShow(t) \ {phase[t]}, call |-> "on"]
      BY <2>1, <2>2, <2>4 DEF Track, TakenUp
    <3>3. QED
      BY <3>1, <3>2
  <2>6. Track.call = "on" /\ Track.left = StillToShow(t)
    BY <2>2 DEF Track
  <2>7. Player!Show(Track, phase[t])
    BY <2>1, <2>4, <2>5, <2>6 DEF Player!Show, Tracks, EndPC
  <2>8. QED
    BY <2>3, <2>7 DEF Player!Next, Player!Part, Tracks
<1>7. CASE SendNext(t) \/ SendReturns(t)
  <2>1. Track' = Track /\ tpc'[t] \in {"iter", "send"} /\ state' = state
    BY <1>0, <1>7 DEF SendNext, SendReturns, Run, Track, TakenUp, StillToShow,
       engineVars
  <2>2. QED
    BY <2>1 DEF EndPC
<1>8. CASE SetChanged(t)
  <2>1. tpc'[t] = "crashed" /\ state' = state
    BY <1>0, <1>8 DEF SetChanged, Run, engineVars
  <2>2. Player!Break(Track)
    BY <2>1 DEF Player!Break, Tracks, EndPC
  <2>3. QED
    BY <2>2 DEF Player!Next, Tracks
<1>9. CASE EndBatch(t)
  <2>1. state' = state /\ tpc[t] = "iter"
    BY <1>9 DEF EndBatch, Run
  <2>2. CASE phase[t] = "metrics" /\ idx[t] \in EventSteps
    <3>1. tpc'[t] = "batch" /\ phase'[t] = "events" /\ idx' = idx
      BY <1>0, <1>9, <2>2 DEF EndBatch, Run
    <3>2. TakenUp(t) /\ TakenUp(t)' /\ StillToShow(t)' = StillToShow(t)
      BY <2>1, <2>2, <3>1 DEF TakenUp, StillToShow
    <3>3. Track' = Track
      BY <3>1, <3>2 DEF Track
    <3>4. QED
      BY <2>1, <3>1, <3>3 DEF EndPC
  <2>3. CASE ~(phase[t] = "metrics" /\ idx[t] \in EventSteps)
    <3>1. tpc'[t] = "top" /\ phase'[t] = "metrics" /\ idx'[t] = idx[t] + 1
      BY <1>0, <1>9, <2>3 DEF EndBatch, Run
    <3>2. TakenUp(t) /\ ~TakenUp(t)' /\ StillToShow(t)' = {} /\ StillToShow(t) = {}
      BY <2>1, <2>3, <3>1 DEF TakenUp, StillToShow
    <3>3. idx'[t] - 1 = idx[t]
      BY <1>0, <3>1
    <3>4. Track' = Track
      BY <3>2, <3>3 DEF Track
    <3>5. QED
      BY <2>1, <3>1, <3>4 DEF EndPC
  <2>4. QED
    BY <2>2, <2>3
<1>10. QED
  BY <1>1, <1>2, <1>3, <1>4, <1>5, <1>6, <1>7, <1>8, <1>9, TaskStep(t) DEF TaskStep

\* A request that is not in another's way starts a track when none is left,
\* ends the player's work, or calls the track off and waits for its end.
LEMMA PlayerRequest ==
  ASSUME IInv, TrackInv, ~overlapped, NEW r \in Request,
         BeginRequest(r) \/ RequestAtOnce(r) \/ ResumeRequest(r)
  PROVE  overlapped' \/ (Player!Next /\ UNCHANGED overlapped)
<1>1. CASE BeginRequest(r)
  <2>1. /\ MustAwait /\ MustAwait'
        /\ UNCHANGED <<state, task, tpc, idx, phase>> /\ cancel' = cancel \cup {task}
    BY <1>1 DEF BeginRequest, MustAwait, Live, engineVars, runVars
  <2>2. Track' = [Track EXCEPT !.call = "off"]
    <3>1. TakenUp(task)' = TakenUp(task) /\ StillToShow(task)' = StillToShow(task)
      BY <2>1 DEF TakenUp, StillToShow
    <3>2. task \in cancel'
      BY <2>1
    <3>3. Track' = [ts |-> Track.ts, left |-> Track.left, call |-> "off"]
      BY <2>1, <3>1, <3>2 DEF Track
    <3>4. Track = [ts |-> Track.ts, left |-> Track.left, call |-> Track.call]
      BY DEF Track
    <3>5. QED
      BY <3>3, <3>4
  <2>3. Player!CallOff(Track)
    BY <2>1, <2>2 DEF Player!CallOff
  <2>4. Player!Next
    BY <2>1, <2>3 DEF Player!Next
  <2>5. overlapped' \/ UNCHANGED overlapped
    <3>1. overlapped = FALSE /\ overlapped' = (overlapped \/ Stopping)
      BY <1>1 DEF BeginRequest, IInv, TypeOK
    <3>2. CASE Stopping
      BY <3>1, <3>2
    <3>3. CASE ~Stopping
      BY <3>1, <3>3
    <3>4. QED
      BY <3>2, <3>3
  <2>6. QED
    BY <2>4, <2>5
<1>2. ASSUME FinishStart(r) \/ FinishStop(r), ~MustAwait, UNCHANGED <<cancel, idx, phase>>
      PROVE  Player!Next
  <2>1. CASE FinishStop(r)
    BY <1>2, <2>1 DEF FinishStop, MustAwait, Live, Player!Next, Player!Stop
  <2>2. CASE FinishStart(r)
    <3>1. PICK t \in Task : /\ tpc[t] = "none" /\ tpc' = [tpc EXCEPT ![t] = "ready"]
                            /\ task' = t /\ state' = "PLAYING"
      BY <2>2 DEF FinishStart
    <3>2. tpc'[t] = "ready" /\ idx[t] = 1 /\ t \notin cancel /\ t # None
      BY <3>1, ReplayAssumption DEF IInv, TypeOK, TrackInv, FreshInv, CancelInv,
         AwaitPC, EndPC
    <3>3. MustAwait'
      BY <3>1, <3>2 DEF MustAwait, Live, EndPC
    <3>4. TakenUp(t)' = FALSE /\ StillToShow(t)' = {}
      BY <3>2 DEF TakenUp, StillToShow
    <3>5. Track' = [ts |-> 0, left |-> {}, call |-> "on"]
      BY <1>2, <3>1, <3>2, <3>4 DEF Track
    <3>6. QED
      BY <1>2, <3>1, <3>3, <3>5 DEF Player!Next, Player!Start
  <2>3. QED
    BY <1>2, <2>1, <2>2
<1>3. CASE RequestAtOnce(r)
  BY <1>2, <1>3 DEF RequestAtOnce, IInv, TypeOK
<1>4. CASE ResumeRequest(r)
  <2>1. ~MustAwait
    BY <1>4 DEF ResumeRequest, IInv, OwnerInv, Waiting, MustAwait
  <2>2. QED
    BY <1>2, <1>4, <2>1 DEF ResumeRequest
<1>5. QED
  BY <1>1, <1>3, <1>4

\* Until two requests overlap, every behaviour of the engine, its tasks and the
\* websockets is one of ReplayPlayer: one track at a time, played in order and
\* without a gap, silent from the moment it is called off.
THEOREM PlayerRefined == Spec => PlayerImplemented
<1>1. Init => Player!Init
  BY DEF Init, Player!Init, MustAwait
<1>2. IInv /\ TrackInv /\ [Next]_vars
        => [overlapped' \/ (Player!Next /\ UNCHANGED overlapped)]_(Player!playerVars)
  <2> SUFFICES ASSUME IInv, TrackInv, [Next]_vars, ~overlapped'
               PROVE  (Player!Next /\ UNCHANGED overlapped) \/ UNCHANGED Player!playerVars
    OBVIOUS
  <2>0. ~overlapped
    BY DEF Next, TaskStep, WakeUp, Cancelled, Leave, PauseWait, Advance, BeginBatch,
       SendNext, SendReturns, SetChanged, EndBatch, BeginRequest, RequestAtOnce,
       ResumeRequest, Connect, Disconnect, Pause, Resume, requestVars, vars, IInv,
       TypeOK
  <2>1. CASE \E t \in Task : TaskStep(t)
    BY <2>0, <2>1, PlayerTaskStep DEF Player!playerVars, Tracks
  <2>2. CASE \E r \in Request : BeginRequest(r) \/ RequestAtOnce(r) \/ ResumeRequest(r)
    BY <2>0, <2>2, PlayerRequest
  <2>3. CASE Pause \/ Resume
    BY <2>3 DEF Pause, Resume, Player!Next, Player!Pause, Player!Resume, runVars,
       requestVars, MustAwait, Live, Track, TakenUp, StillToShow
  <2>4. CASE (\E c \in Client : Connect(c) \/ Disconnect(c)) \/ UNCHANGED vars
    BY <2>4 DEF Connect, Disconnect, vars, engineVars, runVars, requestVars,
       Player!playerVars, MustAwait, Live, Track, TakenUp, StillToShow
  <2>5. QED
    BY <2>1, <2>2, <2>3, <2>4 DEF Next
<1>3. QED
  BY <1>1, <1>2, Inductive, TrackInvariant, PTL
  DEF Spec, PlayerImplemented, Player!Spec
=============================================================================
