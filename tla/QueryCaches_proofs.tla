--------------------------- MODULE QueryCaches_proofs ---------------------------
(* What a returning lifespan has done, and how the buffers of the event cache  *)
(* agree, for any messages and buffer sizes.                                   *)
EXTENDS QueryCaches, FiniteSetTheorems, TLAPS

\* The life of one cache, seen by the lifespan.
Fresh(c) == task[c] = "none" /\ consumer[c] = "none"
Started(c) == task[c] \in {"running", "failed"} /\ consumer[c] = "open"
Leaving(c) == task[c] \in {"cancelling", "ended", "failed"} /\ consumer[c] = "open"
Left(c) == task[c] = "ended" /\ consumer[c] = "open"
Stopped(c) == task[c] = "ended" /\ consumer[c] = "closed"
Absent(c) == task[c] = "none" /\ consumer[c] # "open"

\* The optional cache while nobody stops it.
Optional == IF enabled THEN Started("node_state") ELSE Absent("node_state")

LifeType ==
  /\ phase \in {"start", "undo", "serve", "stop", "wait", "close", "replay",
                "returned", "raised"}
  /\ cur \in Cache
  /\ enabled \in BOOLEAN
  /\ consumer \in [Cache -> {"none", "failed", "open", "closed"}]
  /\ task \in [Cache -> {"none", "running", "cancelling", "ended", "failed"}]

Starting ==
  phase = "start" =>
    /\ ~enabled
    /\ IF cur = "live" THEN Fresh("live") ELSE Started("live")
    /\ IF cur = "node_state" THEN Started("event") ELSE Fresh("event")
    /\ Fresh("node_state")

Serving ==
  /\ phase = "undo" => ~enabled /\ task["node_state"] = "none"
                       /\ consumer["node_state"] = "failed"
  /\ phase \in {"undo", "serve"} =>
       Started("live") /\ Started("event") /\ Optional

\* The caches before the current one are stopped, those after it untouched.
Stopping ==
  phase \in {"stop", "wait", "close"} =>
    /\ cur # "live" => Stopped("live")
    /\ cur = "live" => Started("event")
    /\ cur = "node_state" => Stopped("event")
    /\ cur # "node_state" => Optional

\* The current one is in the state the phase says.
Current ==
  /\ phase = "stop" => IF cur = "node_state" THEN Optional ELSE Started(cur)
  /\ phase = "wait" => Leaving(cur)
  /\ phase = "close" => Left(cur)
  /\ phase \in {"wait", "close"} => (cur = "node_state" => enabled)

Finished ==
  phase \in {"replay", "returned"} =>
    /\ Stopped("live") /\ Stopped("event")
    /\ IF enabled THEN Stopped("node_state") ELSE Absent("node_state")

LifeInv ==
  /\ LifeType
  /\ Starting
  /\ Serving
  /\ Stopping
  /\ Current
  /\ Finished

LEMMA LifeInit == Init => LifeInv
BY DEF Init, LifeInv, LifeType, Starting, Serving, Stopping, Current, Finished,
       Fresh, Cache

LEMMA LifespanStep ==
  ASSUME LifeInv, Lifespan \/ Shutdown
  PROVE  LifeInv'
<1> USE DEF LifeInv, LifeType, Starting, Serving, Stopping, Current, Finished,
            Fresh, Started, Leaving, Left, Stopped, Absent, Optional, Cache,
            NextCache
<1>1. CASE StartSucceeds
  <2>1. CASE cur = "node_state"
    <3>1. enabled' /\ phase' = "serve"
      BY <1>1, <2>1 DEF StartSucceeds
    <3>2. QED
      BY <1>1, <2>1, <3>1 DEF StartSucceeds
  <2>2. CASE cur # "node_state"
    <3>1. ~enabled' /\ phase' = "start"
      BY <1>1, <2>2 DEF StartSucceeds
    <3>2. QED
      BY <1>1, <2>2, <3>1 DEF StartSucceeds
  <2>3. QED
    BY <2>1, <2>2
<1>2. CASE StartFails
  BY <1>2 DEF StartFails
<1>3. CASE UndoNodeState
  BY <1>3 DEF UndoNodeState
<1>4. CASE Shutdown
  BY <1>4 DEF Shutdown
<1>5. CASE Stop
  BY <1>5 DEF Stop
<1>6. CASE SkipNodeState
  BY <1>6 DEF SkipNodeState
<1>7. CASE StopResumes
  BY <1>7 DEF StopResumes
<1>8. CASE CloseConsumer
  BY <1>8 DEF CloseConsumer
<1>9. CASE StopReplay
  BY <1>9 DEF StopReplay
<1>10. QED
  BY <1>1, <1>2, <1>3, <1>4, <1>5, <1>6, <1>7, <1>8, <1>9 DEF Lifespan

\* A task only ever dies, or ends as it was told to.
LEMMA TaskStepEffect ==
  ASSUME TaskStep
  PROVE  /\ UNCHANGED <<phase, cur, enabled, consumer>>
         /\ \/ UNCHANGED task
            \/ \E c \in Cache :
                 /\ \/ task[c] = "running" /\ task' = [task EXCEPT ![c] = "failed"]
                    \/ task[c] = "cancelling" /\ task' = [task EXCEPT ![c] = "ended"]
                    \/ task[c] = "cancelling" /\ task' = [task EXCEPT ![c] = "failed"]
<1> USE DEF Process, Cache
<1>1. CASE \E c \in Cache : Cancelled(c) \/ Fails(c)
  BY <1>1 DEF Cancelled, Fails
<1>2. CASE ConsumeLive \/ ConsumeEvent \/ ConsumeJunkEvent \/ ConsumeNodeState
  BY <1>2 DEF ConsumeLive, ConsumeEvent, ConsumeJunkEvent, ConsumeNodeState
<1>3. QED
  BY <1>1, <1>2 DEF TaskStep

LEMMA TaskStepLife ==
  ASSUME LifeInv, TaskStep
  PROVE  LifeInv'
<1> USE DEF LifeInv, LifeType, Starting, Serving, Stopping, Current, Finished,
            Fresh, Started, Leaving, Left, Stopped, Absent, Optional
<1>1. UNCHANGED <<phase, cur, enabled, consumer>>
  BY TaskStepEffect
<1>2. CASE UNCHANGED task
  BY <1>1, <1>2
<1>3. CASE \E c \in Cache :
             /\ \/ task[c] = "running" /\ task' = [task EXCEPT ![c] = "failed"]
                \/ task[c] = "cancelling" /\ task' = [task EXCEPT ![c] = "ended"]
                \/ task[c] = "cancelling" /\ task' = [task EXCEPT ![c] = "failed"]
  BY <1>1, <1>3 DEF Cache
<1>4. QED
  BY <1>2, <1>3, TaskStepEffect

LEMMA LifeNext == LifeInv /\ [Next]_vars => LifeInv'
<1> SUFFICES ASSUME LifeInv, [Next]_vars PROVE LifeInv'
  OBVIOUS
<1>1. CASE Lifespan \/ Shutdown
  BY <1>1, LifespanStep
<1>2. CASE TaskStep
  BY <1>2, TaskStepLife
<1>3. CASE Over \/ UNCHANGED vars
  BY <1>3 DEF Over, vars, LifeInv, LifeType, Starting, Serving, Stopping, Current,
     Finished, Fresh, Started, Leaving, Left, Stopped, Absent, Optional
<1>4. QED
  BY <1>1, <1>2, <1>3 DEF Next

\* A lifespan that returns has stopped every task and consumer it started, and
\* none of the tasks had died, whatever the messages, the buffers and the order
\* of failures.
THEOREM ReturnAccountsForAllHolds == Spec => []ReturnAccountsForAll
<1>1. LifeInv => ReturnAccountsForAll
  BY DEF LifeInv, LifeType, Finished, ReturnAccountsForAll, Stopped, Absent, Cache
<1>2. QED
  BY <1>1, LifeInit, LifeNext, PTL DEF Spec
-----------------------------------------------------------------------------
(* The ring buffers                                                        *)

LEMMA BoundedSeqIsSeq ==
  ASSUME NEW S, NEW n \in Nat
  PROVE  \A s : s \in BoundedSeq(S, n) <=> s \in Seq(S) /\ Len(s) <= n
<1>1. ASSUME NEW s \in BoundedSeq(S, n)
      PROVE  s \in Seq(S) /\ Len(s) <= n
  <2>1. PICK m \in 0..n : s \in [1..m -> S]
    BY <1>1 DEF BoundedSeq, SeqOf
  <2>2. QED
    BY <2>1
<1>2. ASSUME NEW s \in Seq(S), Len(s) <= n
      PROVE  s \in BoundedSeq(S, n)
  <2>1. s \in [1..Len(s) -> S] /\ Len(s) \in 0..n
    BY <1>2
  <2>2. QED
    BY <2>1 DEF BoundedSeq, SeqOf
<1>3. QED
  BY <1>1, <1>2

\* Pushing shifts what is there by one place if the buffer is full.
LEMMA PushShape ==
  ASSUME NEW S, NEW s \in Seq(S), NEW x \in S, NEW max \in Nat \ {0}, Len(s) <= max,
         NEW t, t = Push(s, x, max)
  PROVE  /\ t \in Seq(S)
         /\ Len(t) \in 1..max
         /\ Len(s) + 1 - Len(t) \in {0, 1}
         /\ t[Len(t)] = x
         /\ \A i \in 1..(Len(t) - 1) : t[i] = s[i + (Len(s) + 1 - Len(t))]
<1>1. CASE Len(s) < max
  BY <1>1 DEF Push
<1>2. CASE Len(s) = max
  <2>1. s # <<>> /\ Tail(s) \in Seq(S) /\ Len(Tail(s)) = Len(s) - 1
    BY <1>2
  <2>2. t = Append(Tail(s), x)
    BY <1>2 DEF Push
  <2>3. \A i \in 1..(Len(s) - 1) : Append(Tail(s), x)[i] = s[i + 1]
    BY <2>1
  <2>4. QED
    BY <1>2, <2>1, <2>2, <2>3
<1>3. QED
  BY <1>1, <1>2

Types ==
  /\ live \in [Node -> BoundedSeq(Cluster, LiveSize)]
  /\ events \in BoundedSeq(Event \cup {Junk}, EventSize)
  /\ byNode \in [Node -> BoundedSeq(Event, NodeEventSize)]
  /\ nodeState \in [Key -> ValidStatus \cup {None}]

LEMMA PushTypes ==
  ASSUME NEW S, NEW max \in Nat \ {0}, NEW s \in BoundedSeq(S, max), NEW x \in S
  PROVE  Push(s, x, max) \in BoundedSeq(S, max)
BY PushShape, BoundedSeqIsSeq

LEMMA TaskStepTypes ==
  ASSUME Types, TaskStep
  PROVE  Types'
<1> USE DEF Types
<1>1. CASE \E c \in Cache : Cancelled(c) \/ Fails(c)
  BY <1>1 DEF Cancelled, Fails, contents
<1>2. CASE ConsumeLive
  BY <1>2, PushTypes, CachesAssumption DEF ConsumeLive
<1>3. CASE ConsumeEvent
  <2>1. PICK e \in Event :
          /\ events' = Push(events, e, EventSize)
          /\ byNode' = [byNode EXCEPT ![e[1]] = Push(@, e, NodeEventSize)]
    BY <1>3 DEF ConsumeEvent
  <2>2. e[1] \in Node
    BY DEF Event
  <2>3. events' \in BoundedSeq(Event \cup {Junk}, EventSize)
    BY <2>1, PushTypes, CachesAssumption
  <2>4. Push(byNode[e[1]], e, NodeEventSize) \in BoundedSeq(Event, NodeEventSize)
    BY <2>2, PushTypes, CachesAssumption
  <2>5. QED
    BY <1>3, <2>1, <2>2, <2>3, <2>4 DEF ConsumeEvent
<1>4. CASE ConsumeJunkEvent
  BY <1>4, PushTypes, CachesAssumption DEF ConsumeJunkEvent
<1>5. CASE ConsumeNodeState
  BY <1>5 DEF ConsumeNodeState, Valid
<1>6. QED
  BY <1>1, <1>2, <1>3, <1>4, <1>5 DEF TaskStep

\* Nothing but the tasks touches what is cached.
LEMMA ContentsKept ==
  ASSUME [Next]_vars, ~TaskStep
  PROVE  UNCHANGED contents
BY DEF Next, Lifespan, StartSucceeds, StartFails, UndoNodeState, Stop, SkipNodeState,
   StopResumes, CloseConsumer, StopReplay, Shutdown, Over, vars, contents

LEMMA TypesInit == Init => Types
<1>1. ASSUME NEW S, NEW n \in Nat
      PROVE  <<>> \in BoundedSeq(S, n)
  <2>1. <<>> \in Seq(S) /\ Len(<<>>) <= n
    OBVIOUS
  <2>2. QED
    BY <2>1, BoundedSeqIsSeq
<1>2. QED
  BY <1>1, CachesAssumption DEF Init, Types

LEMMA TypesNext == Types /\ [Next]_vars => Types'
<1> SUFFICES ASSUME Types, [Next]_vars PROVE Types'
  OBVIOUS
<1>1. CASE TaskStep
  BY <1>1, TaskStepTypes
<1>2. CASE ~TaskStep
  BY <1>2, ContentsKept DEF Types, contents
<1>3. QED
  BY <1>1, <1>2

\* Every buffer keeps its length, and only valid states are remembered.
THEOREM TypeCorrect == Spec => []TypeOK
<1>1. LifeInv /\ Types => TypeOK
  BY DEF LifeInv, LifeType, Types, TypeOK
<1>2. QED
  BY <1>1, LifeInit, LifeNext, TypesInit, TypesNext, PTL DEF Spec
-----------------------------------------------------------------------------
(* EventsAgree: a push makes every older event of the same node less recent    *)
(* by one, in both buffers, and moves it by one place where a buffer is full.  *)

\* Moving a finite set of integers does not change its size.
LEMMA ShiftedSet ==
  ASSUME NEW A \in SUBSET Int, IsFiniteSet(A), NEW d \in Int, NEW B,
         B = {b \in Int : b + d \in A}
  PROVE  IsFiniteSet(B) /\ Cardinality(B) = Cardinality(A)
<1> DEFINE f == [a \in A |-> a - d]
<1>1. f \in [A -> B]
  OBVIOUS
<1>2. \A a, b \in A : f[a] = f[b] => a = b
  OBVIOUS
<1>3. \A b \in B : \E a \in A : f[a] = b
  <2> TAKE b \in B
  <2>1. b + d \in A /\ f[b + d] = b
    OBVIOUS
  <2>2. QED
    BY <2>1
<1> HIDE DEF f
<1>4. f \in Bijection(A, B)
  BY <1>1, <1>2, <1>3 DEF Bijection, Injection, IsInjective, Surjection
<1>5. QED
  BY <1>4, FS_Bijection DEF ExistsBijection

\* The events of node m from place i on.
From(s, i, m) == {j \in i..Len(s) : s[j][1] = m}

LEMMA FromFinite ==
  ASSUME NEW S, NEW s \in Seq(S), NEW i \in Nat, NEW m
  PROVE  /\ IsFiniteSet(From(s, i, m)) /\ Cardinality(From(s, i, m)) \in Nat
         /\ i \in 1..Len(s) /\ s[i][1] = m => Cardinality(From(s, i, m)) >= 1
<1>1. IsFiniteSet(i..Len(s))
  BY FS_Interval
<1>2. IsFiniteSet(From(s, i, m)) /\ Cardinality(From(s, i, m)) \in Nat
  BY <1>1, FS_Subset, FS_CardinalityType DEF From
<1>3. i \in 1..Len(s) /\ s[i][1] = m => From(s, i, m) # {}
  BY DEF From
<1>4. QED
  BY <1>2, <1>3, FS_EmptySet

\* What a push does to the recency of the events that stay.
LEMMA PushRecency ==
  ASSUME NEW S, NEW s \in Seq(S), NEW x \in S, NEW max \in Nat \ {0}, Len(s) <= max,
         NEW t, t = Push(s, x, max), NEW i \in 1..(Len(t) - 1), NEW m
  PROVE  Cardinality(From(t, i, m)) =
           Cardinality(From(s, i + (Len(s) + 1 - Len(t)), m))
             + IF x[1] = m THEN 1 ELSE 0
<1> DEFINE d == Len(s) + 1 - Len(t)
           A == From(s, i + d, m)
           B == {b \in Int : b + d \in A}
<1>1. /\ t \in Seq(S) /\ Len(t) \in 1..max /\ d \in {0, 1} /\ t[Len(t)] = x
      /\ \A j \in 1..(Len(t) - 1) : t[j] = s[j + d]
  BY PushShape
<1>2. A \in SUBSET Int /\ IsFiniteSet(A) /\ i + d \in Nat
  <2>1. i + d \in Nat
    BY <1>1
  <2> HIDE DEF d
  <2>2. A \in SUBSET Int
    BY DEF From
  <2>3. QED
    BY <2>1, <2>2, FromFinite
<1>3. IsFiniteSet(B) /\ Cardinality(B) = Cardinality(A)
  <2>1. d \in Int /\ B = {b \in Int : b + d \in A}
    BY <1>1
  <2> HIDE DEF A, B, d
  <2>2. QED
    BY <1>2, <2>1, ShiftedSet
<1>4. B = {j \in i..(Len(t) - 1) : t[j][1] = m}
  <2>1. \A b \in Int : b + d \in A <=> b \in i..(Len(t) - 1) /\ s[b + d][1] = m
    BY <1>1 DEF From
  <2>2. \A b \in i..(Len(t) - 1) : t[b] = s[b + d]
    BY <1>1
  <2> HIDE DEF A, d
  <2>3. QED
    BY <2>1, <2>2
<1>5. From(t, i, m) = IF x[1] = m THEN B \cup {Len(t)} ELSE B
  <2> HIDE DEF B
  <2>1. i..Len(t) = (i..(Len(t) - 1)) \cup {Len(t)}
    BY <1>1
  <2>2. QED
    BY <1>1, <1>4, <2>1 DEF From
<1>6. Len(t) \notin B
  BY <1>1, <1>4
<1>7. Cardinality(From(t, i, m)) = Cardinality(B) + IF x[1] = m THEN 1 ELSE 0
  <2> HIDE DEF B
  <2>1. Cardinality(B) \in Nat
    BY <1>3, FS_CardinalityType
  <2>2. Cardinality(B \cup {Len(t)}) = Cardinality(B) + 1
    BY <1>3, <1>6, FS_AddElement
  <2>3. QED
    BY <1>5, <2>1, <2>2
<1>8. QED
  BY <1>3, <1>7

LEMMA EventsInit == Init => EventsAgree
BY DEF Init, EventsAgree

\* The event buffer after any push, seen from an event that was in it before.
LEMMA EventsPushed ==
  ASSUME Types, NEW x \in Event \cup {Junk}, events' = Push(events, x, EventSize),
         NEW i \in 1..Len(events')
  PROVE  \/ events'[i] = x /\ Recency(i)' = 1 /\ i = Len(events')
         \/ \E j \in 1..Len(events) :
              /\ events'[i] = events[j]
              /\ Recency(i)' = Recency(j) + IF x[1] = events[j][1] THEN 1 ELSE 0
<1> DEFINE E == Event \cup {Junk}
           d == Len(events) + 1 - Len(events')
<1>1. events \in Seq(E) /\ Len(events) <= EventSize
  BY BoundedSeqIsSeq, CachesAssumption DEF Types
<1>2. /\ events' \in Seq(E) /\ Len(events') \in 1..EventSize /\ d \in {0, 1}
      /\ events'[Len(events')] = x
      /\ \A j \in 1..(Len(events') - 1) : events'[j] = events[j + d]
  <2>1. x \in E /\ EventSize \in Nat \ {0}
    BY CachesAssumption
  <2> HIDE DEF E
  <2>2. ASSUME NEW t, t = Push(events, x, EventSize)
        PROVE  /\ t \in Seq(E) /\ Len(t) \in 1..EventSize
               /\ Len(events) + 1 - Len(t) \in {0, 1}
               /\ t[Len(t)] = x
               /\ \A j \in 1..(Len(t) - 1) :
                    t[j] = events[j + (Len(events) + 1 - Len(t))]
    BY <1>1, <2>1, <2>2, PushShape
  <2>3. QED
    BY <2>2
<1>3. CASE i = Len(events')
  <2>1. {j \in i..Len(events') : events'[j][1] = events'[i][1]} = {i}
    BY <1>2, <1>3
  <2>2. Recency(i)' = 1
    BY <2>1, FS_Singleton DEF Recency
  <2>3. QED
    BY <1>2, <1>3, <2>2
<1>4. CASE i # Len(events')
  <2>1. i \in 1..(Len(events') - 1) /\ i + d \in 1..Len(events)
    BY <1>1, <1>2, <1>4
  <2>2. events'[i] = events[i + d]
    BY <1>2, <2>1
  <2>3. /\ Recency(i)' = Cardinality(From(events', i, events'[i][1]))
        /\ Recency(i + d) = Cardinality(From(events, i + d, events[i + d][1]))
    BY DEF Recency, From
  <2>4. Cardinality(From(events', i, events[i + d][1])) =
          Cardinality(From(events, i + d, events[i + d][1]))
            + IF x[1] = events[i + d][1] THEN 1 ELSE 0
    BY <1>1, <2>1, PushRecency, CachesAssumption
  <2>5. Recency(i)' = Recency(i + d) + IF x[1] = events[i + d][1] THEN 1 ELSE 0
    BY <2>2, <2>3, <2>4
  <2> HIDE DEF d
  <2>6. QED
    BY <2>1, <2>2, <2>5
<1>5. QED
  BY <1>3, <1>4

\* The recency of an event is a place in a buffer, counted from its end.
LEMMA RecencyType ==
  ASSUME Types, NEW i \in 1..Len(events)
  PROVE  Recency(i) \in Nat \ {0} /\ events[i] \in Event \cup {Junk}
<1>1. events \in Seq(Event \cup {Junk})
  BY BoundedSeqIsSeq, CachesAssumption DEF Types
<1>2. Recency(i) = Cardinality(From(events, i, events[i][1]))
  BY DEF Recency, From
<1>3. QED
  BY <1>1, <1>2, FromFinite

LEMMA ConsumeEventAgrees ==
  ASSUME Types, EventsAgree, ConsumeEvent
  PROVE  EventsAgree'
<1>1. PICK e \in Event :
        /\ events' = Push(events, e, EventSize)
        /\ byNode' = [byNode EXCEPT ![e[1]] = Push(@, e, NodeEventSize)]
  BY DEF ConsumeEvent
<1> DEFINE n == e[1]
           s == byNode[n]
           t == Push(s, e, NodeEventSize)
<1>2. n \in Node /\ e # Junk
  BY CachesAssumption DEF Event, Junk
<1>3. byNode'[n] = t /\ \A m \in Node \ {n} : byNode'[m] = byNode[m]
  BY <1>1, <1>2 DEF Types
<1>4. s \in Seq(Event) /\ Len(s) <= NodeEventSize
  BY <1>2, BoundedSeqIsSeq, CachesAssumption DEF Types
<1>5. /\ t \in Seq(Event) /\ Len(t) \in Nat \ {0} /\ Len(s) \in Nat
      /\ Len(s) + 1 - Len(t) \in {0, 1}
      /\ t[Len(t)] = e
      /\ \A i \in 1..(Len(t) - 1) : t[i] = s[i + (Len(s) + 1 - Len(t))]
  <2> HIDE DEF s, n
  <2>1. NodeEventSize \in Nat \ {0}
    BY CachesAssumption
  <2>2. QED
    BY <1>4, <2>1, PushShape
<1> HIDE DEF s, t
<1>6. SUFFICES ASSUME NEW i \in 1..Len(events'), events'[i] # Junk,
                      Recency(i)' <= Len(byNode'[events'[i][1]])
               PROVE  byNode'[events'[i][1]]
                        [Len(byNode'[events'[i][1]]) + 1 - Recency(i)'] = events'[i]
  BY DEF EventsAgree
<1>7. CASE events'[i] = e /\ Recency(i)' = 1
  BY <1>3, <1>5, <1>7
<1>8. ASSUME NEW j \in 1..Len(events), events'[i] = events[j],
             Recency(i)' = Recency(j) + IF n = events[j][1] THEN 1 ELSE 0
      PROVE  byNode'[events'[i][1]]
               [Len(byNode'[events'[i][1]]) + 1 - Recency(i)'] = events'[i]
  <2>1. events[j][1] \in Node /\ Recency(j) \in Nat \ {0}
    BY <1>6, <1>8, RecencyType DEF Event
  <2>2. CASE events[j][1] # n
    BY <1>3, <1>6, <1>8, <2>1, <2>2 DEF EventsAgree
  <2>3. CASE events[j][1] = n
    <3>1. Recency(i)' = Recency(j) + 1 /\ Recency(j) + 1 <= Len(t)
      BY <1>3, <1>6, <1>8, <2>1, <2>3
    <3>2. Recency(j) <= Len(s) => s[Len(s) + 1 - Recency(j)] = events[j]
      BY <1>6, <1>8, <2>3 DEF EventsAgree, s
    <3>3. t[Len(t) + 1 - (Recency(j) + 1)] = s[Len(s) + 1 - Recency(j)]
      <4> DEFINE k == Len(t) - Recency(j)
      <4>1. k \in 1..(Len(t) - 1) /\ k + (Len(s) + 1 - Len(t)) = Len(s) + 1 - Recency(j)
        BY <1>5, <2>1, <3>1
      <4>2. t[k] = s[k + (Len(s) + 1 - Len(t))]
        BY <1>5, <4>1
      <4>3. Len(t) + 1 - (Recency(j) + 1) = k
        BY <1>5, <2>1
      <4>4. QED
        BY <4>1, <4>2, <4>3
    <3>4. Recency(j) <= Len(s)
      BY <1>5, <2>1, <3>1
    <3>5. QED
      BY <1>3, <1>8, <2>3, <3>1, <3>2, <3>3, <3>4
  <2>4. QED
    BY <2>2, <2>3
<1>9. QED
  BY <1>1, <1>7, <1>8, EventsPushed

LEMMA ConsumeJunkAgrees ==
  ASSUME Types, EventsAgree, ConsumeJunkEvent
  PROVE  EventsAgree'
<1>1. events' = Push(events, Junk, EventSize) /\ UNCHANGED byNode
  BY DEF ConsumeJunkEvent
<1>2. SUFFICES ASSUME NEW i \in 1..Len(events'), events'[i] # Junk,
                      Recency(i)' <= Len(byNode[events'[i][1]])
               PROVE  byNode[events'[i][1]]
                        [Len(byNode[events'[i][1]]) + 1 - Recency(i)'] = events'[i]
  BY <1>1 DEF EventsAgree
<1>3. PICK j \in 1..Len(events) :
        /\ events'[i] = events[j]
        /\ Recency(i)' = Recency(j) + IF Junk[1] = events[j][1] THEN 1 ELSE 0
  BY <1>1, <1>2, EventsPushed
<1>4. events[j][1] \in Node /\ Recency(j) \in Nat
  BY <1>2, <1>3, RecencyType DEF Event
<1>5. Recency(i)' = Recency(j)
  BY <1>3, <1>4, CachesAssumption DEF Junk
<1>6. QED
  BY <1>2, <1>3, <1>5 DEF EventsAgree

LEMMA EventsNext == Types /\ EventsAgree /\ [Next]_vars => EventsAgree'
<1> SUFFICES ASSUME Types, EventsAgree, [Next]_vars PROVE EventsAgree'
  OBVIOUS
<1>1. CASE ConsumeEvent
  BY <1>1, ConsumeEventAgrees
<1>2. CASE ConsumeJunkEvent
  BY <1>2, ConsumeJunkAgrees
<1>3. CASE ~ConsumeEvent /\ ~ConsumeJunkEvent
  <2>1. UNCHANGED <<events, byNode>>
    BY <1>3, ContentsKept DEF TaskStep, Cancelled, Fails, ConsumeLive,
       ConsumeNodeState, contents
  <2>2. QED
    BY <2>1 DEF EventsAgree, Recency
<1>4. QED
  BY <1>1, <1>2, <1>3

\* The two event buffers never contradict each other, whatever their lengths
\* and whichever of them a value that is no object has reached.
THEOREM EventsAgreeHolds == Spec => []EventsAgree
<1>1. Init => EventsAgree /\ Types
  BY EventsInit, TypesInit
<1>2. QED
  BY <1>1, EventsNext, TypesNext, PTL DEF Spec
=============================================================================
