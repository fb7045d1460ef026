------------------------- MODULE MetricsPipeline_proofs -------------------------
(* Safety of the ingestor within the pipeline and of what a producer repeats, *)
(* for any recording, any number of messages, starts and faults.              *)
EXTENDS MetricsPipeline, FiniteSetTheorems, TLAPS

\* The part of the state the ingestor depends on, with the order of its
\* offsets: a commit never passes the position, nor the position the topic.
OffsetInv ==
  /\ end \in Nat /\ 1..end \subseteq Offset
  /\ log = [o \in Offset |-> log[o]]
  /\ pos \in 0..end /\ joined \in 0..end
  /\ committed \in -1..pos
  /\ buf \subseteq 1..pos
  /\ torn \in BOOLEAN
  /\ stored \in [Offset -> Nat]
  /\ mishaps \in Nat

Working == {"wait", "appended", "final", "stop"}

\* Only an ingestor that reads has anything in its buffer.
BufferInv ==
  /\ ipc \notin {"wait", "appended", "final"} => buf = {}
  /\ torn => ipc = "final"

\* What a step of anybody else does to the topic.
LEMMA OtherStep ==
  ASSUME OffsetInv,
         (SourceNext /\ UNCHANGED ingestVars) \/ OtherPublisher
           \/ Exhausted \/ UNCHANGED vars
  PROVE  /\ OffsetInv'
         /\ UNCHANGED ingestVars
         /\ end' >= end
         /\ \A o \in 1..end : log'[o] = log[o]
<1>1. UNCHANGED ingestVars
  BY DEF OtherPublisher, Exhausted, vars
<1>2. UNCHANGED <<log, end>> \/ \E m : Send(m)
  BY DEF SourceNext, StartSeed, SeedStep, WaitForCatalog, SeedMetrics, FillMetrics,
     SeedEvents, FillEvents, CheckTable, FillTable, SeedGoto, LoadSeedRows,
     LoadEventRows, ExternalEvents, RestartProducer, ProducerStep, Produce, Flush,
     NextGroup, Deliver, KillProducer, OtherPublisher, Exhausted, vars, topicVars
<1>3. CASE UNCHANGED <<log, end>>
  BY <1>1, <1>3 DEF OffsetInv, ingestVars
<1>4. CASE \E m : Send(m)
  <2>1. PICK m : Send(m)
    BY <1>4
  <2>2. end' = end + 1 /\ end + 1 \in Offset /\ end \in Nat
    BY <2>1 DEF Send, OffsetInv
  <2>3. \A o \in 1..end : log'[o] = log[o]
    BY <2>1, <2>2 DEF Send, OffsetInv
  <2>4. log' = [o \in Offset |-> log'[o]]
    BY <2>1 DEF Send, OffsetInv
  <2>5. 1..end' \subseteq Offset
    BY <2>2 DEF OffsetInv
  <2>6. QED
    BY <1>1, <2>2, <2>3, <2>4, <2>5 DEF OffsetInv, ingestVars
<1>5. QED
  BY <1>1, <1>2, <1>3, <1>4

\* A flush adds one row for each offset in the buffer.
LEMMA StoredRows ==
  ASSUME OffsetInv
  PROVE  /\ Stored \in [Offset -> Nat]
         /\ \A o \in Offset : Stored[o] = IF o \in buf THEN stored[o] + 1 ELSE stored[o]
BY DEF Stored, OffsetInv

LEMMA IngestOffsets ==
  ASSUME OffsetInv, BufferInv, IngestNext
  PROVE  OffsetInv' /\ BufferInv'
<1> USE DEF OffsetInv, BufferInv, Goto, Working, topicVars
<1>1. CASE StartIngestor \/ WaitForTable
  BY <1>1 DEF StartIngestor, WaitForTable, None
<1>2. CASE Join
  BY <1>2 DEF Join, None
<1>3. CASE AutoCommit \/ Interrupt
  BY <1>3 DEF AutoCommit, Interrupt
<1>4. CASE Receive
  <2>1. /\ pos < end /\ pos' = pos + 1
        /\ buf' = buf \cup {pos + 1} \/ buf' = buf
        /\ torn' \in {TRUE, torn}
        /\ UNCHANGED <<log, end, committed, joined, stored, mishaps>>
    BY <1>4 DEF Receive
  <2>2. pos' \in 0..end' /\ committed' \in -1..pos' /\ buf' \subseteq 1..pos'
    BY <2>1
  <2>3. OffsetInv'
    BY <2>1, <2>2
  <2>4. BufferInv'
    BY <1>4 DEF Receive
  <2>5. QED
    BY <2>3, <2>4
<1>5. CASE FlushDue
  <2>1. stored' \in [Offset -> Nat]
    BY <1>5, StoredRows DEF FlushDue
  <2>2. QED
    BY <1>5, <2>1 DEF FlushDue
<1>6. CASE FinalFlush
  <2>1. stored' \in [Offset -> Nat]
    BY <1>6, StoredRows DEF FinalFlush
  <2>2. mishaps' \in Nat
    BY <1>6 DEF FinalFlush, Lose
  <2>3. /\ UNCHANGED <<log, end, pos, committed, joined>>
        /\ buf' = {} /\ torn' = FALSE
    BY <1>6 DEF FinalFlush, Lose
  <2>4. QED
    BY <2>1, <2>2, <2>3
<1>7. CASE StopConsumer
  <2>1. /\ UNCHANGED <<log, end, pos, joined, buf, torn, stored, mishaps>>
        /\ committed' = pos /\ ipc = "stop" /\ ipc' = "dead"
    BY <1>7 DEF StopConsumer
  <2>2. OffsetInv'
    BY <2>1
  <2>3. BufferInv'
    BY <2>1
  <2>4. QED
    BY <2>2, <2>3
<1>8. CASE KillIngestor
  <2>1. /\ UNCHANGED <<log, end, pos, committed, joined, stored>>
        /\ buf' = {} /\ torn' = FALSE /\ mishaps' = mishaps + 1
    BY <1>8 DEF KillIngestor, Lose
  <2>2. mishaps' \in Nat
    BY <2>1
  <2>3. QED
    BY <2>1, <2>2
<1>9. QED
  BY IngestNext, <1>1, <1>2, <1>3, <1>4, <1>5, <1>6, <1>7, <1>8 DEF IngestNext

\* The values of Init that matter here.
LEMMA InitValues ==
  ASSUME Init
  PROVE  /\ end = 0 /\ pos = 0 /\ joined = 0 /\ mishaps = 0
         /\ committed = -1 /\ ipc = "off" /\ buf = {} /\ torn = FALSE
         /\ log = [o \in Offset |-> NoMessage]
         /\ stored = [o \in Offset |-> 0]
BY DEF Init, TopicInit, IngestInit, None

LEMMA InitOffsets == Init => OffsetInv /\ BufferInv
<1> SUFFICES ASSUME Init
             PROVE  OffsetInv /\ BufferInv
  OBVIOUS
<1>1. OffsetInv
  BY InitValues DEF OffsetInv
<1>2. BufferInv
  BY InitValues DEF BufferInv
<1>3. QED
  BY <1>1, <1>2

LEMMA OffsetsInvariant == Spec => [](OffsetInv /\ BufferInv)
<1>1. OffsetInv /\ BufferInv /\ [Next]_vars => (OffsetInv /\ BufferInv)'
  <2> SUFFICES ASSUME OffsetInv, BufferInv, [Next]_vars
               PROVE  OffsetInv' /\ BufferInv'
    OBVIOUS
  <2>1. CASE IngestNext
    BY <2>1, IngestOffsets
  <2>2. CASE ~IngestNext
    <3>1. OffsetInv' /\ UNCHANGED ingestVars
      BY <2>2, OtherStep DEF Next
    <3>2. QED
      BY <3>1 DEF BufferInv, ingestVars
  <2>3. QED
    BY <2>1, <2>2
<1>2. QED
  BY InitOffsets, <1>1, PTL DEF Spec

-----------------------------------------------------------------------------
(* DuplicateBound: a row that may still be stored, because its message will   *)
(* be read or is in the buffer, is one mishap behind.                         *)

Ahead(o) ==
  \/ o \in buf
  \/ ipc \in Working /\ o > pos
  \/ ipc \notin Working /\ o > committed

DuplicateInv ==
  \A o \in Offset : /\ stored[o] <= 1 + mishaps
                    /\ Ahead(o) => stored[o] <= mishaps

LEMMA DuplicateStep ==
  ASSUME TopicAssumption, OffsetInv, BufferInv, DuplicateInv, IngestNext
  PROVE  DuplicateInv'
<1> SUFFICES ASSUME NEW o \in Offset
             PROVE  /\ stored'[o] <= 1 + mishaps'
                    /\ Ahead(o)' => stored'[o] <= mishaps'
  BY DEF DuplicateInv
<1>0. /\ stored[o] \in Nat /\ mishaps \in Nat /\ o \in Nat /\ o >= 1
      /\ stored[o] <= 1 + mishaps
      /\ Ahead(o) => stored[o] <= mishaps
  BY DEF OffsetInv, DuplicateInv, TopicAssumption
<1> USE DEF Goto, Working
<1>1. CASE StartIngestor \/ WaitForTable
  BY <1>0, <1>1 DEF StartIngestor, WaitForTable, Ahead
<1>2. CASE Join
  BY <1>0, <1>2 DEF Join, Ahead, None, OffsetInv
<1>3. CASE AutoCommit \/ Interrupt
  BY <1>0, <1>3 DEF AutoCommit, Interrupt, Ahead
<1>4. CASE Receive
  BY <1>0, <1>4 DEF Receive, Ahead, OffsetInv
<1>5. CASE FlushDue
  <2>1. \/ stored'[o] = stored[o] /\ Ahead(o)' = Ahead(o) /\ mishaps' = mishaps
        \/ /\ stored'[o] = Stored[o] /\ mishaps' = mishaps
           /\ Ahead(o)' => Ahead(o) /\ o \notin buf
        \/ stored'[o] \in {stored[o], Stored[o]} /\ mishaps' = mishaps + 1
    BY <1>5 DEF FlushDue, Ahead, OffsetInv
  <2>2. Stored[o] = IF o \in buf THEN stored[o] + 1 ELSE stored[o]
    BY StoredRows
  <2>3. o \in buf => Ahead(o)
    BY DEF Ahead
  <2>4. QED
    BY <1>0, <2>1, <2>2, <2>3
<1>6. CASE FinalFlush
  <2>1. \/ /\ stored'[o] = Stored[o] /\ mishaps' = mishaps
           /\ Ahead(o)' => Ahead(o) /\ o \notin buf
        \/ stored'[o] = stored[o] /\ mishaps' = mishaps + 1
        \/ stored'[o] \in {stored[o], Stored[o]} /\ mishaps' = mishaps + 1
    BY <1>6 DEF FinalFlush, Lose, Ahead, OffsetInv
  <2>2. Stored[o] = IF o \in buf THEN stored[o] + 1 ELSE stored[o]
    BY StoredRows
  <2>3. o \in buf => Ahead(o)
    BY DEF Ahead
  <2>4. mishaps' = mishaps + 1 => stored'[o] <= mishaps'
    BY <1>0, <2>1, <2>2, <2>3
  <2>5. QED
    BY <1>0, <2>1, <2>2, <2>3, <2>4
<1>7. CASE StopConsumer
  BY <1>0, <1>7 DEF StopConsumer, Ahead
<1>8. CASE KillIngestor
  <2>1. stored'[o] = stored[o] /\ mishaps' = mishaps + 1
    BY <1>8 DEF KillIngestor, Lose
  <2>2. QED
    BY <1>0, <2>1
<1>9. QED
  BY IngestNext, <1>1, <1>2, <1>3, <1>4, <1>5, <1>6, <1>7, <1>8 DEF IngestNext

\* Commits and flushes are not coordinated, but a row is stored twice only when
\* an end without a commit or a failed append lies between.
THEOREM DuplicateBoundHolds == Spec => []DuplicateBound
<1>1. Init => DuplicateInv
  <2>1. 0 <= 1 + 0 /\ 0 <= 0
    OBVIOUS
  <2>2. ASSUME Init, NEW o \in Offset
        PROVE  stored[o] = 0 /\ mishaps = 0
    BY <2>2, InitValues
  <2>3. QED
    BY <2>1, <2>2, Zenon DEF DuplicateInv
<1>2. OffsetInv /\ BufferInv /\ DuplicateInv /\ [Next]_vars => DuplicateInv'
  <2> SUFFICES ASSUME OffsetInv, BufferInv, DuplicateInv, [Next]_vars
               PROVE  DuplicateInv'
    OBVIOUS
  <2>1. CASE IngestNext
    BY <2>1, DuplicateStep, TopicAssumption
  <2>2. CASE ~IngestNext
    <3>1. UNCHANGED ingestVars
      BY <2>2, OtherStep DEF Next
    <3>2. QED
      BY <3>1 DEF DuplicateInv, Ahead, ingestVars
  <2>3. QED
    BY <2>1, <2>2
<1>3. DuplicateInv => DuplicateBound
  BY DEF DuplicateInv, DuplicateBound
<1>4. QED
  BY <1>1, <1>2, <1>3, OffsetsInvariant, PTL DEF Spec

-----------------------------------------------------------------------------
(* TornNotPassed: the position is behind a torn message only on the way out.  *)

Torn(o) == o <= end /\ log[o].fit = "torn" /\ o > joined

TornInv ==
  \A o \in Offset : Torn(o) =>
    /\ o > committed
    /\ ipc \in Working /\ ~torn => o > pos

LEMMA TornStep ==
  ASSUME TopicAssumption, OffsetInv, BufferInv, TornInv, IngestNext
  PROVE  TornInv'
<1> SUFFICES ASSUME NEW o \in Offset, Torn(o)'
             PROVE  /\ o > committed'
                    /\ ipc' \in Working /\ ~torn' => o > pos'
  BY DEF TornInv
<1>0. /\ o \in Nat /\ o >= 1 /\ end' = end /\ log' = log
      /\ o <= end /\ log[o].fit = "torn"
  BY IngestNext DEF TopicAssumption, Torn, IngestNext, Goto, topicVars, StartIngestor,
     WaitForTable, Join, AutoCommit, Receive, FlushDue, Interrupt, FinalFlush,
     StopConsumer, KillIngestor
<1>1. joined' = joined => /\ o > committed
                          /\ ipc \in Working /\ ~torn => o > pos
  BY <1>0 DEF Torn, TornInv
<1> USE DEF Goto, Working
<1>2. CASE StartIngestor \/ WaitForTable
  BY <1>1, <1>2 DEF StartIngestor, WaitForTable
<1>3. CASE Join
  BY <1>0, <1>1, <1>3 DEF Join, None, Torn, OffsetInv
<1>4. CASE AutoCommit \/ Interrupt
  BY <1>1, <1>4 DEF AutoCommit, Interrupt, BufferInv
<1>5. CASE Receive
  <2>1. o > committed' /\ o > pos
    BY <1>1, <1>5 DEF Receive, BufferInv
  <2>2. ~torn' => o # pos + 1
    BY <1>0, <1>5 DEF Receive, BufferInv
  <2>3. QED
    BY <1>0, <1>5, <2>1, <2>2 DEF Receive, OffsetInv
<1>6. CASE FlushDue
  BY <1>1, <1>6 DEF FlushDue, BufferInv
<1>7. CASE FinalFlush
  BY <1>1, <1>7 DEF FinalFlush, Lose
<1>8. CASE StopConsumer
  BY <1>1, <1>8 DEF StopConsumer, BufferInv
<1>9. CASE KillIngestor
  BY <1>1, <1>9 DEF KillIngestor
<1>10. QED
  BY IngestNext, <1>2, <1>3, <1>4, <1>5, <1>6, <1>7, <1>8, <1>9 DEF IngestNext

\* A message that leaves the buffer torn is never committed, so that every
\* later start meets it again.
THEOREM TornNotPassedHolds == Spec => []TornNotPassed
<1>1. Init => TornInv
  BY InitValues, TopicAssumption DEF TornInv, Torn, TopicAssumption
<1>2. OffsetInv /\ BufferInv /\ TornInv /\ [Next]_vars => TornInv'
  <2> SUFFICES ASSUME OffsetInv, BufferInv, TornInv, [Next]_vars
               PROVE  TornInv'
    OBVIOUS
  <2>1. CASE IngestNext
    BY <2>1, TornStep, TopicAssumption
  <2>2. CASE ~IngestNext
    <3>1. /\ UNCHANGED ingestVars /\ end' >= end
          /\ \A o \in 1..end : log'[o] = log[o]
      BY <2>2, OtherStep DEF Next
    <3>2. ASSUME NEW o \in Offset, Torn(o)'
          PROVE  o > committed /\ (ipc \in Working /\ ~torn => o > pos)
      <4>1. o \in Nat /\ o >= 1 /\ o > joined
        BY <3>1, <3>2, TopicAssumption DEF TopicAssumption, Torn, ingestVars
      <4>2. CASE o <= end
        <5>1. Torn(o)
          BY <3>1, <3>2, <4>1, <4>2 DEF Torn, OffsetInv
        <5>2. QED
          BY <5>1 DEF TornInv
      <4>3. CASE o > end
        BY <4>1, <4>3 DEF OffsetInv
      <4>4. QED
        BY <4>1, <4>2, <4>3 DEF OffsetInv
    <3>3. UNCHANGED <<committed, ipc, torn, pos>>
      BY <3>1 DEF ingestVars
    <3>4. QED
      BY <3>2, <3>3 DEF TornInv
  <2>3. QED
    BY <2>1, <2>2
<1>3. OffsetInv /\ TornInv => TornNotPassed
  <2> SUFFICES ASSUME OffsetInv, TornInv, NEW o \in 1..end,
                      log[o].fit = "torn", o <= committed
               PROVE  o <= joined
    BY DEF TornNotPassed
  <2>1. o \in Offset
    BY DEF OffsetInv
  <2>2. ~Torn(o)
    BY <2>1 DEF TornInv, OffsetInv
  <2>3. QED
    BY <2>2 DEF Torn, OffsetInv
<1>4. QED
  BY <1>1, <1>2, <1>3, OffsetsInvariant, PTL DEF Spec

-----------------------------------------------------------------------------
(* ExactlyOnce: while nothing goes wrong, nothing behind the position has been *)
(* stored, and an ingestor that ended has committed its position.              *)

OnceInv ==
  mishaps = 0 =>
    /\ \A o \in Offset : o > pos => stored[o] = 0
    /\ \A o \in Offset :
         joined < o /\ o <= pos /\ log[o].fit = "row" =>
           stored[o] = IF o \in buf THEN 0 ELSE 1
    /\ ipc \notin Working =>
         \/ committed = pos
         \/ committed = -1 /\ \A o \in Offset : stored[o] = 0

LEMMA OnceStep ==
  ASSUME TopicAssumption, OffsetInv, BufferInv, OnceInv, IngestNext
  PROVE  OnceInv'
<1> SUFFICES ASSUME mishaps' = 0
             PROVE  OnceInv'
  BY DEF OnceInv
<1>0. /\ log' = log /\ end' = end /\ mishaps = 0
      /\ \A o \in Offset : o \in Nat /\ o >= 1
  <2>1. log' = log /\ end' = end
    BY IngestNext DEF IngestNext, Goto, topicVars, StartIngestor, WaitForTable, Join,
       AutoCommit, Receive, FlushDue, Interrupt, FinalFlush, StopConsumer, KillIngestor
  <2>2. mishaps' \in {mishaps, mishaps + 1}
    BY IngestNext DEF IngestNext, StartIngestor, WaitForTable, Join, AutoCommit,
       Receive, FlushDue, Interrupt, FinalFlush, StopConsumer, KillIngestor, Lose
  <2>3. mishaps = 0
    BY <2>2 DEF OffsetInv
  <2>4. QED
    BY <2>1, <2>3, TopicAssumption DEF TopicAssumption
<1>1. /\ \A o \in Offset : o > pos => stored[o] = 0
      /\ \A o \in Offset :
           joined < o /\ o <= pos /\ log[o].fit = "row" =>
             stored[o] = IF o \in buf THEN 0 ELSE 1
      /\ ipc \notin Working =>
           \/ committed = pos
           \/ committed = -1 /\ \A o \in Offset : stored[o] = 0
  BY <1>0 DEF OnceInv
<1> USE DEF OnceInv, Goto, Working
<1>2. CASE StartIngestor \/ WaitForTable
  BY <1>0, <1>1, <1>2 DEF StartIngestor, WaitForTable
<1>3. CASE Join
  <2>1. CASE committed = -1 /\ \A o \in Offset : stored[o] = 0
    BY <1>0, <1>3, <2>1 DEF Join, None, OffsetInv
  <2>2. CASE committed = pos
    BY <1>0, <1>1, <1>3, <2>2 DEF Join, None, OffsetInv
  <2>3. QED
    BY <1>1, <1>3, <2>1, <2>2 DEF Join
<1>4. CASE AutoCommit \/ Interrupt
  BY <1>0, <1>1, <1>4 DEF AutoCommit, Interrupt
<1>5. CASE Receive
  <2>1. /\ UNCHANGED <<stored, joined>> /\ pos' = pos + 1
        /\ ipc' \in {"appended", "final"}
        /\ IF log[pos + 1].fit = "row" THEN buf' = buf \cup {pos + 1}
                                       ELSE buf' = buf
    BY <1>5 DEF Receive
  <2>2. pos + 1 \notin buf /\ pos \in Nat
    BY DEF OffsetInv
  <2>3. ASSUME NEW o \in Offset, o > pos'
        PROVE  stored'[o] = 0
    BY <1>0, <1>1, <2>1, <2>2, <2>3
  <2>4. ASSUME NEW o \in Offset, joined < o, o <= pos', log[o].fit = "row"
        PROVE  stored'[o] = IF o \in buf' THEN 0 ELSE 1
    <3>1. CASE o = pos + 1
      BY <1>0, <1>1, <2>1, <2>2, <2>4, <3>1
    <3>2. CASE o <= pos
      BY <1>0, <1>1, <2>1, <2>2, <2>4, <3>2
    <3>3. QED
      BY <1>0, <2>1, <2>2, <2>4, <3>1, <3>2
  <2>5. QED
    BY <1>0, <2>1, <2>3, <2>4
<1>6. ASSUME stored' = Stored, buf' = {}, pos' = pos, joined' = joined,
             ipc' \in {"wait", "stop"}
      PROVE  OnceInv'
  <2>1. \A o \in Offset : Stored[o] = IF o \in buf THEN stored[o] + 1 ELSE stored[o]
    BY StoredRows
  <2>2. \A o \in Offset : o > pos => o \notin buf
    BY <1>0 DEF OffsetInv
  <2>3. ASSUME NEW o \in Offset, o > pos'
        PROVE  stored'[o] = 0
    BY <1>1, <1>6, <2>1, <2>2, <2>3
  <2>4. ASSUME NEW o \in Offset, joined < o, o <= pos, log[o].fit = "row"
        PROVE  stored'[o] = 1
    BY <1>1, <1>6, <2>1, <2>4
  <2>5. QED
    BY <1>0, <1>6, <2>3, <2>4
<1>7. CASE FlushDue
  <2>1. \/ UNCHANGED <<buf, stored, pos, joined>> /\ ipc' = "wait"
        \/ /\ stored' = Stored /\ buf' = {} /\ UNCHANGED <<pos, joined>>
           /\ ipc' = "wait"
        \/ mishaps' = mishaps + 1
    BY <1>7 DEF FlushDue
  <2>2. QED
    BY <1>0, <1>1, <1>6, <2>1
<1>8. CASE FinalFlush
  <2>1. \/ /\ stored' = Stored /\ buf' = {} /\ UNCHANGED <<pos, joined>>
           /\ ipc' = "stop"
        \/ mishaps' = mishaps + 1
    BY <1>8 DEF FinalFlush, Lose
  <2>2. QED
    BY <1>0, <1>6, <2>1
<1>9. CASE StopConsumer
  BY <1>0, <1>1, <1>9 DEF StopConsumer
<1>10. CASE KillIngestor
  BY <1>0, <1>10 DEF KillIngestor, Lose
<1>11. QED
  BY IngestNext, <1>2, <1>3, <1>4, <1>5, <1>7, <1>8, <1>9, <1>10 DEF IngestNext

\* As long as every end commits and no append raises, each row read since the
\* group joined is in the table once, or in the buffer.
THEOREM ExactlyOnceHolds == Spec => []ExactlyOnce
<1>1. Init => OnceInv
  <2> SUFFICES ASSUME Init
               PROVE  OnceInv
    OBVIOUS
  <2>1. \A o \in Offset : stored[o] = 0
    BY InitValues
  <2>2. \A o \in Offset : ~(joined < o /\ o <= pos)
    <3>1. joined = 0 /\ pos = 0
      BY InitValues
    <3>2. \A o \in Offset : o \in Nat \ {0}
      BY TopicAssumption DEF TopicAssumption
    <3>3. \A o \in Nat \ {0} : ~(0 < o /\ o <= 0)
      OBVIOUS
    <3>4. QED
      BY <3>1, <3>2, <3>3, Zenon
  <2>3. committed = -1
    BY InitValues
  <2>4. QED
    BY <2>1, <2>2, <2>3 DEF OnceInv
<1>2. OffsetInv /\ BufferInv /\ OnceInv /\ [Next]_vars => OnceInv'
  <2> SUFFICES ASSUME OffsetInv, BufferInv, OnceInv, [Next]_vars
               PROVE  OnceInv'
    OBVIOUS
  <2>1. CASE IngestNext
    BY <2>1, OnceStep, TopicAssumption
  <2>2. CASE ~IngestNext
    <3>1. UNCHANGED ingestVars /\ \A o \in 1..end : log'[o] = log[o]
      BY <2>2, OtherStep DEF Next
    <3>2. \A o \in Offset : o <= pos => log'[o] = log[o]
      BY <3>1, TopicAssumption DEF OffsetInv, TopicAssumption
    <3>3. UNCHANGED <<ipc, pos, committed, buf, stored, joined, mishaps>>
      BY <3>1 DEF ingestVars
    <3>4. QED
      BY <3>2, <3>3 DEF OnceInv
  <2>3. QED
    BY <2>1, <2>2
<1>3. OffsetInv /\ OnceInv => ExactlyOnce
  <2> SUFFICES ASSUME OffsetInv, OnceInv, mishaps = 0,
                      NEW o \in (joined + 1)..pos, log[o].fit = "row"
               PROVE  stored[o] = IF o \in buf THEN 0 ELSE 1
    BY DEF ExactlyOnce
  <2>1. o \in Offset /\ joined < o /\ o <= pos
    BY DEF OffsetInv
  <2>2. QED
    BY <2>1 DEF OnceInv
<1>4. QED
  BY <1>1, <1>2, <1>3, OffsetsInvariant, PTL DEF Spec

-----------------------------------------------------------------------------
(* The groups of a recording.                                                *)

Below(S, x) == {y \in S : y < x}

\* The members of a finite set of numbers have the ranks from 0 on.
LEMMA Ranks ==
  ASSUME NEW S \in SUBSET Nat, IsFiniteSet(S)
  PROVE  /\ \A x \in S : Cardinality(Below(S, x)) \in 0..(Cardinality(S) - 1)
         /\ \A x, y \in S : x < y => Cardinality(Below(S, x)) < Cardinality(Below(S, y))
         /\ \A r \in 0..(Cardinality(S) - 1) : \E x \in S : Cardinality(Below(S, x)) = r
<1> DEFINE n == Cardinality(S)
           f == [x \in S |-> Cardinality(Below(S, x))]
<1>1. n \in Nat
  BY FS_CardinalityType
<1>2. \A x \in S : IsFiniteSet(Below(S, x)) /\ Cardinality(Below(S, x)) \in Nat
  BY FS_Subset, FS_CardinalityType DEF Below
<1>3. ASSUME NEW x \in S, NEW T, T \in SUBSET S, IsFiniteSet(T),
             Below(S, x) \cup {x} \subseteq T
      PROVE  Cardinality(Below(S, x)) < Cardinality(T)
  <2>1. x \notin Below(S, x)
    BY DEF Below
  <2>2. /\ IsFiniteSet(Below(S, x) \cup {x})
        /\ Cardinality(Below(S, x) \cup {x}) = Cardinality(Below(S, x)) + 1
    BY <1>2, <2>1, FS_AddElement
  <2>3. Cardinality(Below(S, x) \cup {x}) <= Cardinality(T)
    BY <1>3, FS_Subset
  <2>4. Cardinality(T) \in Nat
    BY <1>3, FS_CardinalityType
  <2>5. QED
    BY <1>2, <2>2, <2>3, <2>4
<1>4. \A x \in S : Cardinality(Below(S, x)) < n
  BY <1>3 DEF Below
<1>5. \A x, y \in S : x < y => Cardinality(Below(S, x)) < Cardinality(Below(S, y))
  <2> SUFFICES ASSUME NEW x \in S, NEW y \in S, x < y
               PROVE  Cardinality(Below(S, x)) < Cardinality(Below(S, y))
    OBVIOUS
  <2>1. Below(S, x) \cup {x} \subseteq Below(S, y)
    <3>1. \A z \in S : z \in Nat
      OBVIOUS
    <3>2. \A z \in S : z < x => z < y
      BY <3>1
    <3>3. QED
      BY <3>2 DEF Below
  <2>2. Below(S, y) \in SUBSET S /\ IsFiniteSet(Below(S, y))
    BY <1>2 DEF Below
  <2>3. QED
    BY <1>3, <2>1, <2>2
<1>6. f \in Injection(S, 0..(n - 1))
  <2>1. \A x \in S : f[x] \in 0..(n - 1)
    BY <1>1, <1>2, <1>4
  <2>2. f \in [S -> 0..(n - 1)]
    BY <2>1
  <2>3. \A x, y \in S : f[x] = f[y] => x = y
    BY <1>2, <1>5
  <2>4. QED
    BY <2>2, <2>3 DEF Injection, IsInjective
<1>7. IsFiniteSet(0..(n - 1)) /\ Cardinality(0..(n - 1)) = n
  <2>1. 0 \in Int /\ n - 1 \in Int /\ (n - 1) - 0 + 1 = n /\ (0 > n - 1 => n = 0)
    BY <1>1
  <2> HIDE DEF n
  <2>2. QED
    BY <2>1, FS_Interval
<1>8. f \in Surjection(S, 0..(n - 1))
  BY <1>6, <1>7, FS_Injection
<1>9. \A r \in 0..(n - 1) : \E x \in S : f[x] = r
  BY <1>8 DEF Surjection
<1>10. QED
  BY <1>1, <1>2, <1>4, <1>5, <1>9

\* Ascending enumerates a set of numbers, each smaller than the next.
LEMMA AscendingEnumerates ==
  ASSUME NEW S \in SUBSET Nat, IsFiniteSet(S)
  PROVE  /\ Cardinality(S) \in Nat
         /\ Ascending(S) \in [1..Cardinality(S) -> S]
         /\ \A j, k \in 1..Cardinality(S) : j < k => Ascending(S)[j] < Ascending(S)[k]
         /\ \A x \in S : \E k \in 1..Cardinality(S) : Ascending(S)[k] = x
<1> DEFINE n == Cardinality(S)
           a == Ascending(S)
<1>1. n \in Nat
  BY FS_CardinalityType
<1>2. \A k \in 1..n : a[k] \in S /\ Cardinality(Below(S, a[k])) = k - 1
  <2> SUFFICES ASSUME NEW k \in 1..n
               PROVE  a[k] \in S /\ Cardinality(Below(S, a[k])) = k - 1
    OBVIOUS
  <2>1. k - 1 \in 0..(n - 1)
    BY <1>1
  <2>2. \E x \in S : Cardinality(Below(S, x)) = k - 1
    BY <2>1, Ranks
  <2>3. a[k] = CHOOSE x \in S : Cardinality(Below(S, x)) = k - 1
    BY DEF Ascending, Below
  <2>4. QED
    BY <2>2, <2>3
<1>3. DOMAIN a = 1..n /\ a = [k \in 1..n |-> a[k]]
  BY DEF Ascending
<1> HIDE DEF a
<1>4. a \in [1..n -> S]
  BY <1>2, <1>3
<1>5. \A j, k \in 1..n : j < k => a[j] < a[k]
  <2> SUFFICES ASSUME NEW j \in 1..n, NEW k \in 1..n, j < k, ~(a[j] < a[k])
               PROVE  FALSE
    OBVIOUS
  <2>1. a[j] \in Nat /\ a[k] \in Nat
    BY <1>2
  <2>2. a[k] < a[j] => Cardinality(Below(S, a[k])) < Cardinality(Below(S, a[j]))
    BY <1>2, Ranks
  <2>3. Cardinality(Below(S, a[j])) = j - 1 /\ Cardinality(Below(S, a[k])) = k - 1
    BY <1>2
  <2>4. a[k] # a[j]
    BY <2>3
  <2>5. Cardinality(Below(S, a[k])) > Cardinality(Below(S, a[j]))
    BY <1>1, <2>3
  <2>6. QED
    BY <2>1, <2>2, <2>3, <2>4, <2>5
<1>6. ASSUME NEW x \in S
      PROVE  \E k \in 1..n : a[k] = x
  <2> DEFINE r == Cardinality(Below(S, x))
  <2>1. r \in 0..(n - 1)
    BY Ranks
  <2>2. r + 1 \in 1..n
    BY <1>1, <2>1
  <2>3. a[r + 1] \in S /\ Cardinality(Below(S, a[r + 1])) = r
    BY <1>2, <2>1, <2>2
  <2>4. a[r + 1] < x => Cardinality(Below(S, a[r + 1])) < r
    BY <2>3, Ranks
  <2>5. x < a[r + 1] => r < Cardinality(Below(S, a[r + 1]))
    BY <2>3, Ranks
  <2>6. a[r + 1] = x
    <3>1. a[r + 1] \in Nat /\ x \in Nat
      BY <2>3
    <3>2. ~(a[r + 1] < x) /\ ~(x < a[r + 1])
      BY <2>1, <2>3, <2>4, <2>5
    <3>3. QED
      BY <3>1, <3>2
  <2>7. QED
    BY <2>2, <2>6
<1>7. QED
  BY <1>1, <1>4, <1>5, <1>6 DEF a

\* A table as it is loaded: at least one row, each with a ts.
Loadable(rows) ==
  \E n \in Nat \ {0} :
    /\ DOMAIN rows = 1..n
    /\ \A i \in 1..n : rows[i].ts \in Nat

\* The groups a producer replays: at least one, in the order of ts, each with
\* rows of its own ts.
Replayable(groups) ==
  /\ Len(groups) \in Nat \ {0}
  /\ DOMAIN groups = 1..Len(groups)
  /\ \A g \in DOMAIN groups :
       /\ groups[g].ts \in Nat
       /\ Len(groups[g].rows) \in Nat
       /\ DOMAIN groups[g].rows = 1..Len(groups[g].rows)
       /\ \A k \in DOMAIN groups[g].rows : groups[g].rows[k].ts = groups[g].ts
  /\ \A g, h \in DOMAIN groups : g < h => groups[g].ts < groups[h].ts

\* A batch holds the rows of one ts, each once and in the order of the table.
InScanOrder(rows, t, batch) ==
  \E at \in [DOMAIN batch -> {i \in DOMAIN rows : rows[i].ts = t}] :
    /\ \A j, k \in DOMAIN batch : j < k => at[j] < at[k]
    /\ \A i \in DOMAIN rows : rows[i].ts = t => \E k \in DOMAIN batch : at[k] = i
    /\ \A k \in DOMAIN batch : batch[k] = rows[at[k]]

LEMMA LenOfFunction ==
  ASSUME NEW f, NEW n \in Nat, f = [i \in 1..n |-> f[i]]
  PROVE  Len(f) = n
<1>1. f \in Seq({f[i] : i \in 1..n})
  OBVIOUS
<1>2. QED
  BY <1>1

LEMMA RowsOfGroup ==
  ASSUME NEW rows, NEW t, Loadable(rows)
  PROVE  /\ Len(RowsAt(rows, t)) \in Nat
         /\ DOMAIN RowsAt(rows, t) = 1..Len(RowsAt(rows, t))
         /\ \A k \in DOMAIN RowsAt(rows, t) : RowsAt(rows, t)[k].ts = t
         /\ InScanOrder(rows, t, RowsAt(rows, t))
<1>1. PICK n \in Nat \ {0} : DOMAIN rows = 1..n
  BY DEF Loadable
<1> DEFINE S == {i \in DOMAIN rows : rows[i].ts = t}
           m == Cardinality(S)
           f == RowsAt(rows, t)
<1>2. S \in SUBSET Nat /\ IsFiniteSet(S)
  <2>1. S \in SUBSET (1..n) /\ S \in SUBSET Nat
    BY <1>1
  <2>2. IsFiniteSet(1..n)
    BY FS_Interval
  <2>3. QED
    BY <2>1, <2>2, FS_Subset
<1>3. /\ m \in Nat /\ Ascending(S) \in [1..m -> S]
      /\ \A j, k \in 1..m : j < k => Ascending(S)[j] < Ascending(S)[k]
      /\ \A i \in S : \E k \in 1..m : Ascending(S)[k] = i
  BY <1>2, AscendingEnumerates
<1>4. f = [k \in 1..m |-> rows[Ascending(S)[k]]]
  <2>1. f = [k \in DOMAIN Ascending(S) |-> rows[Ascending(S)[k]]]
    BY DEF RowsAt
  <2>2. DOMAIN Ascending(S) = 1..m
    BY <1>3
  <2>3. QED
    BY <2>1, <2>2
<1>5. \A k \in 1..m : Ascending(S)[k] \in S
  BY <1>3
<1> HIDE DEF f, m
<1>6. DOMAIN f = 1..m /\ \A k \in 1..m : f[k] = rows[Ascending(S)[k]]
  BY <1>4
<1>7. \A k \in 1..m : f[k].ts = t
  BY <1>5, <1>6
<1>8. Len(f) = m
  <2>1. f = [i \in 1..m |-> f[i]]
    BY <1>4
  <2>2. QED
    BY <1>3, <2>1, LenOfFunction
<1>9. InScanOrder(rows, t, f)
  BY <1>3, <1>6 DEF InScanOrder
<1>10. QED
  BY <1>3, <1>6, <1>7, <1>8, <1>9 DEF f

\* group_by_ts: the groups come in the order of ts, whatever the order of the
\* rows in the table, each holds the rows of its ts in the order of the table,
\* and every row is in one of them.
THEOREM GroupByTsCorrect ==
  ASSUME NEW rows, Loadable(rows)
  PROVE  /\ Replayable(GroupByTs(rows))
         /\ \A g \in DOMAIN GroupByTs(rows) :
              InScanOrder(rows, GroupByTs(rows)[g].ts, GroupByTs(rows)[g].rows)
         /\ \A i \in DOMAIN rows :
              \E g \in DOMAIN GroupByTs(rows) : GroupByTs(rows)[g].ts = rows[i].ts
<1>1. PICK n \in Nat \ {0} : DOMAIN rows = 1..n /\ \A i \in 1..n : rows[i].ts \in Nat
  BY DEF Loadable
<1> DEFINE S == {rows[i].ts : i \in DOMAIN rows}
           m == Cardinality(S)
           G == GroupByTs(rows)
<1>2. S \in SUBSET Nat /\ IsFiniteSet(S) /\ S # {}
  <2>1. S \in SUBSET Nat /\ rows[1].ts \in S
    BY <1>1
  <2> DEFINE f == [i \in 1..n |-> rows[i].ts]
  <2>2. f \in Surjection(1..n, S)
    BY <1>1 DEF Surjection
  <2>3. IsFiniteSet(1..n)
    BY FS_Interval
  <2>4. IsFiniteSet(S)
    BY <2>2, <2>3, FS_Surjection
  <2>5. QED
    BY <2>1, <2>4
<1>3. /\ m \in Nat \ {0} /\ Ascending(S) \in [1..m -> S]
      /\ \A j, k \in 1..m : j < k => Ascending(S)[j] < Ascending(S)[k]
      /\ \A t \in S : \E k \in 1..m : Ascending(S)[k] = t
      /\ \A i \in DOMAIN rows : rows[i].ts \in S
  BY <1>2, AscendingEnumerates, FS_EmptySet
<1>4. G = [k \in 1..m |-> [ts |-> Ascending(S)[k], rows |-> RowsAt(rows, Ascending(S)[k])]]
  BY <1>3 DEF GroupByTs
<1> HIDE DEF S, m
<1>5. DOMAIN G = 1..m /\ G = [k \in 1..m |-> G[k]]
  BY <1>4
<1>6. ASSUME NEW k \in 1..m
      PROVE  G[k].ts = Ascending(S)[k] /\ G[k].rows = RowsAt(rows, Ascending(S)[k])
  BY <1>4
<1> HIDE DEF G
<1>7. Len(G) = m
  BY <1>3, <1>5, LenOfFunction
<1>8. \A k \in 1..m : G[k].ts \in Nat
  BY <1>2, <1>3, <1>6
<1>9. \A g \in 1..m : /\ Len(G[g].rows) \in Nat
                      /\ DOMAIN G[g].rows = 1..Len(G[g].rows)
                      /\ \A k \in DOMAIN G[g].rows : G[g].rows[k].ts = G[g].ts
                      /\ InScanOrder(rows, G[g].ts, G[g].rows)
  BY <1>6, RowsOfGroup
<1>10. \A g, h \in 1..m : g < h => G[g].ts < G[h].ts
  BY <1>3, <1>6
<1>11. Replayable(G)
  BY <1>3, <1>5, <1>7, <1>8, <1>9, <1>10 DEF Replayable
<1>12. \A i \in DOMAIN rows : \E g \in DOMAIN G : G[g].ts = rows[i].ts
  BY <1>3, <1>5, <1>6
<1>13. QED
  BY <1>5, <1>9, <1>11, <1>12 DEF G

LEMMA RecordingsReplayable ==
  /\ Len(SeedRows) \in Nat \ {0}
  /\ \A n \in Topic : Replayable(Recordings[n])
<1>1. /\ DOMAIN SeedRows = 1..(Duration * Len(Box))
      /\ Duration * Len(Box) \in Nat \ {0}
      /\ \A i \in DOMAIN SeedRows : SeedRows[i].ts \in Nat
  <2> DEFINE b == Len(Box)
  <2>1. b \in Nat \ {0} /\ Duration \in Nat \ {0}
    BY SourceAssumption
  <2>2. Duration * b \in Nat \ {0}
    BY <2>1
  <2> HIDE DEF b
  <2>3. \A i \in 1..(Duration * b) : (i - 1) \div b \in Nat
    BY <2>1, <2>2
  <2>4. QED
    BY <2>2, <2>3 DEF SeedRows, b
<1>2. Len(SeedRows) = Duration * Len(Box)
  BY <1>1, LenOfFunction DEF SeedRows
<1>3. Loadable(SeedRows)
  BY <1>1 DEF Loadable
<1>4. Loadable(NodeEvents)
  BY SourceAssumption DEF Loadable
<1>5. QED
  BY <1>1, <1>2, <1>3, <1>4, GroupByTsCorrect DEF Recordings

-----------------------------------------------------------------------------
(* The pace of a producer.                                                   *)

\* prev_orig_ts while a group is sent, and the pause that follows it.
Before(g) == IF g = 1 THEN Groups[1].ts ELSE Groups[g - 1].ts
Gap(g) == IF g = 1 THEN Interval ELSE Groups[g].ts - Groups[g - 1].ts

\* When a group is sent in a loop, counted from the start of the run.
Start(l, g) ==
  (l - 1) * Period
    + IF g = 1 THEN 0 ELSE Interval + Groups[g - 1].ts - Groups[1].ts

\* The messages of the group being sent.
Pending ==
  [row : {Group.rows[k] : k \in DOMAIN Group.rows}, ts : {clock}, waited : {waited},
   loop : {loop}, run : {run}, fit : {"row"}]

\* Only messages of the current group wait in the client library, and the pause
\* is that of the group just flushed.
ProducerInv ==
  /\ SourceTypeOK
  /\ name \in Topic
  /\ prod = "load" => tries < Retries
  /\ outq \in Seq(Pending)
  /\ prod = "sleep" => /\ outq = <<>> /\ pause = Gap(group)
                        /\ prevTs = Groups[group].ts
  /\ prod # "sleep" => prevTs = Before(group)

\* A message of this run: its group, sent before the one being sent, at the
\* distance the recording gives when the time in flush() is not counted.
InStep(m) ==
  \E g \in DOMAIN Groups :
    /\ m.row.ts = Groups[g].ts
    /\ m.loop < loop \/ (m.loop = loop /\ g <= group)
    /\ (m.ts - m.waited) - Start(m.loop, g) = (clock - waited) - Start(loop, group)

DeliveredInv ==
  \A i \in FromProducer :
    /\ i <= end
    /\ log[i].run \in Nat /\ log[i].run <= run
    /\ {log[i].loop, log[i].ts, log[i].waited} \subseteq Nat
    /\ log[i].run = run => InStep(log[i])

LEMMA GroupFacts ==
  ASSUME name \in Topic
  PROVE  Replayable(Groups)
BY RecordingsReplayable DEF Groups

LEMMA ProducerInit == Init => ProducerInv /\ DeliveredInv
<1> SUFFICES ASSUME Init
             PROVE  ProducerInv /\ DeliveredInv
  OBVIOUS
<1>1. name \in Topic /\ Replayable(Groups)
  BY GroupFacts DEF Init, TopicInit
<1>2. /\ 1 \in DOMAIN Groups /\ Groups[1].ts \in Nat
      /\ 0 \in 0..Len(Groups[1].rows)
  BY <1>1 DEF Replayable
<1>3. SourceTypeOK
  BY <1>2, SourceAssumption DEF Init, SourceInit, SourceTypeOK, SeedPC
<1>4. ProducerInv
  BY <1>1, <1>3, SourceAssumption DEF Init, SourceInit, ProducerInv, Before
<1>5. FromProducer = {}
  BY DEF Init, TopicInit, FromProducer, NoMessage
<1>6. QED
  BY <1>4, <1>5 DEF DeliveredInv

\* The steps that send nothing: the seed job, the loading, the restarts.
Preparing ==
  \/ StartSeed
  \/ SeedStep
  \/ LoadSeedRows
  \/ LoadEventRows
  \/ ExternalEvents
  \/ RestartProducer

LEMMA PreparingStep ==
  ASSUME ProducerInv, Preparing
  PROVE  ProducerInv' /\ UNCHANGED <<sendVars, log, end, name>>
<1>1. UNCHANGED <<sendVars, log, end, name>>
  BY DEF Preparing, StartSeed, SeedStep, WaitForCatalog, SeedMetrics, FillMetrics,
     SeedEvents, FillEvents, CheckTable, FillTable, SeedGoto, LoadSeedRows,
     LoadEventRows, ExternalEvents, RestartProducer, topicVars
<1>2. \/ prod' = prod /\ tries' = tries
      \/ /\ prod # "sleep" /\ prod' \in {"load", "send", "down"}
         /\ tries' \in 0..Retries /\ (prod' = "load" => tries' < Retries)
  BY SourceAssumption DEF Preparing, StartSeed, SeedStep, WaitForCatalog, SeedMetrics, FillMetrics,
     SeedEvents, FillEvents, CheckTable, FillTable, SeedGoto, LoadSeedRows,
     LoadEventRows, ExternalEvents, RestartProducer, loadVars, Loaded, LoadFailed,
     ProducerInv, SourceTypeOK
<1>3. seedPc' \in SeedPC /\ seedRuns' \in 0..MaxSeedRuns
  BY SourceAssumption DEF Preparing, StartSeed, SeedStep, WaitForCatalog, SeedMetrics, FillMetrics,
     SeedEvents, FillEvents, CheckTable, FillTable, SeedGoto, LoadSeedRows,
     LoadEventRows, ExternalEvents, RestartProducer, seedVars,
     ProducerInv, SourceTypeOK, SeedPC
<1>4. tables' \in [Table -> Nat \cup {Absent}]
  <2>1. tables \in [Table -> Nat \cup {Absent}]
    BY DEF ProducerInv, SourceTypeOK
  <2>2. \/ tables' = tables
        \/ \E t \in Table, n \in Nat \cup {Absent} : tables' = [tables EXCEPT ![t] = n]
    <3>1. ASSUME NEW t \in Table, NEW from, NEW to, FillTable(t, from, to)
          PROVE  \E n \in Nat \cup {Absent} : tables' = [tables EXCEPT ![t] = n]
      <4>1. Len(SeedRows) \in Nat \ {0} /\ tables[t] \in Nat \cup {Absent}
        BY <2>1, RecordingsReplayable
      <4>2. \E added \in {0, Len(SeedRows)} : tables' = [tables EXCEPT ![t] = @ + added]
        BY <3>1 DEF FillTable
      <4>3. PICK added \in {0, Len(SeedRows)} : tables' = [tables EXCEPT ![t] = tables[t] + added]
        BY <4>2
      <4>4. tables[t] + added \in Nat \cup {Absent}
        BY <4>1 DEF Absent
      <4>5. QED
        BY <4>3, <4>4
    <3>2. ASSUME NEW t \in Table, NEW from, NEW fill, NEW to, CheckTable(t, from, fill, to)
          PROVE  tables' = tables \/ tables' = [tables EXCEPT ![t] = 0]
      BY <3>2 DEF CheckTable
    <3>3. {"metrics_seed", "events_seed", "node_events"} = Table
      BY DEF Table
    <3>4. CASE StartSeed \/ WaitForCatalog \/ LoadSeedRows \/ RestartProducer
      BY <3>4 DEF StartSeed, WaitForCatalog, LoadSeedRows, RestartProducer
    <3>5. CASE SeedMetrics \/ SeedEvents
      BY <3>2, <3>3, <3>5 DEF SeedMetrics, SeedEvents
    <3>6. CASE FillMetrics \/ FillEvents
      BY <3>1, <3>3, <3>6 DEF FillMetrics, FillEvents
    <3>7. CASE LoadEventRows
      <4>1. EnsureTable("node_events") \in Nat
        BY <2>1, <3>3 DEF EnsureTable, Absent
      <4>2. QED
        BY <3>3, <3>7, <4>1 DEF LoadEventRows
    <3>8. CASE ExternalEvents
      <4>1. Len(NodeEvents) \in Nat
        BY SourceAssumption
      <4>2. QED
        BY <3>3, <3>8, <4>1 DEF ExternalEvents
    <3>9. QED
      BY <3>4, <3>5, <3>6, <3>7, <3>8 DEF Preparing, SeedStep
  <2>3. QED
    BY <2>1, <2>2
<1>5. /\ Groups' = Groups /\ Pending' = Pending
      /\ Gap(group)' = Gap(group) /\ Before(group)' = Before(group)
  BY <1>1 DEF Groups, Pending, Group, Gap, Before, sendVars
<1>6. SourceTypeOK'
  BY <1>1, <1>2, <1>3, <1>4, <1>5 DEF ProducerInv, SourceTypeOK, sendVars
<1>7. QED
  BY <1>1, <1>2, <1>5, <1>6 DEF ProducerInv, sendVars

LEMMA SendingStep ==
  ASSUME ProducerInv, ProducerStep \/ KillProducer
  PROVE  ProducerInv'
<1> DEFINE N == Len(Groups)
<1>1. /\ name' = name /\ Groups' = Groups
      /\ UNCHANGED <<tables, seedPc, seedRuns>> /\ tries' = tries
  BY DEF ProducerStep, Produce, Flush, NextGroup, Deliver, KillProducer, Groups,
     topicVars, seedVars, loadVars, Send
<1>2. /\ Replayable(Groups) /\ N \in Nat \ {0} /\ DOMAIN Groups = 1..N
      /\ group \in 1..N
  BY GroupFacts DEF Replayable, ProducerInv, SourceTypeOK
<1>3. /\ Group.ts \in Nat /\ Len(Group.rows) \in Nat
      /\ DOMAIN Group.rows = 1..Len(Group.rows)
  BY <1>2 DEF Replayable, Group
<1>4. /\ tables \in [Table -> Nat \cup {Absent}] /\ seedPc \in SeedPC
      /\ seedRuns \in 0..MaxSeedRuns
      /\ prod \in {"load", "send", "sleep", "down"} /\ tries \in 0..Retries
      /\ loop \in Nat /\ prevTs \in Nat /\ pause \in Nat /\ clock \in Nat
      /\ waited \in Nat /\ produced \in Nat /\ run \in Nat
      /\ sent \in 0..Len(Group.rows) /\ Len(outq) <= sent
      /\ outq \in Seq(Pending) /\ name \in Topic
      /\ prod = "sleep" => /\ outq = <<>> /\ pause = Gap(group)
                           /\ prevTs = Groups[group].ts
      /\ prod # "sleep" => prevTs = Before(group)
      /\ prod = "load" => tries < Retries
  BY DEF ProducerInv, SourceTypeOK, Group
<1>5. CASE Produce
  <2>1. /\ sent < Len(Group.rows) /\ prod = "send"
        /\ outq' = Append(outq, BuildKafkaMsg(Group.rows[sent + 1]))
        /\ sent' = sent + 1 /\ produced' = produced + 1
        /\ UNCHANGED <<prod, loop, group, prevTs, pause, clock, waited, run>>
    BY <1>5 DEF Produce, loadVars
  <2>2. BuildKafkaMsg(Group.rows[sent + 1]) \in Pending
    <3>1. sent + 1 \in DOMAIN Group.rows
      BY <1>3, <1>4, <2>1
    <3>2. QED
      BY <3>1 DEF BuildKafkaMsg, Pending
  <2>3. outq' \in Seq(Pending) /\ Len(outq') <= sent'
    BY <1>4, <2>1, <2>2
  <2>4. Group' = Group /\ Pending' = Pending /\ Before(group)' = Before(group)
    BY <1>1, <2>1 DEF Group, Pending, Before
  <2>5. sent' \in 0..Len(Groups[group].rows) /\ produced' \in Nat
    BY <1>3, <1>4, <2>1 DEF Group
  <2>6. SourceTypeOK'
    BY <1>1, <1>2, <1>4, <2>1, <2>3, <2>5 DEF SourceTypeOK
  <2>7. QED
    BY <1>1, <1>4, <2>1, <2>3, <2>4, <2>6 DEF ProducerInv
<1>6. CASE Flush
  <2>1. /\ prod = "send" /\ prod' = "sleep" /\ outq = <<>>
        /\ pause' = PauseAfter(Group.ts) /\ prevTs' = Group.ts
        /\ UNCHANGED <<loop, group, sent, outq, produced, run>>
    BY <1>6 DEF Flush
  <2>2. clock' \in Nat /\ waited' \in Nat
    <3>1. PICK d \in FlushTime : clock' = clock + d /\ waited' = waited + d
      BY <1>6 DEF Flush
    <3>2. d \in Nat
      BY SourceAssumption
    <3>3. QED
      BY <1>4, <3>1, <3>2
  <2>3. PauseAfter(Group.ts) = Gap(group) /\ PauseAfter(Group.ts) \in Nat
    <3>1. Interval \in Nat \ {0}
      BY SourceAssumption
    <3>2. CASE group = 1
      BY <1>2, <1>3, <1>4, <2>1, <3>1, <3>2 DEF PauseAfter, Gap, Before, Group
    <3>3. CASE group # 1
      <4>1. group - 1 \in DOMAIN Groups /\ group - 1 < group /\ group \in DOMAIN Groups
        BY <1>2, <3>3
      <4>2. Groups[group - 1].ts \in Nat /\ Groups[group - 1].ts < Groups[group].ts
        BY <1>2, <4>1 DEF Replayable
      <4>3. prevTs = Groups[group - 1].ts
        BY <1>4, <2>1, <3>3 DEF Before
      <4>4. Groups[group].ts \in Nat
        BY <1>3 DEF Group
      <4>5. QED
        BY <3>3, <4>2, <4>3, <4>4 DEF PauseAfter, Gap, Group
    <3>4. QED
      BY <3>2, <3>3
  <2>4. Gap(group)' = Gap(group) /\ outq' \in Seq(Pending')
    BY <1>1, <2>1 DEF Gap
  <2>5. SourceTypeOK'
    BY <1>1, <1>2, <1>3, <1>4, <2>1, <2>2, <2>3 DEF SourceTypeOK, Group
  <2>6. QED
    BY <1>1, <1>4, <2>1, <2>3, <2>4, <2>5 DEF ProducerInv, Group
<1>7. CASE NextGroup
  <2>1. /\ prod = "sleep" /\ prod' = "send" /\ sent' = 0 /\ clock' = clock + pause
        /\ outq' = outq /\ UNCHANGED <<pause, waited, produced, run>>
    BY <1>7 DEF NextGroup
  <2>2. \/ group < N /\ group' = group + 1 /\ loop' = loop /\ prevTs' = prevTs
        \/ group = N /\ group' = 1 /\ loop' = loop + 1 /\ prevTs' = Groups[1].ts
    <3>1. N \in Nat /\ group \in Nat /\ group <= N /\ (group < N \/ group = N)
      <4>1. N \in Nat \ {0} /\ group \in 1..N
        BY <1>2
      <4> HIDE DEF N
      <4>2. QED
        BY <4>1
    <3>2. QED
      BY <3>1, <1>7 DEF NextGroup
  <2>3. outq' = <<>> /\ clock' \in Nat /\ loop' \in Nat
    BY <1>4, <2>1, <2>2
  <2>4. group' \in 1..N
    <3>1. N \in Nat \ {0} /\ group \in 1..N
      BY <1>2
    <3> HIDE DEF N
    <3>2. QED
      BY <2>2, <3>1
  <2>5. Len(Groups[group'].rows) \in Nat /\ Groups[1].ts \in Nat
    BY <1>2, <2>4 DEF Replayable
  <2>6. prevTs' \in Nat
    BY <1>4, <2>2, <2>5
  <2>7. SourceTypeOK'
    BY <1>1, <1>2, <1>4, <2>1, <2>3, <2>4, <2>5, <2>6 DEF SourceTypeOK
  <2>8. prevTs' = Before(group)'
    BY <1>1, <1>2, <1>4, <2>1, <2>2 DEF Before
  <2>9. QED
    BY <1>1, <1>4, <2>1, <2>3, <2>7, <2>8 DEF ProducerInv
<1>8. CASE Deliver
  <2>1. /\ outq # <<>> /\ outq' = Tail(outq)
        /\ UNCHANGED <<prod, loop, group, sent, prevTs, pause, clock, waited, produced, run>>
    BY <1>8 DEF Deliver, loadVars
  <2>2. outq' \in Seq(Pending) /\ Len(outq') <= sent
    BY <1>4, <2>1
  <2>3. Pending' = Pending /\ Before(group)' = Before(group)
    BY <1>1, <2>1 DEF Group, Pending, Before
  <2>4. SourceTypeOK'
    BY <1>1, <1>2, <1>4, <2>1, <2>2 DEF SourceTypeOK, Group
  <2>5. QED
    BY <1>1, <1>4, <2>1, <2>2, <2>3, <2>4 DEF ProducerInv
<1>9. CASE KillProducer
  <2>1. /\ prod' = "down" /\ outq' = <<>> /\ run' = run + 1
        /\ loop' = 1 /\ group' = 1 /\ sent' = 0 /\ prevTs' = Groups[1].ts
        /\ UNCHANGED <<pause, clock, waited, produced>>
    BY <1>9 DEF KillProducer
  <2>2. Len(Groups[1].rows) \in Nat /\ Groups[1].ts \in Nat /\ 1 \in 1..N
    BY <1>2 DEF Replayable
  <2>3. SourceTypeOK'
    BY <1>1, <1>2, <1>4, <2>1, <2>2 DEF SourceTypeOK
  <2>4. Before(group)' = Groups[1].ts
    BY <1>1, <2>1 DEF Before
  <2>5. QED
    BY <1>1, <1>4, <2>1, <2>3, <2>4 DEF ProducerInv
<1>10. QED
  BY <1>5, <1>6, <1>7, <1>8, <1>9 DEF ProducerStep

LEMMA StartOfNext ==
  ASSUME Replayable(Groups), NEW l \in Nat, NEW g \in DOMAIN Groups
  PROVE  /\ Start(l, g) \in Int /\ Gap(g) \in Int /\ Period \in Int
         /\ Start(l, g) + Gap(g) =
              IF g < Len(Groups) THEN Start(l, g + 1) ELSE Start(l + 1, 1)
<1> DEFINE N == Len(Groups)
           ts == [h \in DOMAIN Groups |-> Groups[h].ts]
           p == Period
<1>1. N \in Nat \ {0} /\ g \in 1..N /\ ts \in [1..N -> Nat] /\ Interval \in Nat
  BY SourceAssumption DEF Replayable
<1>2. p = ts[N] - ts[1] + Interval
  BY <1>1 DEF Period
<1>3. /\ Start(l, g) = (l - 1) * p + (IF g = 1 THEN 0 ELSE Interval + ts[g - 1] - ts[1])
      /\ Gap(g) = IF g = 1 THEN Interval ELSE ts[g] - ts[g - 1]
      /\ g < N => Start(l, g + 1) = (l - 1) * p + (Interval + ts[g] - ts[1])
      /\ Start(l + 1, 1) = l * p
  <2>1. /\ \A h \in DOMAIN Groups : ts[h] = Groups[h].ts
        /\ 1 \in DOMAIN Groups /\ g \in DOMAIN Groups
        /\ g # 1 => g - 1 \in DOMAIN Groups
    BY <1>1 DEF Replayable
  <2>2. g + 1 # 1 /\ (g + 1) - 1 = g /\ (l + 1) - 1 = l
    BY <1>1
  <2> HIDE DEF ts, p, N
  <2>3. Start(l, g) = (l - 1) * p + (IF g = 1 THEN 0 ELSE Interval + ts[g - 1] - ts[1])
    BY <2>1 DEF Start, p
  <2>4. Gap(g) = IF g = 1 THEN Interval ELSE ts[g] - ts[g - 1]
    BY <2>1 DEF Gap
  <2>5. Start(l, g + 1) = (l - 1) * p + (Interval + ts[g] - ts[1])
    BY <2>1, <2>2 DEF Start, p
  <2>6. Start(l + 1, 1) = l * p + 0
    BY <2>2 DEF Start, p
  <2>7. l * p + 0 = l * p
    <3>1. p \in Int
      BY <1>1, <1>2
    <3>2. QED
      BY <3>1
  <2>8. QED
    BY <2>3, <2>4, <2>5, <2>6, <2>7
<1> HIDE DEF N, ts, p
<1>4. ts[N] \in Nat /\ ts[1] \in Nat /\ ts[g] \in Nat /\ (g # 1 => ts[g - 1] \in Nat)
  BY <1>1
<1>5. p \in Int
  BY <1>1, <1>2, <1>4
<1>6. (l - 1) * p \in Int /\ l * p \in Int /\ l * p = (l - 1) * p + p
  BY <1>5
<1>7. Start(l, g) \in Int /\ Gap(g) \in Int
  BY <1>1, <1>3, <1>4, <1>6
<1>8. Start(l, g) + Gap(g) = (l - 1) * p + (Interval + ts[g] - ts[1])
  <2> DEFINE q == (l - 1) * p
  <2>1. q \in Int /\ Interval \in Nat /\ ts[1] \in Nat /\ ts[g] \in Nat
    BY <1>1, <1>4, <1>6
  <2>2. CASE g = 1
    BY <1>3, <2>1, <2>2
  <2>3. CASE g # 1
    <3>1. Start(l, g) = q + (Interval + ts[g - 1] - ts[1]) /\ Gap(g) = ts[g] - ts[g - 1]
      BY <1>3, <2>3
    <3>2. ts[g - 1] \in Nat
      BY <1>4, <2>3
    <3> HIDE DEF q
    <3>3. QED
      BY <2>1, <3>1, <3>2 DEF q
  <2>4. QED
    BY <2>2, <2>3
<1>9. CASE g < N
  BY <1>3, <1>5, <1>7, <1>8, <1>9 DEF N, p
<1>10. CASE ~(g < N)
  <2>1. g = N
    BY <1>1, <1>10
  <2>2. (l - 1) * p + (Interval + ts[g] - ts[1]) = l * p
    BY <1>1, <1>2, <1>4, <1>6, <2>1
  <2>3. QED
    BY <1>3, <1>5, <1>7, <1>8, <1>10, <2>2 DEF N, p
<1>11. QED
  BY <1>9, <1>10

\* What a step does to the topic and to the place of the producer.
LEMMA PaceStep ==
  ASSUME ProducerInv, [Next]_vars
  PROVE  /\ name' = name /\ Groups' = Groups /\ Period' = Period
         /\ \/ UNCHANGED <<log, end, loop, group, clock, waited, run>>
            \/ Flush /\ UNCHANGED <<log, end, loop, group, run>>
            \/ NextGroup /\ UNCHANGED <<log, end, waited, run>>
            \/ UNCHANGED <<log, end>> /\ run' = run + 1
            \/ /\ \E m : Send(m) /\ (m.fit = "row" => m \in Pending)
               /\ UNCHANGED <<loop, group, clock, waited, run>>
<1>1. CASE SourceNext
  <2>1. CASE Preparing
    BY <2>1, PreparingStep DEF sendVars, Groups, Period
  <2>2. CASE Produce \/ Flush \/ NextGroup \/ KillProducer
    BY <2>2 DEF Produce, Flush, NextGroup, KillProducer, topicVars, Groups, Period
  <2>3. CASE Deliver
    <3>1. Head(outq) \in Pending
      BY <2>3 DEF Deliver, ProducerInv
    <3>2. QED
      BY <2>3, <3>1 DEF Deliver, Groups, Period
  <2>4. QED
    BY <1>1, <2>1, <2>2, <2>3 DEF SourceNext, Preparing, ProducerStep
<1>2. CASE IngestNext /\ UNCHANGED sourceVars
  BY <1>2 DEF IngestNext, sourceVars, sendVars, Goto, topicVars, StartIngestor,
     WaitForTable, Join, AutoCommit, Receive, FlushDue, Interrupt, FinalFlush,
     StopConsumer, KillIngestor, Groups, Period
<1>3. CASE OtherPublisher
  <2>1. \E fit \in Fit \ {"row"} : Send([fit |-> fit])
    BY <1>3 DEF OtherPublisher
  <2>2. \A fit \in Fit \ {"row"} : [fit |-> fit].fit # "row"
    OBVIOUS
  <2>3. QED
    BY <1>3, <2>1, <2>2 DEF OtherPublisher, sourceVars, sendVars, Groups, Period
<1>4. CASE Exhausted \/ UNCHANGED vars
  BY <1>4 DEF Exhausted, vars, topicVars, sourceVars, sendVars, Groups, Period
<1>5. QED
  BY <1>1, <1>2, <1>3, <1>4 DEF Next

\* The relation LoopsRepeat states between a message and a later one.
Repeats(m, n) ==
  /\ m.loop < n.loop \/ (m.loop = n.loop /\ m.row.ts <= n.row.ts)
  /\ m.row = n.row => n.ts - m.ts = (n.loop - m.loop) * Period + (n.waited - m.waited)

LEMMA InStepRepeats ==
  ASSUME ProducerInv, NEW m, InStep(m), m.loop \in Nat, m.ts \in Nat,
         m.waited \in Nat, NEW n \in Pending
  PROVE  Repeats(m, n)
<1> DEFINE P == Period
<1>1. /\ Replayable(Groups) /\ group \in DOMAIN Groups /\ loop \in Nat /\ clock \in Nat
      /\ waited \in Nat
  BY GroupFacts DEF ProducerInv, SourceTypeOK
<1>2. n.row.ts = Groups[group].ts /\ n.loop = loop /\ n.ts = clock /\ n.waited = waited
  BY <1>1 DEF Pending, Group, Replayable
<1>3. PICK g \in DOMAIN Groups :
        /\ m.row.ts = Groups[g].ts
        /\ m.loop < loop \/ (m.loop = loop /\ g <= group)
        /\ (m.ts - m.waited) - Start(m.loop, g) = (clock - waited) - Start(loop, group)
  BY DEF InStep
<1>4. /\ Start(m.loop, g) \in Int /\ Start(loop, group) \in Int /\ P \in Int
      /\ Start(m.loop, group) \in Int
  BY <1>1, StartOfNext
<1>5. g \in Nat /\ group \in Nat /\ Groups[g].ts \in Nat /\ Groups[group].ts \in Nat
  BY <1>1 DEF Replayable
<1>6. g < group => Groups[g].ts < Groups[group].ts
  BY <1>1 DEF Replayable
<1>7. m.loop < n.loop \/ (m.loop = n.loop /\ m.row.ts <= n.row.ts)
  BY <1>2, <1>3, <1>5, <1>6
<1>8. ASSUME m.row = n.row
      PROVE  n.ts - m.ts = (n.loop - m.loop) * P + (n.waited - m.waited)
  <2>1. Groups[g].ts = Groups[group].ts
    BY <1>2, <1>3, <1>8
  <2>2. group < g => Groups[group].ts < Groups[g].ts
    BY <1>1 DEF Replayable
  <2>3. g = group
    BY <1>5, <1>6, <2>1, <2>2
  <2>4. (clock - waited) - (m.ts - m.waited) = Start(loop, group) - Start(m.loop, group)
    BY <1>1, <1>3, <1>4, <2>3
  <2> DEFINE o == IF group = 1 THEN 0 ELSE Interval + Groups[group - 1].ts - Groups[1].ts
  <2>5. Start(loop, group) = (loop - 1) * P + o /\ Start(m.loop, group) = (m.loop - 1) * P + o
    BY DEF Start
  <2>6. o \in Int
    <3>1. 1 \in DOMAIN Groups /\ (group # 1 => group - 1 \in DOMAIN Groups)
      BY <1>1 DEF Replayable
    <3>2. Groups[1].ts \in Nat /\ (group # 1 => Groups[group - 1].ts \in Nat)
      BY <1>1, <3>1 DEF Replayable
    <3>3. Interval \in Nat
      BY SourceAssumption
    <3>4. QED
      BY <3>2, <3>3
  <2> HIDE DEF o, P
  <2>7. ((loop - 1) * P + o) - ((m.loop - 1) * P + o) = (loop - m.loop) * P
    BY <1>1, <1>4, <2>6
  <2>8. (loop - m.loop) * P \in Int
    BY <1>1, <1>4
  <2>9. (clock - waited) - (m.ts - m.waited) = (loop - m.loop) * P
    BY <2>4, <2>5, <2>7
  <2>10. QED
    BY <1>1, <1>2, <2>8, <2>9
<1>9. QED
  BY <1>7, <1>8 DEF Repeats

\* A message of the current group is in step with the producer.
LEMMA PendingInStep ==
  ASSUME ProducerInv, NEW m \in Pending
  PROVE  /\ InStep(m) /\ m.run = run /\ m.run \in Nat
         /\ {m.loop, m.ts, m.waited} \subseteq Nat
<1>1. /\ Replayable(Groups) /\ group \in DOMAIN Groups
      /\ loop \in Nat /\ clock \in Nat /\ waited \in Nat /\ run \in Nat
  BY GroupFacts DEF ProducerInv, SourceTypeOK
<1>2. /\ m.row.ts = Groups[group].ts /\ m.loop = loop /\ m.run = run
      /\ m.ts = clock /\ m.waited = waited
  BY <1>1 DEF Pending, Group, Replayable
<1>3. group <= group
  BY <1>1 DEF Replayable
<1>4. QED
  BY <1>1, <1>2, <1>3 DEF InStep

LEMMA DeliveredStep ==
  ASSUME OffsetInv, ProducerInv, DeliveredInv, [Next]_vars
  PROVE  DeliveredInv'
<1>1. /\ Replayable(Groups) /\ group \in DOMAIN Groups
      /\ loop \in Nat /\ {clock, waited} \subseteq Nat /\ run \in Nat /\ end \in Nat
  BY GroupFacts DEF ProducerInv, SourceTypeOK, OffsetInv
<1>2. name' = name /\ Groups' = Groups /\ Period' = Period
  BY PaceStep
<1>3. \A l, g : Start(l, g)' = Start(l, g)
  BY <1>2 DEF Start
<1>4. CASE UNCHANGED <<log, end, loop, group, clock, waited, run>>
  <2>1. \A m : InStep(m)' = InStep(m)
    BY <1>2, <1>3, <1>4 DEF InStep
  <2>2. QED
    BY <1>4, <2>1 DEF DeliveredInv, FromProducer
<1>5. CASE Flush /\ UNCHANGED <<log, end, loop, group, run>>
  <2>1. PICK d \in FlushTime : clock' = clock + d /\ waited' = waited + d
    BY <1>5 DEF Flush
  <2>2. d \in Nat
    BY SourceAssumption
  <2>3. clock' - waited' = clock - waited
    BY <1>1, <2>1, <2>2
  <2>4. \A m : InStep(m)' = InStep(m)
    BY <1>2, <1>3, <1>5, <2>3 DEF InStep
  <2>5. QED
    BY <1>5, <2>4 DEF DeliveredInv, FromProducer
<1>6. CASE NextGroup /\ UNCHANGED <<log, end, waited, run>>
  <2> DEFINE N == Len(Groups)
  <2>1. /\ prod = "sleep" /\ clock' = clock + pause
        /\ \/ group < N /\ group' = group + 1 /\ loop' = loop
           \/ ~(group < N) /\ group' = 1 /\ loop' = loop + 1
    BY <1>6 DEF NextGroup
  <2>2. pause = Gap(group)
    BY <2>1 DEF ProducerInv
  <2>3. Start(loop, group) + Gap(group) = Start(loop', group')
    BY <1>1, <2>1, StartOfNext
  <2>4. Start(loop, group) \in Int /\ Gap(group) \in Int
    BY <1>1, StartOfNext
  <2>5. (clock' - waited) - Start(loop', group') = (clock - waited) - Start(loop, group)
    BY <1>1, <2>1, <2>2, <2>3, <2>4
  <2>6. ASSUME NEW m, InStep(m), m.loop \in Nat
        PROVE  InStep(m)'
    <3>1. PICK g \in DOMAIN Groups :
            /\ m.row.ts = Groups[g].ts
            /\ m.loop < loop \/ (m.loop = loop /\ g <= group)
            /\ (m.ts - m.waited) - Start(m.loop, g) = (clock - waited) - Start(loop, group)
      BY <2>6 DEF InStep
    <3>2. g \in Nat /\ group \in Nat
      BY <1>1 DEF Replayable
    <3>3. m.loop < loop' \/ (m.loop = loop' /\ g <= group')
      BY <1>1, <2>1, <2>6, <3>1, <3>2
    <3>4. (m.ts - m.waited) - Start(m.loop, g) = (clock' - waited') - Start(loop', group')
      BY <1>6, <2>5, <3>1
    <3>5. Start(loop, group)' = Start(loop', group') /\ Start(m.loop, g)' = Start(m.loop, g)
      BY <1>2 DEF Start
    <3>6. QED
      BY <1>2, <3>1, <3>3, <3>4, <3>5 DEF InStep
  <2>7. QED
    BY <1>6, <2>6 DEF DeliveredInv, FromProducer
<1>7. CASE UNCHANGED <<log, end>> /\ run' = run + 1
  BY <1>1, <1>7 DEF DeliveredInv, FromProducer
<1>8. CASE /\ \E m : Send(m) /\ (m.fit = "row" => m \in Pending)
           /\ UNCHANGED <<loop, group, clock, waited, run>>
  <2>1. PICK m : Send(m) /\ (m.fit = "row" => m \in Pending)
    BY <1>8
  <2>2. \A x : InStep(x)' = InStep(x)
    BY <1>2, <1>3, <1>8 DEF InStep
  <2>3. end' = end + 1 /\ log' = [log EXCEPT ![end + 1] = m] /\ end + 1 \in Offset
    BY <2>1 DEF Send
  <2> SUFFICES ASSUME NEW i \in Offset, log'[i].fit = "row"
               PROVE  /\ i <= end'
                      /\ log'[i].run \in Nat /\ log'[i].run <= run
                      /\ {log'[i].loop, log'[i].ts, log'[i].waited} \subseteq Nat
                      /\ log'[i].run = run => InStep(log'[i])
    BY <1>8, <2>2 DEF DeliveredInv, FromProducer
  <2>4. CASE i = end + 1
    <3>1. log'[i] = m
      BY <2>3, <2>4 DEF OffsetInv
    <3>2. QED
      BY <1>1, <2>1, <2>3, <2>4, <3>1, PendingInStep
  <2>5. CASE i # end + 1
    <3>1. log'[i] = log[i]
      BY <2>3, <2>5 DEF OffsetInv
    <3>2. i \in FromProducer /\ i \in Nat
      BY <3>1, TopicAssumption DEF FromProducer
    <3>3. QED
      BY <1>1, <2>3, <3>1, <3>2 DEF DeliveredInv
  <2>6. QED
    BY <2>4, <2>5
<1>9. QED
  BY <1>4, <1>5, <1>6, <1>7, <1>8, PaceStep

LEMMA RepeatStep ==
  ASSUME OffsetInv, ProducerInv, DeliveredInv, LoopsRepeat, [Next]_vars
  PROVE  LoopsRepeat'
<1>1. Period' = Period
  BY PaceStep
<1>2. CASE UNCHANGED <<log, end>>
  BY <1>1, <1>2 DEF LoopsRepeat, FromProducer
<1>3. CASE \E m : Send(m) /\ (m.fit = "row" => m \in Pending)
  <2>1. PICK m : Send(m) /\ (m.fit = "row" => m \in Pending)
    BY <1>3
  <2>2. /\ end' = end + 1 /\ log' = [log EXCEPT ![end + 1] = m] /\ end + 1 \in Offset
        /\ end \in Nat
    BY <2>1 DEF Send, OffsetInv
  <2> SUFFICES ASSUME NEW i \in Offset, log'[i].fit = "row",
                      NEW j \in Offset, log'[j].fit = "row",
                      i < j, log'[i].run = log'[j].run
               PROVE  Repeats(log'[i], log'[j])
    BY <1>1 DEF LoopsRepeat, FromProducer, Repeats
  <2>3. i \in Nat /\ j \in Nat
    BY TopicAssumption
  <2>4. \A o \in Offset : o # end + 1 => log'[o] = log[o]
    BY <2>2 DEF OffsetInv
  <2>5. \A o \in Offset : o # end + 1 /\ log'[o].fit = "row" => o \in FromProducer /\ o <= end
    BY <2>4 DEF FromProducer, DeliveredInv
  <2>6. i # end + 1
    BY <2>2, <2>3, <2>5
  <2>7. CASE j # end + 1
    BY <2>4, <2>5, <2>6, <2>7 DEF LoopsRepeat, Repeats
  <2>8. CASE j = end + 1
    <3>1. log'[j] = m /\ m \in Pending
      BY <2>1, <2>2, <2>8 DEF OffsetInv
    <3>2. m.run = run
      BY <3>1, PendingInStep
    <3>3. log'[i] = log[i] /\ i \in FromProducer
      BY <2>4, <2>5, <2>6
    <3>4. InStep(log[i]) /\ {log[i].loop, log[i].ts, log[i].waited} \subseteq Nat
      BY <3>1, <3>2, <3>3 DEF DeliveredInv
    <3>5. QED
      BY <3>1, <3>3, <3>4, InStepRepeats
  <2>9. QED
    BY <2>7, <2>8
<1>4. QED
  BY <1>2, <1>3, PaceStep

LEMMA ProducerHolds == Spec => [](ProducerInv /\ DeliveredInv)
<1>1. ProducerInv /\ [Next]_vars => ProducerInv'
  <2> SUFFICES ASSUME ProducerInv, [Next]_vars
               PROVE  ProducerInv'
    OBVIOUS
  <2>1. CASE Preparing
    BY <2>1, PreparingStep
  <2>2. CASE ProducerStep \/ KillProducer
    BY <2>2, SendingStep
  <2>3. CASE UNCHANGED <<sourceVars, name>>
    <3>1. Groups' = Groups
      BY <2>3 DEF Groups
    <3>2. QED
      BY <2>3, <3>1 DEF ProducerInv, SourceTypeOK, Pending, Group, Gap, Before,
         sourceVars, seedVars, loadVars, sendVars
  <2>4. QED
    <3>1. IngestNext => name' = name
      BY PaceStep
    <3>2. name' = name
      BY PaceStep
    <3>3. UNCHANGED <<sourceVars, name>> \/ Preparing \/ ProducerStep \/ KillProducer
      BY <3>2 DEF Next, SourceNext, Preparing, OtherPublisher, Exhausted, vars
    <3>4. QED
      BY <2>1, <2>2, <2>3, <3>3
<1>2. QED
  BY ProducerInit, <1>1, DeliveredStep, OffsetsInvariant, PTL DEF Spec

\* What one run of a producer sends keeps the order of the recording, and the
\* copies of a row in different loops are whole loops, and the time spent in
\* flush(), apart, for every recording, every interval and whatever is lost on
\* the way.  (Inside a loop prev_orig_ts shifts each pause by a group.)
THEOREM LoopsRepeatHolds == Spec => []LoopsRepeat
<1>1. Init => LoopsRepeat
  BY DEF Init, TopicInit, LoopsRepeat, FromProducer, NoMessage
<1>2. QED
  BY <1>1, RepeatStep, ProducerHolds, OffsetsInvariant, PTL DEF Spec

LEMMA IngestTypes ==
  ASSUME OffsetInv, IngestTypeOK, [Next]_vars
  PROVE  /\ ready' \in BOOLEAN /\ ipc' \in IngestPC
         /\ starts' \in Nat /\ attempt' \in Nat
<1> USE DEF IngestTypeOK
<1>1. CASE IngestNext
  BY <1>1 DEF IngestNext, Goto, StartIngestor, WaitForTable, Join, AutoCommit,
     Receive, FlushDue, Interrupt, FinalFlush, StopConsumer, KillIngestor, IngestPC
<1>2. CASE ~IngestNext
  BY <1>2, OtherStep DEF Next, ingestVars
<1>3. QED
  BY <1>1, <1>2

\* Type correctness of the whole pipeline.  In particular the group being sent
\* exists, no more of it is sent than it has rows, no more waits in the client
\* library than was handed to it, and the ingestor stores known offsets only.
THEOREM TypeCorrect == Spec => []TypeOK
<1>1. Init => IngestTypeOK
  <2> SUFFICES ASSUME Init
               PROVE  IngestTypeOK
    OBVIOUS
  <2>1. ready \in BOOLEAN /\ ipc \in IngestPC /\ starts \in Nat /\ attempt \in Nat
    BY DEF Init, IngestInit, IngestPC
  <2>2. /\ torn \in BOOLEAN /\ mishaps \in Nat /\ pos \in Nat /\ joined \in Nat
        /\ committed \in Nat \cup {None} /\ buf \subseteq Offset
        /\ stored \in [Offset -> Nat]
    BY DEF Init, IngestInit, None
  <2>3. QED
    BY <2>1, <2>2 DEF IngestTypeOK
<1>2. OffsetInv => /\ torn \in BOOLEAN /\ mishaps \in Nat /\ pos \in Nat
                   /\ joined \in Nat /\ committed \in Nat \cup {None}
                   /\ buf \subseteq Offset /\ stored \in [Offset -> Nat]
  BY DEF OffsetInv, None
<1>3. OffsetInv' /\ OffsetInv /\ IngestTypeOK /\ [Next]_vars => IngestTypeOK'
  <2> SUFFICES ASSUME OffsetInv, OffsetInv', IngestTypeOK, [Next]_vars
               PROVE  IngestTypeOK'
    OBVIOUS
  <2>1. /\ ready' \in BOOLEAN /\ ipc' \in IngestPC
        /\ starts' \in Nat /\ attempt' \in Nat
    BY IngestTypes
  <2>2. /\ torn' \in BOOLEAN /\ mishaps' \in Nat /\ pos' \in Nat
        /\ joined' \in Nat /\ committed' \in Nat \cup {None}
        /\ buf' \subseteq Offset /\ stored' \in [Offset -> Nat]
    BY DEF OffsetInv, None
  <2>3. QED
    BY <2>1, <2>2 DEF IngestTypeOK
<1>4. ProducerInv => SourceTypeOK
  BY DEF ProducerInv
<1>5. QED
  BY <1>1, <1>3, <1>4, ProducerHolds, OffsetsInvariant, PTL DEF Spec, TypeOK
=============================================================================
