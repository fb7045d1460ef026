---------------------------- MODULE MetricsPipeline ----------------------------
(***************************************************************************)
(* The demo pipeline of kafka-dummy: seed-data, a producer, the topic, the *)
(* ingestor and other publishers of the metrics topic.                     *)
(***************************************************************************)
EXTENDS SeedSource, Ingestor

vars == <<topicVars, faults, sourceVars, ingestVars>>

\* Some other program publishes a message the ingestor cannot convert.
OtherPublisher ==
  /\ name = MetricsTopic /\ Fault
  /\ \E fit \in Fit \ {"row"} : Send([fit |-> fit])
  /\ UNCHANGED <<name, sourceVars, ingestVars>>

\* The bound on messages is reached.
Exhausted ==
  /\ produced = MaxProduced[name] /\ UNCHANGED vars

TypeOK == SourceTypeOK /\ IngestTypeOK

Init == TopicInit /\ SourceInit /\ IngestInit

Next ==
  \/ SourceNext /\ UNCHANGED ingestVars
  \/ IngestNext /\ UNCHANGED sourceVars
  \/ OtherPublisher
  \/ Exhausted

\* Processes run, Docker restarts a failed producer, and a try to load has a
\* timeout.  Starting the seed job and killing anything is up to others.
Spec ==
  /\ Init /\ [][Next]_vars
  /\ WF_sourceVars(SeedStep)
  /\ WF_sourceVars(LoadSeedRows \/ LoadEventRows)
  /\ WF_sourceVars(RestartProducer)
  /\ WF_sourceVars(ProducerStep)

-----------------------------------------------------------------------------
(* Properties                                                              *)

FromProducer == {i \in Offset : log[i].fit = "row"}

\* The length of a loop: that of the recording, and the pause that follows it.
Period == Groups[Len(Groups)].ts - Groups[1].ts + Interval

\* What one run of a producer sends follows the recording, loop after loop
\* whatever is lost on the way: loop and ts never go back, and the copies of a
\* row in two loops are the length of the loops between them apart, and the time
\* the flushes between them took, although each single pause is the one that
\* belongs before the group.
LoopsRepeat ==
  \A i, j \in FromProducer :
    i < j /\ log[i].run = log[j].run =>
      /\ \/ log[i].loop < log[j].loop
         \/ log[i].loop = log[j].loop /\ log[i].row.ts <= log[j].row.ts
      /\ log[i].row = log[j].row =>
           log[j].ts - log[i].ts =
             (log[j].loop - log[i].loop) * Period + (log[j].waited - log[i].waited)

\* After a seed job that completed at its first run metrics flow, however long
\* it took compared to the retries of the producer.  (A job that failed between
\* creating a table and filling it leaves one that every later run skips.)
MetricsFlow ==
  name = MetricsTopic /\ seedPc = "completed" /\ seedRuns = 1
    ~> produced > 0
=============================================================================
