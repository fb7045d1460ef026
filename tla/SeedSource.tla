------------------------------ MODULE SeedSource ------------------------------
(***************************************************************************)
(* Where the demo telemetry comes from.  The seed-data job creates two     *)
(* tables and fills each in a second step; a producer loads a table, then  *)
(* replays it for ever: one group of rows with the same ts at a time,      *)
(* flushed, with a pause between groups.  loop_producer.py replays         *)
(* metrics_seed, event_producer.py replays node_events, which it creates   *)
(* if need be and something outside the repository fills; which of the two *)
(* is modelled is chosen by the topic.  Docker restarts a producer that    *)
(* fails, and never the seed job.                                          *)
(***************************************************************************)
EXTENDS TelemetryTopic, Sequences, FiniteSets

CONSTANTS
  Duration,   \* DURATION_SEC of the seed job
  Box,        \* NODES of the seed job, in order
  NodeEvents, \* rows of node_events in the order of the scan
  Interval,   \* INTERVAL of the producers
  FlushTime,  \* seconds a flush() may block
  Retries,    \* tries a producer has to load its table
  MaxSeedRuns, \* times the seed job is started (bounds the model)
  MaxProduced \* messages the producer of each topic may make (bounds the model)

ASSUME SourceAssumption ==
  /\ Duration \in Nat \ {0} /\ Interval \in Nat \ {0} /\ Retries \in Nat \ {0}
  /\ FlushTime \subseteq Nat /\ MaxSeedRuns \in Nat
  /\ Len(Box) \in Nat \ {0} /\ Len(NodeEvents) \in Nat \ {0}
  /\ DOMAIN NodeEvents = 1..Len(NodeEvents)
  /\ \A i \in DOMAIN NodeEvents : NodeEvents[i].ts \in Nat

VARIABLES
  tables,   \* the catalog: of each table the rows, or Absent
  seedPc,   \* where the seed job is
  seedRuns, \* times it was started
  prod,     \* where the producer is
  tries,    \* i of its load loop
  loop,     \* loop
  group,    \* index of the group being sent
  sent,     \* rows of the group handed to the client library
  prevTs,   \* prev_orig_ts
  pause,    \* seconds of the sleep
  clock,    \* time.time(), which passes while the producer flushes or sleeps
  waited,   \* history: seconds spent in flush()
  outq,     \* messages in the client library, not yet delivered or given up
  produced, \* messages made
  run       \* history: how often a publishing producer was killed

seedVars == <<seedPc, seedRuns>>
loadVars == <<prod, tries>>
sendVars == <<loop, group, sent, prevTs, pause, clock, waited, outq,
              produced, run>>
sourceVars == <<tables, seedVars, loadVars, sendVars>>

Table == {"metrics_seed", "events_seed", "node_events"}
Absent == -1
SeedPC == {"idle", "catalog", "metrics", "fillMetrics", "events", "fillEvents",
           "completed", "failed"}

\* The rows of metrics_seed: every second, every box.
SeedRows ==
  [i \in 1..(Duration * Len(Box)) |->
     [ts |-> (i - 1) \div Len(Box), node |-> Box[((i - 1) % Len(Box)) + 1]]]

\* The members of a finite set of numbers, in order.
Ascending(S) ==
  [k \in 1..Cardinality(S) |->
     CHOOSE x \in S : Cardinality({y \in S : y < x}) = k - 1]

\* groups[t]: the rows with one ts, in the order of the scan.
RowsAt(rows, t) ==
  LET At == Ascending({i \in DOMAIN rows : rows[i].ts = t})
  IN  [k \in DOMAIN At |-> rows[At[k]]]

\* Slip: the groups keep the order in which the scan first met their ts.
MutGroupByTs(rows) ==
  LET First == Ascending({i \in DOMAIN rows :
                            \A j \in 1..(i - 1) : rows[j].ts # rows[i].ts})
  IN  [k \in DOMAIN First |->
         [ts |-> rows[First[k]].ts, rows |-> RowsAt(rows, rows[First[k]].ts)]]

\* group_by_ts: the groups in the order of ts.
GroupByTs(rows) ==
  LET Times == Ascending({rows[i].ts : i \in DOMAIN rows})
  IN  [k \in DOMAIN Times |-> [ts |-> Times[k], rows |-> RowsAt(rows, Times[k])]]

\* What each producer replays, and the one of this behaviour.
Recordings ==
  [n \in Topic |-> GroupByTs(IF n = MetricsTopic THEN SeedRows ELSE NodeEvents)]

Groups == Recordings[name]

SourceTypeOK ==
  /\ tables \in [Table -> Nat \cup {Absent}]
  /\ seedPc \in SeedPC /\ seedRuns \in 0..MaxSeedRuns
  /\ prod \in {"load", "send", "sleep", "down"} /\ tries \in 0..Retries
  /\ loop \in Nat /\ group \in DOMAIN Groups
  /\ sent \in 0..Len(Groups[group].rows)
  /\ {prevTs, pause, clock, waited, produced, run} \subseteq Nat
  /\ Len(outq) <= sent

SourceInit ==
  /\ tables = [t \in Table |-> Absent]
  /\ seedPc = "idle" /\ seedRuns = 0
  /\ prod = "load" /\ tries = 0
  /\ loop = 1 /\ group = 1 /\ sent = 0 /\ prevTs = Groups[1].ts
  /\ pause = 0 /\ clock = 0 /\ waited = 0 /\ outq = <<>> /\ produced = 0 /\ run = 0

-----------------------------------------------------------------------------
(* seed-data                                                               *)

SeedGoto(from, to) ==
  /\ seedPc = from
  /\ seedPc' = to
  /\ UNCHANGED <<seedRuns, loadVars, sendVars, topicVars>>

\* docker compose up, the first time or again.
StartSeed ==
  /\ seedPc \in {"idle", "completed", "failed"}
  /\ seedRuns < MaxSeedRuns
  /\ seedPc' = "catalog"
  /\ seedRuns' = seedRuns + 1
  /\ UNCHANGED <<tables, loadVars, sendVars, topicVars, faults>>

\* wait_for_catalog gives up after its retries; ensure_namespace follows.
WaitForCatalog ==
  /\ \/ SeedGoto("catalog", "metrics") /\ UNCHANGED faults
     \/ SeedGoto("catalog", "failed") /\ Fault
  /\ UNCHANGED tables

\* Slip: any table is taken to exist.
MutTableExists(t) == TRUE

TableExists(t) == tables[t] # Absent

\* An existing table is skipped, whatever it holds, and an absent one is
\* created.  A catalog error makes an existing table look absent, and then
\* create_table raises; or create_table fails itself, or the job is killed.
CheckTable(t, from, fill, next) ==
  \/ TableExists(t) /\ SeedGoto(from, next) /\ UNCHANGED <<tables, faults>>
  \/ /\ ~TableExists(t) /\ SeedGoto(from, fill)
     /\ tables' = [tables EXCEPT ![t] = 0]
     /\ UNCHANGED faults
  \/ SeedGoto(from, "failed") /\ Fault /\ UNCHANGED tables

\* append adds all rows or, when it raises or the job is killed, all or none.
FillTable(t, from, next) ==
  \/ /\ SeedGoto(from, next)
     /\ tables' = [tables EXCEPT ![t] = @ + Len(SeedRows)]
     /\ UNCHANGED faults
  \/ /\ SeedGoto(from, "failed") /\ Fault
     /\ \E added \in {0, Len(SeedRows)} :
          tables' = [tables EXCEPT ![t] = @ + added]

SeedMetrics == CheckTable("metrics_seed", "metrics", "fillMetrics", "events")
FillMetrics == FillTable("metrics_seed", "fillMetrics", "events")
SeedEvents == CheckTable("events_seed", "events", "fillEvents", "completed")
FillEvents == FillTable("events_seed", "fillEvents", "completed")

SeedStep ==
  \/ WaitForCatalog
  \/ SeedMetrics
  \/ FillMetrics
  \/ SeedEvents
  \/ FillEvents

-----------------------------------------------------------------------------
(* The producers                                                           *)

\* One try of the load loop ends: with rows, or with an exception.
Loaded ==
  /\ prod' = "send" /\ tries' = 0
  /\ UNCHANGED faults

\* Slip: one try too many.
MutLoadFailed ==
  /\ tries' = tries + 1
  /\ prod' = IF tries = Retries THEN "down" ELSE "load"

LoadFailed ==
  /\ tries' = tries + 1
  /\ prod' = IF tries' = Retries THEN "down" ELSE "load"

\* An absent or empty table raises, and so may the catalog at any time.
LoadSeedRows ==
  /\ name = MetricsTopic /\ prod = "load"
  /\ \/ tables["metrics_seed"] > 0 /\ Loaded
     \/ tables["metrics_seed"] <= 0 /\ LoadFailed /\ UNCHANGED faults
     \/ LoadFailed /\ Fault
  /\ UNCHANGED <<tables, seedVars, sendVars, topicVars>>

\* ensure_table: the table is created when it cannot be loaded.
EnsureTable(t) == IF tables[t] = Absent THEN 0 ELSE tables[t]

LoadEventRows ==
  /\ name = EventTopic /\ prod = "load"
  /\ \/ /\ tables' = [tables EXCEPT !["node_events"] = EnsureTable("node_events")]
        /\ \/ tables'["node_events"] > 0 /\ Loaded
           \/ tables'["node_events"] = 0 /\ LoadFailed /\ UNCHANGED faults
     \/ LoadFailed /\ Fault /\ UNCHANGED tables
  /\ UNCHANGED <<seedVars, sendVars, topicVars>>

\* Whoever writes node_events (nothing in the repository does).
ExternalEvents ==
  /\ name = EventTopic /\ tables["node_events"] = 0
  /\ tables' = [tables EXCEPT !["node_events"] = Len(NodeEvents)]
  /\ UNCHANGED <<seedVars, loadVars, sendVars, topicVars, faults>>

\* restart: on-failure
RestartProducer ==
  /\ prod = "down"
  /\ prod' = "load" /\ tries' = 0
  /\ UNCHANGED <<tables, seedVars, sendVars, topicVars, faults>>

Group == Groups[group]

\* The message of a row: the row, the time it is sent and, as history, the loop
\* and the run that sent it and the seconds spent in flush() until then.
BuildKafkaMsg(row) ==
  [row |-> row, ts |-> clock, waited |-> waited, loop |-> loop, run |-> run,
   fit |-> "row"]

Produce ==
  /\ prod = "send" /\ sent < Len(Group.rows) /\ produced < MaxProduced[name]
  /\ outq' = Append(outq, BuildKafkaMsg(Group.rows[sent + 1]))
  /\ sent' = sent + 1 /\ produced' = produced + 1
  /\ UNCHANGED <<tables, seedVars, loadVars, loop, group, prevTs, pause, clock,
                 waited, run, topicVars, faults>>

\* Slip: without the fallback, groups may follow each other without a pause.
MutPauseAfter(ts) == IF ts > prevTs THEN ts - prevTs ELSE 0

\* The pause after a group is the distance from the group before it.
PauseAfter(ts) == IF ts - prevTs > 0 THEN ts - prevTs ELSE Interval

\* flush() returns once every message is delivered or given up; what it takes
\* comes on top of the pause.
Flush ==
  /\ prod = "send" /\ sent = Len(Group.rows) /\ outq = <<>>
  /\ prod' = "sleep"
  /\ pause' = PauseAfter(Group.ts)
  /\ prevTs' = Group.ts
  /\ \E d \in FlushTime : clock' = clock + d /\ waited' = waited + d
  /\ UNCHANGED <<tables, seedVars, tries, loop, group, sent, outq,
                 produced, run, topicVars, faults>>

\* The sleep is over: the next group, or the first of the next loop.
NextGroup ==
  /\ prod = "sleep"
  /\ prod' = "send" /\ sent' = 0
  /\ clock' = clock + pause
  /\ IF group < Len(Groups)
     THEN group' = group + 1 /\ UNCHANGED <<loop, prevTs>>
     ELSE group' = 1 /\ loop' = loop + 1 /\ prevTs' = Groups[1].ts
  /\ UNCHANGED <<tables, seedVars, tries, pause, waited, outq, produced, run,
                 topicVars, faults>>

\* The client library delivers in order, or gives a message up.
Deliver ==
  /\ outq # <<>>
  /\ outq' = Tail(outq)
  /\ \/ Send(Head(outq)) /\ UNCHANGED faults
     \/ Fault /\ UNCHANGED <<log, end>>
  /\ UNCHANGED <<tables, seedVars, loadVars, loop, group, sent, prevTs, pause,
                 clock, waited, produced, run, name>>

\* A killed producer begins again with the first group.
KillProducer ==
  /\ prod \in {"send", "sleep"} /\ Fault
  /\ prod' = "down" /\ outq' = <<>> /\ run' = run + 1
  /\ loop' = 1 /\ group' = 1 /\ sent' = 0 /\ prevTs' = Groups[1].ts
  /\ UNCHANGED <<tables, seedVars, tries, pause, clock, waited, produced,
                 topicVars>>

ProducerStep ==
  \/ Produce
  \/ Flush
  \/ NextGroup
  \/ Deliver

SourceNext ==
  \/ StartSeed
  \/ SeedStep
  \/ LoadSeedRows
  \/ LoadEventRows
  \/ ExternalEvents
  \/ RestartProducer
  \/ ProducerStep
  \/ KillProducer
=============================================================================
