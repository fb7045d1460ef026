------------------------------- MODULE Ingestor -------------------------------
(***************************************************************************)
(* ingestor.py: rows of the metrics topic are buffered in memory and       *)
(* appended to an Iceberg table in batches.  The client library commits    *)
(* the offset on a timer of its own, which can run only while the main     *)
(* coroutine waits for a message; the two never coordinate.  A row of a    *)
(* message enters the buffer column by column: a value that does not       *)
(* convert leaves columns of different length behind.                      *)
(*                                                                         *)
(* A position or a commit of n says that the first n messages are done     *)
(* with.                                                                   *)
(***************************************************************************)
EXTENDS TelemetryTopic

CONSTANTS
  TableRetries,  \* retries of wait_for_table
  MaxStarts      \* times the ingestor is started (bounds the model)

VARIABLES
  ready,     \* dc.metrics exists; nothing in the repository creates it
  ipc,       \* where the main coroutine is
  starts,    \* times it was started
  attempt,   \* i of wait_for_table
  pos,       \* the consumer's position
  committed, \* the group's committed offset, or None
  buf,       \* offsets whose rows are in the buffer
  torn,      \* the columns of the buffer differ in length
  stored,    \* of each offset, how many rows of it the table holds
  joined,    \* history: where the last consumer without a commit started
  mishaps    \* history: ends without a commit, and appends that raised

ingestVars == <<ready, ipc, starts, attempt, pos, committed, buf, torn, stored,
                joined, mishaps>>

None == -1
IngestPC == {"off", "boot", "join", "wait", "appended", "final", "stop", "dead"}

IngestTypeOK ==
  /\ ready \in BOOLEAN /\ torn \in BOOLEAN
  /\ ipc \in IngestPC
  /\ starts \in Nat /\ attempt \in Nat /\ mishaps \in Nat
  /\ pos \in Nat /\ joined \in Nat
  /\ committed \in Nat \cup {None}
  /\ buf \subseteq Offset
  /\ stored \in [Offset -> Nat]

IngestInit ==
  /\ ready \in BOOLEAN
  /\ ipc = "off" /\ starts = 0 /\ attempt = 0
  /\ pos = 0 /\ committed = None
  /\ buf = {} /\ torn = FALSE
  /\ stored = [o \in Offset |-> 0]
  /\ joined = 0 /\ mishaps = 0

Goto(from, to) ==
  /\ ipc = from
  /\ ipc' = to
  /\ UNCHANGED <<ready, topicVars>>

\* The process ends and its memory is gone.
Lose ==
  /\ buf' = {} /\ torn' = FALSE
  /\ mishaps' = mishaps + 1

\* Someone runs the container; Docker does not restart it.
StartIngestor ==
  /\ name = MetricsTopic /\ starts < MaxStarts
  /\ \E from \in {"off", "dead"} : Goto(from, "boot")
  /\ starts' = starts + 1 /\ attempt' = 0
  /\ UNCHANGED <<pos, committed, buf, torn, stored, joined, mishaps, faults>>

\* One try of wait_for_table.
WaitForTable ==
  /\ \/ ready /\ Goto("boot", "join") /\ attempt' = 0 /\ UNCHANGED faults
     \/ /\ attempt' = attempt + 1
        /\ Goto("boot", IF attempt' = TableRetries THEN "dead" ELSE "boot")
        /\ \/ ~ready /\ UNCHANGED faults
           \/ ready /\ Fault
  /\ UNCHANGED <<starts, pos, committed, buf, torn, stored, joined, mishaps>>

\* consumer.start() and the first position: the committed offset, or the end of
\* the topic (auto_offset_reset is latest).
Join ==
  /\ Goto("join", "wait")
  /\ pos' = IF committed = None THEN end ELSE committed
  /\ joined' = IF committed = None THEN end ELSE joined
  /\ UNCHANGED <<starts, attempt, committed, buf, torn, stored, mishaps, faults>>

\* The client library's timer.
AutoCommit ==
  /\ Goto("wait", "wait")
  /\ committed' = pos
  /\ UNCHANGED <<starts, attempt, pos, buf, torn, stored, joined, mishaps, faults>>

\* async for: one message is taken and its columns are appended.
Receive ==
  /\ pos < end
  /\ pos' = pos + 1
  /\ \/ /\ log[pos + 1].fit = "row" /\ Goto("wait", "appended")
        /\ buf' = buf \cup {pos + 1} /\ UNCHANGED torn
     \/ /\ log[pos + 1].fit = "early" /\ Goto("wait", "final")
        /\ UNCHANGED <<buf, torn>>
     \/ /\ log[pos + 1].fit = "torn" /\ Goto("wait", "final")
        /\ torn' = TRUE /\ UNCHANGED buf
  /\ UNCHANGED <<starts, attempt, committed, stored, joined, mishaps, faults>>

\* flush_buffer: the rows in the buffer are added to the table.
Stored == [o \in Offset |-> IF o \in buf THEN stored[o] + 1 ELSE stored[o]]

\* Slip: the buffer is not cleared after a flush.
MutFlushDue ==
  /\ \/ Goto("appended", "wait") /\ UNCHANGED <<buf, stored, mishaps, faults>>
     \/ /\ Goto("appended", "wait")
        /\ stored' = Stored /\ UNCHANGED <<buf, mishaps, faults>>
  /\ UNCHANGED <<starts, attempt, pos, committed, torn, joined>>

\* The interval has not elapsed, or it has and the buffer is appended and
\* cleared; when the append raises, it may have taken effect.
FlushDue ==
  /\ \/ Goto("appended", "wait") /\ UNCHANGED <<buf, stored, mishaps, faults>>
     \/ /\ Goto("appended", "wait")
        /\ stored' = Stored /\ buf' = {}
        /\ UNCHANGED <<mishaps, faults>>
     \/ /\ Goto("appended", "final") /\ Fault
        /\ stored' \in {stored, Stored}
        /\ mishaps' = mishaps + 1
        /\ UNCHANGED buf
  /\ UNCHANGED <<starts, attempt, pos, committed, torn, joined>>

\* The wait for a message is cancelled (SIGINT) or raises.
Interrupt ==
  /\ Goto("wait", "final")
  /\ UNCHANGED <<starts, attempt, pos, committed, buf, torn, stored, joined,
                 mishaps, faults>>

\* Slip: the consumer is stopped, and so commits, before the last flush.
MutFinalFlush ==
  /\ \/ /\ ~torn /\ Goto("final", "stop")
        /\ stored' = Stored /\ buf' = {}
        /\ UNCHANGED <<torn, mishaps, faults>>
     \/ /\ torn /\ Goto("final", "stop") /\ Lose
        /\ UNCHANGED <<stored, faults>>
  /\ UNCHANGED <<starts, attempt, pos, committed, joined>>

\* finally: the rest of the buffer is appended.  When that raises, as it must
\* if the columns differ, consumer.stop() is not reached.
FinalFlush ==
  /\ \/ /\ ~torn /\ Goto("final", "stop")
        /\ stored' = Stored /\ buf' = {}
        /\ UNCHANGED <<torn, mishaps, faults>>
     \/ /\ torn /\ Goto("final", "dead") /\ Lose
        /\ UNCHANGED <<stored, faults>>
     \/ /\ ~torn /\ buf # {} /\ Goto("final", "dead") /\ Lose /\ Fault
        /\ stored' \in {stored, Stored}
  /\ UNCHANGED <<starts, attempt, pos, committed, joined>>

\* Slip: the position is forgotten on the way out.
MutStopConsumer ==
  /\ Goto("stop", "dead")
  /\ UNCHANGED <<starts, attempt, pos, committed, buf, torn, stored, joined,
                 mishaps, faults>>

\* consumer.stop() commits the position and leaves the group.
StopConsumer ==
  /\ Goto("stop", "dead")
  /\ committed' = pos
  /\ UNCHANGED <<starts, attempt, pos, buf, torn, stored, joined, mishaps, faults>>

KillIngestor ==
  /\ \E from \in IngestPC \ {"off", "dead"} : Goto(from, "dead")
  /\ Fault /\ Lose
  /\ UNCHANGED <<starts, attempt, pos, committed, stored, joined>>

IngestNext ==
  \/ StartIngestor
  \/ WaitForTable
  \/ Join
  \/ AutoCommit
  \/ Receive
  \/ FlushDue
  \/ Interrupt
  \/ FinalFlush
  \/ StopConsumer
  \/ KillIngestor

-----------------------------------------------------------------------------
(* Properties                                                              *)

\* A row is stored once, and once more at most for every time the ingestor
\* ended without a commit or an append raised: the timer of the commits and
\* the flushes may interleave in any way (ingestor.py:133-178).
DuplicateBound == \A o \in Offset : stored[o] <= 1 + mishaps

\* Without such a mishap every row read since the group first joined is in the
\* table or in the buffer, and in one of them only, across any number of
\* restarts and of messages that break before their first column.
ExactlyOnce ==
  mishaps = 0 =>
    \A o \in (joined + 1)..pos :
      log[o].fit = "row" => stored[o] = IF o \in buf THEN 0 ELSE 1

\* No commit ever passes a message that tears the columns, unless the group
\* first joined behind it: the ingestor meets it again at every start.
TornNotPassed ==
  \A o \in 1..end :
    log[o].fit = "torn" /\ o <= committed => o <= joined
=============================================================================
