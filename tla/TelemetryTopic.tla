---------------------------- MODULE TelemetryTopic ----------------------------
(***************************************************************************)
(* What the services of kafka-dummy share: one Kafka topic, a log that     *)
(* only grows and whose consumers keep an offset, and a budget of faults.  *)
(* Everything that can fail (a process killed, a catalog or storage call   *)
(* that raises, a message that is not delivered) takes from the budget, so *)
(* that a behaviour has finitely many failures.                            *)
(***************************************************************************)
EXTENDS Integers

CONSTANTS
  Offset,   \* offsets the topic may reach, counted from 1
  MaxFaults \* failures in one behaviour (bounds the model, not the code)

ASSUME TopicAssumption == Offset \subseteq Nat \ {0} /\ MaxFaults \in Nat

VARIABLES
  name,  \* the topic: that of the loop producer or that of the event producer
  log,   \* the message at each offset
  end,   \* the log end offset: how many messages there are
  faults \* failures so far

topicVars == <<name, log, end>>

MetricsTopic == "datacenter.metrics"
EventTopic == "datacenter.metrics.event"
Topic == {MetricsTopic, EventTopic}

\* What the ingestor can make of a message: a table row; nothing, because the
\* time stamp, its first column, does not convert; or only the first columns.
Fit == {"row", "early", "torn"}

\* Offsets not reached yet.
NoMessage == [fit |-> "none"]

TopicInit ==
  /\ name \in Topic
  /\ log = [o \in Offset |-> NoMessage]
  /\ end = 0
  /\ faults = 0

Fault ==
  /\ faults < MaxFaults
  /\ faults' = faults + 1

Send(message) ==
  /\ end + 1 \in Offset
  /\ end' = end + 1
  /\ log' = [log EXCEPT ![end + 1] = message]
=============================================================================
