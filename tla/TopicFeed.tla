------------------------------- MODULE TopicFeed -------------------------------
(***************************************************************************)
(* What a Kafka subscriber promises Kit's main thread, without threads,    *)
(* libraries or connections: a bounded first-in first-out queue that       *)
(* consumers fill.  A consumer takes a message in hand only while its      *)
(* topic is the current one and may put it into the queue any time later,  *)
(* so each consumer can deliver one message of a topic that has been       *)
(* switched away meanwhile, and no more.  Messages may be lost: a message  *)
(* in hand may be given up, and the oldest in the queue may be dropped.    *)
(***************************************************************************)
EXTENDS Naturals, Sequences

CONSTANTS
  Consumer,   \* whoever fills the queue
  Topic,      \* topics the subscriber may be set to
  StartTopic, \* the topic it starts with
  MaxSize     \* capacity of the queue

VARIABLES
  topic,  \* the current topic
  hand,   \* what each consumer has in hand: nothing, or a message of one topic
  queue   \* messages delivered and not yet taken, oldest first

feedVars == <<topic, hand, queue>>

Init ==
  /\ topic = StartTopic
  /\ hand = [c \in Consumer |-> {}]
  /\ queue = <<>>

\* Only a message of the current topic is taken in hand.
PickUp(c) ==
  /\ hand[c] = {}
  /\ hand' = [hand EXCEPT ![c] = {topic}]
  /\ UNCHANGED <<topic, queue>>

GiveUp(c) ==
  /\ hand[c] # {}
  /\ hand' = [hand EXCEPT ![c] = {}]
  /\ UNCHANGED <<topic, queue>>

Deliver(c) ==
  /\ Len(queue) < MaxSize
  /\ \E m \in hand[c] : queue' = Append(queue, m)
  /\ hand' = [hand EXCEPT ![c] = {}]
  /\ UNCHANGED topic

\* The oldest message is taken by the main thread, cleared, or dropped.
Leave ==
  /\ queue # <<>>
  /\ queue' = Tail(queue)
  /\ UNCHANGED <<topic, hand>>

SwitchTo(new) ==
  /\ topic' = new
  /\ UNCHANGED <<hand, queue>>

Next ==
  \/ \E c \in Consumer : PickUp(c) \/ GiveUp(c) \/ Deliver(c)
  \/ Leave
  \/ \E new \in Topic : SwitchTo(new)

Spec == Init /\ [][Next]_feedVars
=============================================================================
