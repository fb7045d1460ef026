-------------------------- MODULE MCKafkaSubscriber --------------------------
(* Small instances of KafkaSubscriber for TLC. *)
EXTENDS KafkaSubscriber

CONSTANTS t1, t2, t3
=============================================================================
