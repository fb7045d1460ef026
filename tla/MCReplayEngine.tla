---------------------------- MODULE MCReplayEngine ----------------------------
(* Small instances of ReplayEngine for TLC. *)
EXTENDS ReplayEngine, TLC

\* Tasks, requests and websockets are interchangeable.
ReplaySymmetry ==
  Permutations(Task) \cup Permutations(Request) \cup Permutations(Client)
=============================================================================
