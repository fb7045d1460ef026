------------------------------ MODULE ReplayPlayer ------------------------------
(***************************************************************************)
(* What the query server's replay promises its operators, without tasks,   *)
(* websockets or awaits: a player with one track.  The timestamps of the   *)
(* track are taken up in order and only while the player is PLAYING; of    *)
(* each the metrics are shown first, once, and then the events if there    *)
(* are any.  A track may break off, but from the moment it is called off   *)
(* nothing more of it is taken up or shown, and a new one starts only when *)
(* no other is left.  The promise holds as long as the operators do not    *)
(* misuse the player, by calling a track off while one is being called off *)
(* already.                                                                *)
(***************************************************************************)
EXTENDS Naturals

CONSTANTS
  Steps,      \* timestamps of a track
  EventSteps  \* those with events

VARIABLES
  state,    \* what the status request answers
  tracks,   \* the track under way, if any: the last timestamp it has taken up,
            \* what of that is still to be shown, and whether it was called off
  misused   \* the operators have broken the rule

playerVars == <<state, tracks, misused>>

Part == {"metrics", "events"}
Parts(s) == {p \in Part : p = "events" => s \in EventSteps}

Init ==
  /\ state = "IDLE"
  /\ tracks = {}
  /\ misused = FALSE

Start ==
  /\ tracks = {}
  /\ tracks' = {[ts |-> 0, left |-> {}, call |-> "on"]}
  /\ state' = "PLAYING"

TakeUp(track) ==
  /\ track.call = "on"
  /\ state = "PLAYING"
  /\ track.left = {} /\ track.ts < Steps
  /\ tracks' = {[ts |-> track.ts + 1, left |-> Parts(track.ts + 1), call |-> "on"]}
  /\ UNCHANGED state

Show(track, part) ==
  /\ track.call = "on"
  /\ part \in track.left
  /\ part = "events" => "metrics" \notin track.left
  /\ tracks' = {[track EXCEPT !.left = @ \ {part}]}
  /\ UNCHANGED state

Finish(track) ==
  /\ track.ts = Steps /\ track.left = {}
  /\ tracks' = {}
  /\ state' = "IDLE"

CallOff(track) ==
  /\ tracks' = {[track EXCEPT !.call = "off"]}
  /\ UNCHANGED state

\* A track that was called off ends, and any other may fail; the status keeps
\* what it was.
Break(track) ==
  /\ tracks' = {}
  /\ UNCHANGED state

Stop ==
  /\ tracks = {}
  /\ state' = "IDLE"
  /\ UNCHANGED tracks

Pause == state = "PLAYING" /\ state' = "PAUSED" /\ UNCHANGED tracks
Resume == state = "PAUSED" /\ state' = "PLAYING" /\ UNCHANGED tracks

Next ==
  \/ Start
  \/ \E track \in tracks :
       \/ TakeUp(track)
       \/ \E part \in Part : Show(track, part)
       \/ Finish(track)
       \/ CallOff(track)
       \/ Break(track)
  \/ Stop
  \/ Pause
  \/ Resume

Spec == Init /\ [][misused' \/ (Next /\ UNCHANGED misused)]_playerVars
=============================================================================
