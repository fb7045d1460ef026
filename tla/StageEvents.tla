----------------------------- MODULE StageEvents -----------------------------
(***************************************************************************)
(* The omni.usd context as the two extensions use it: one current stage,   *)
(* and the stream of stage events.  Both subscribe with                    *)
(* create_subscription_to_pop, so a handler runs when its event is popped  *)
(* and may find a stage that is newer than the event (extension.py:149 of  *)
(* datacenter_monitor: OPENED comes asynchronously).  The first stage is   *)
(* 1, the next one 2; a stage that was closed does not come back.          *)
(***************************************************************************)
EXTENDS Naturals, Sequences

CONSTANTS
  MaxStages,  \* bound on the stages opened
  MaxEvents   \* bound on the events waiting to be popped

ASSUME StageAssumption == MaxStages \in Nat /\ MaxEvents \in Nat

VARIABLES
  stage,    \* get_stage(), NoStage between two stages
  opened,   \* stages opened so far
  loaded,   \* every reference and payload of the stage is there
  closing,  \* CLOSING was sent for the stage
  events    \* not popped yet, oldest first

stageVars == <<stage, opened, loaded, closing, events>>

NoStage == 0
Stages == 1..MaxStages

Event == [type : {"OPENED", "ASSETS_LOADED", "CLOSING", "CLOSED"}, of : Stages]

StageTypeOK ==
  /\ opened \in 0..MaxStages
  /\ stage \in {NoStage, opened}
  /\ loaded \in BOOLEAN
  /\ closing \in BOOLEAN
  /\ events \in Seq(Event)

StageInit ==
  /\ stage = NoStage /\ opened = 0
  /\ loaded = FALSE /\ closing = FALSE
  /\ events = <<>>

Push(type, s) ==
  /\ Len(events) < MaxEvents
  /\ events' = Append(events, [type |-> type, of |-> s])

OpenStage ==
  /\ stage = NoStage /\ opened < MaxStages
  /\ opened' = opened + 1
  /\ stage' = opened + 1
  /\ Push("OPENED", opened + 1)
  /\ UNCHANGED <<loaded, closing>>

\* Textures and materials loaded later make it fire again.
LoadAssets ==
  /\ stage # NoStage /\ ~closing
  /\ loaded' = TRUE
  /\ Push("ASSETS_LOADED", stage)
  /\ UNCHANGED <<stage, opened, closing>>

StartClose ==
  /\ stage # NoStage /\ ~closing
  /\ closing' = TRUE
  /\ Push("CLOSING", stage)
  /\ UNCHANGED <<stage, opened, loaded>>

EndClose ==
  /\ closing
  /\ stage' = NoStage /\ loaded' = FALSE /\ closing' = FALSE
  /\ Push("CLOSED", stage)
  /\ UNCHANGED opened

\* The event loop takes the oldest event out.
Pop ==
  /\ events # <<>>
  /\ events' = Tail(events)
  /\ UNCHANGED <<stage, opened, loaded, closing>>

\* An event of this type for the current stage has not been popped.
Pending(type) ==
  \E i \in 1..Len(events) :
    events[i].type = type /\ events[i].of = stage
=============================================================================
