SPECIFICATION Spec
CONSTANTS
  Thread = {t1, t2, t3}
  t1 = t1
  t2 = t2
  t3 = t3
  StartTopic = "live"
  ReplayTopic = "replay"
  RestoreTopic = "event"
  MaxSize = 1
  FrameBudget = 1
INVARIANTS
  TopicFollowsMode
