SPECIFICATION FairSpec
CONSTANTS
  Cameras = {c1, c2}
  c1 = c1
  c2 = c2
  BatchSize = 2
  QueueSize = 2
  InboxSize = 2
  MaxFrames = 2
  MaxChanges = 1
  Env = {"model"}
INVARIANTS ConsumersSurvive
CHECK_DEADLOCK FALSE
