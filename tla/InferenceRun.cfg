SPECIFICATION FairSpec
CONSTANTS
  Cameras = {c1, c2}
  c1 = c1
  c2 = c2
  BatchSize = 2
  QueueSize = 2
  InboxSize = 2
  MaxFrames = 4
  MaxChanges = 2
  Env = {"failure", "camera", "model"}
INVARIANTS TypeOK PendingIsHeld
PROPERTIES DecidedOnce ResultsInOrder EveryFrameAnswered
CHECK_DEADLOCK FALSE
