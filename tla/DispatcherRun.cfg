SPECIFICATION FairSpec
CONSTANTS
  i1 = i1
  i2 = i2
  cam = cam
  lobby = lobby
  porter = porter
  guard = guard
  owner = owner
  manager = manager
  NoOne = NoOne
  Incidents = {i1, i2}
  Cameras = {cam, lobby}
  CameraOf <- OneCamera
  Contacts = {porter, guard, manager, owner}
  Chain <- WholeStaff
  Retries <- RetryGuard
  HasSms = {guard, manager}
  HasCall = {guard, owner}
  Renderable = {"sms", "call"}
  GraceDelay = TRUE
  Redis = TRUE
  Env = {"close", "outage", "stop"}
INVARIANTS TypeOK OneSequencePerWindow ExhaustedTriedEveryone RecordedUnlessCancelled
PROPERTIES KeepsPromise AckStopsEscalation CancelIsFinal EveryRunEnds
CHECK_DEADLOCK FALSE
