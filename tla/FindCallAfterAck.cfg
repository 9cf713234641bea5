SPECIFICATION FairSpec
CONSTANTS
  i1 = i1
  i2 = i2
  cam = cam
  lobby = lobby
  porter = porter
  guard = guard
  owner = owner
  manager = manager
  NoOne = NoOne
  Incidents = {i1}
  Cameras = {cam}
  CameraOf <- OneIncident
  Contacts = {porter, guard, manager, owner}
  Chain <- GuardThenOwner
  Retries <- RetryGuard
  HasSms = {guard}
  HasCall = {guard, owner}
  Renderable = {"sms", "call"}
  GraceDelay = TRUE
  Redis = TRUE
  Env = {}
PROPERTIES AckStopsCalls
CHECK_DEADLOCK FALSE
