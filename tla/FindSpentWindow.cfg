SPECIFICATION Spec
CONSTANTS
  i1 = i1
  i2 = i2
  cam = cam
  lobby = lobby
  porter = porter
  guard = guard
  owner = owner
  manager = manager
  NoOne = NoOne
  Incidents = {i1, i2}
  Cameras = {cam}
  CameraOf <- OneCamera
  Contacts = {porter, guard, manager, owner}
  Chain <- GuardThenOwner
  Retries <- RetryGuard
  HasSms = {guard}
  HasCall = {guard, owner}
  Renderable = {"sms", "call"}
  GraceDelay = TRUE
  Redis = FALSE
  Env = {}
INVARIANTS SuppressedByAnAlert
CHECK_DEADLOCK FALSE
