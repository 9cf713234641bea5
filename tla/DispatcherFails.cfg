SPECIFICATION FairSpec
CONSTANTS
  i1 = i1
  i2 = i2
  cam = cam
  lobby = lobby
  porter = porter
  guard = guard
  owner = owner
  manager = manager
  NoOne = NoOne
  Incidents = {i1, i2}
  Cameras = {cam, lobby}
  CameraOf <- TwoCameras
  Contacts = {porter, guard, manager, owner}
  Chain <- WholeStaff
  Retries <- RetryGuard
  HasSms = {guard, manager}
  HasCall = {guard, owner}
  Renderable = {"sms"}
  GraceDelay = FALSE
  Redis = FALSE
  Env = {"lapse", "toggle", "stop"}
PROPERTIES EveryRunEnds
CHECK_DEADLOCK FALSE
