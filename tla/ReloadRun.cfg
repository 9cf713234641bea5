SPECIFICATION Spec
CONSTANTS
    Cameras = {door, yard}
    Clients = {c1, c2}
    Models = {env, tuned, lost}
    EnvModel = env
    Missing = {lost}
    MaxRequests = 3
    MaxEvents = 1
    None = None
INVARIANTS RegisteredRuns DetectorFollowsConfig WorkersFollowConfig
PROPERTIES DetectionResumes
CHECK_DEADLOCK FALSE
