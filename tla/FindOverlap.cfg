SPECIFICATION Spec
CONSTANTS
    Cameras = {door}
    Clients = {c1, c2}
    Models = {env, tuned, lost}
    EnvModel = env
    Missing = {lost}
    MaxRequests = 2
    MaxEvents = 0
    None = None
INVARIANTS CamerasAreApplied
CHECK_DEADLOCK FALSE
