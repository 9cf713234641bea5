SPECIFICATION Spec
CONSTANTS
    Cameras = {door}
    Clients = {c1}
    Models = {env, tuned, lost}
    EnvModel = env
    Missing = {lost}
    MaxRequests = 2
    MaxEvents = 0
    None = None
PROPERTIES RollsBack
CHECK_DEADLOCK FALSE
