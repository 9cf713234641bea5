SPECIFICATION Spec
CONSTANTS
    Cameras = {door, yard}
    Clients = {c1}
    Models = {env, tuned, lost}
    EnvModel = env
    Missing = {lost}
    MaxRequests = 2
    MaxEvents = 1
    None = None
PROPERTIES HandEditsSurvive
CHECK_DEADLOCK FALSE
