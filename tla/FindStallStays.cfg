SPECIFICATION Spec
CONSTANTS
    Stall = 3
    Period = 1
    MaxBackoff = 3
    JoinTime = 1
    MaxWorkers = 1
PROPERTIES StalledIsTornDown
