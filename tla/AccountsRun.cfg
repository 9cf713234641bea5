SPECIFICATION Spec
CONSTANTS
    Accounts = {ann, bob, cat}
    Founders = {ann, bob}
    Clients = {c1, c2}
    Roles = {"viewer", "admin"}
    MaxFails = 2
    MaxRequests = 3
    MaxEvents = 1
    Bodies <- Sent
    Nobody = Nobody
SYMMETRY Alike
INVARIANTS TypeOK AdminLostOnlyByRace SessionsRevoked
PROPERTIES LockHolds
CHECK_DEADLOCK FALSE
