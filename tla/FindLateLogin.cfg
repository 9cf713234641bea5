SPECIFICATION Spec
CONSTANTS
    Accounts = {ann, bob, cat}
    Founders = {ann, bob}
    Clients = {c1, c2}
    Roles = {"viewer", "admin"}
    MaxFails = 2
    MaxRequests = 2
    MaxEvents = 0
    Bodies <- Sent
    Nobody = Nobody
SYMMETRY Alike
INVARIANTS SessionsFollowPassword
CHECK_DEADLOCK FALSE
