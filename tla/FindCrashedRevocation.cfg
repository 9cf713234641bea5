SPECIFICATION Spec
CONSTANTS
    Accounts = {ann, bob, cat}
    Founders = {ann, bob}
    Clients = {c1}
    Roles = {"viewer", "admin"}
    MaxFails = 2
    MaxRequests = 1
    MaxEvents = 1
    Bodies <- Sent
    Nobody = Nobody
SYMMETRY Alike
INVARIANTS SessionsFollowPassword
CHECK_DEADLOCK FALSE
