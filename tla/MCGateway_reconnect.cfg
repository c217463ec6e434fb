\* A user opens a second connection while the first one is served.
SPECIFICATION Spec
CONSTANTS
    Gateways = {g1}
    Users = {u1}
    Conns = {c1, c2}
    Sends = {}
    None = None
    TTL = 3
    MaxFaults = 2
    Wrapped = FALSE
INVARIANT ConnectedUserIsReachable
