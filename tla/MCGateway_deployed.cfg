\* The wiring of cmd/gateway: the mux behind withObservability.
SPECIFICATION Spec
CONSTANTS
    Gateways = {g1}
    Users = {u1}
    Conns = {c1, c2}
    Sends = {}
    None = None
    TTL = 3
    MaxFaults = 2
    Wrapped = TRUE
INVARIANT ValidUpgradeIsServed
