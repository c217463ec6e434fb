\* Two instances, two users, two connections, one SendToUser; with TTL = 2 one
\* failed SET and one pending refresh are the edge of visibility.
SPECIFICATION Spec
CONSTANTS
    Gateways = {g1, g2}
    Users = {u1, u2}
    Conns = {c1, c2}
    Sends = {m1}
    None = None
    TTL = 2
    MaxFaults = 1
    Wrapped = FALSE
SYMMETRY Interchangeable
INVARIANTS
    TypeOK
    RegistryNamesServedConns
    ReachableUnlessOverlapped
    VisibleWhileRefreshed
    MutexBelongsToWriter
