\* A router that finds its key: an outside system writes it.
SPECIFICATION FairSpec
CONSTANTS
    Users = {u1}
    Gateways = {g1}
    Routes = {k1}
    Casts = {}
    None = None
    Partitioned = FALSE
    ForeignKeys = TRUE
    MaxMoves = 3
PROPERTY RouteReachesConnected
CHECK_DEADLOCK FALSE
