\* Two instances, two users; a route call and a broadcast side by side.
SPECIFICATION FairSpec
CONSTANTS
    Users = {u1, u2}
    Gateways = {g1, g2}
    Routes = {k1}
    Casts = {b1}
    None = None
    Partitioned = FALSE
    ForeignKeys = TRUE
    MaxMoves = 3
INVARIANTS
    TypeOK
    BroadcastReachesSteadyUsers
PROPERTY PublishedReachesRegistered
CHECK_DEADLOCK FALSE
