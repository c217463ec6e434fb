\* Two instances, a user that moves between them; processes stop at any moment.
SPECIFICATION FairSpec
CONSTANTS
    Gateways = {g1, g2}
    Users = {u1}
    Conns = {c1, c2}
    Sends = {}
    None = None
    TTL = 3
    MaxFaults = 0
    Wrapped = FALSE
PROPERTIES
    DeadPeerIsCleanedUp
    PresenceHeals
    StalePresenceExpires
