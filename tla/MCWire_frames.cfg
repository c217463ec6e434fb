\* A message, a ping and pongs on one connection; two frames of the client.
SPECIFICATION FairSpec
CONSTANTS
    Senders = {s1}
    Lengths <- MCLengths
    Clients <- MCClients
    None = None
    MaxIn = 2
    MaxTears = 1
INVARIANTS
    TypeOK
    FramesIntactUpToTear
    ReadsWhatWasSent
PROPERTY FramesArrive
CHECK_DEADLOCK FALSE
