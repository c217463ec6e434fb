\* Two replicas, two matches, one create call, one assign call, two faults.
SPECIFICATION FairSpec
CONSTANTS
    Users <- MCUsers
    Matches <- MCMatches
    PlayersOf <- MCPlayersOf
    Creates <- MCCreates
    CreatorOf <- MCCreatorOf
    Replicas = {r1, r2}
    Assigns = {a1}
    None = None
    MaxFaults = 2
INVARIANTS
    TypeOK
    EventsTellOfCommitted
    SilenceIsAFailure
    SilentCreateIsNoSuccess
    OneSessionPerReplica
    MatchSessionsHaveTwoPlayers
PROPERTY MatchIsSettled
CHECK_DEADLOCK FALSE
