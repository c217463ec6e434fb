\* Three runs; ups overlap, downs are alone; one failure.
SPECIFICATION FairSpec
CONSTANTS
    Runs = {p1, p2, p3}
    Asks <- MCAsks
    DownsAlone = TRUE
    None = None
    MaxFaults = 1
INVARIANTS
    TypeOK
    VersionsTellTables
    UpgradeStaysPossible
PROPERTIES
    AccountsSurviveUps
    UpsReachLatest
CHECK_DEADLOCK FALSE
