\* One worker, one sessions replica, a failure on each side.
SPECIFICATION FairFlowSpec
CONSTANTS
    t1 = t1
    t2 = t2
    t3 = t3
    t4 = t4
    Tickets = {t1, t2, t3, t4}
    Users <- MCUsers
    UserOf <- MCUserOf
    Workers = {w1}
    SessionReplicas = {r1}
    None = None
    MaxFaults = 1
    MaxSessionFaults = 1
INVARIANTS
    MatchedInArrivalOrder
    TicketBuysOneGame
PROPERTY HeadGetsSession
CHECK_DEADLOCK FALSE
