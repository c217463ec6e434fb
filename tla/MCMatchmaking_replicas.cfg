\* Two replicas, four tickets, two faults.
SPECIFICATION Spec
CONSTANTS
    t1 = t1
    t2 = t2
    t3 = t3
    t4 = t4
    Tickets = {t1, t2, t3, t4}
    Users <- MCUsers
    UserOf <- MCUserOf
    Workers = {w1, w2}
    MaxFaults = 2
SYMMETRY Replicas
INVARIANTS
    TypeOK
    EachTicketInOnePlace
    LossIsBounded
    NoticeFollowsMatch
PROPERTY ImplementsPairQueue
CHECK_DEADLOCK FALSE
