SPECIFICATION ClockSpec
CONSTANTS
    Plans = {p1}
    Tasks = {t1, t2}
    Agents = {a1}
    Tokens = {k1, k2, k3}
    MaxLease = 2
    NoPlan = NoPlan
    NoAgent = NoAgent
    NoToken = NoToken
PROPERTIES
    OrphanedLeaseEnds
    ImplementsDag
    PlanDrains
CHECK_DEADLOCK FALSE
