SPECIFICATION AuditSpec
CONSTANTS
    Plans = {p1, p2}
    Tasks = {t1, t2, t3}
    Agents = {a1, a2}
    Tokens = {k1, k2}
    MaxLease = 2
    NoPlan = NoPlan
    NoAgent = NoAgent
    NoToken = NoToken
SYMMETRY Symmetry
VIEW WithoutLogged
INVARIANTS
    TypeOK
    LeaseShape
    StartedPrereqsDone
    NoMissedUnlock
    GraphOK
    ExclusiveHolder
    PlanLifecycle
    ListAgreesWithClaim
    NoStall
    HistoryReplays
PROPERTIES
    LeaseRespected
    MutationsLogged
CHECK_DEADLOCK FALSE
