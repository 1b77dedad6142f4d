SPECIFICATION CallsSpec
CONSTANTS
    Plans = {p1}
    Tasks = {t1, t2}
    Agents = {a1}
    Tokens = {k1, k2}
    Calls = {c1, c2}
    MaxLease = 2
    NoPlan = NoPlan
    NoAgent = NoAgent
    NoToken = NoToken
SYMMETRY Symmetry
INVARIANTS
    ListingIsASnapshot
    CompletedViewConsistent
PROPERTY ClaimsAreAtomic
CHECK_DEADLOCK FALSE
