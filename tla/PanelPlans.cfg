SPECIFICATION PanelSpec
CONSTANTS
    Plans = {p1}
    Shown = p1
    t1 = t1  t2 = t2
    Tasks = {t1, t2}
    Edges <- Chain
    Agents = {me, a1}
    Me = me
    Tokens = {k1, k2}
    MaxLease = 1
    NoPlan = NoPlan
    NoAgent = NoAgent
    NoToken = NoToken
    Tabs = {b1}
    MaxClock = 1
    MaxCalls = 2
    NoView = NoView
    NoTask = NoTask
SYMMETRY Symmetry
INVARIANTS TokensFiled BusyIsAnswered ReadyFilterAgrees OfferedIsAdmitted
CHECK_DEADLOCK FALSE
