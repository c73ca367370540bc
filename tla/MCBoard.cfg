SPECIFICATION Spec
CONSTANTS
    s1 = s1
    s2 = s2
    p1 = p1
    p2 = p2
    Sessions = {s1, s2}
    q1 = q1
    q2 = q2
    q3 = q3
    PRs = {q1, q2, q3}
    ValidPRs = {q1, q2}
    Panes = {p1, p2}
    NoPane = NoPane
    Names = {"test"}
    Instants = {0, 1, 2}
    Failed = Failed
    c1 = c1
    c2 = c2
    t1 = t1
    t2 = t2
    t3 = t3
    t4 = t4
    Calls = {c1, c2}
    NoCall = NoCall
    LogLength = 5
    Limit = 3
    Chips = {t1, t2, t3, t4}
    Colors = 3
SYMMETRY AnyName
INVARIANTS
    TypeOK
    EveryRowOnce
    AlertsReachUser
    OthersRest
    TablesAreQuiet
    VerdictIsEarned
    EjectionShows
    FeedIsFaithful
    FeedStaysPut
    ColorsTellApart
PROPERTIES
    LiveRowsStay
    GoneRowsLeave
