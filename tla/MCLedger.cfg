SPECIFICATION Spec
CONSTANTS
    s1 = s1
    s2 = s2
    p1 = p1
    p2 = p2
    r1 = r1
    r2 = r2
    Sessions = {s1, s2}
    PRs = {p1, p2}
    Renders = {r1, r2}
    TTL = 2
    Max = 1
    MaxRender = 1
    MaxClock = 2
    None = None
SYMMETRY Symmetry
INVARIANTS
    TypeOK
    FinalIsTrue
PROPERTY KeptForTTL
