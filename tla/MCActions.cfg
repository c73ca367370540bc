SPECIFICATION CalmFairSpec
CONSTANTS
    s1 = s1
    s2 = s2
    real = real
    link = link
    p1 = p1
    p2 = p2
    r1 = r1
    r2 = r2
    Sessions = {s1, s2}
    Panes = {p1, p2}
    Paths = {real, link}
    Cwd <- MCCwd
    Real <- MCReal
    Requests = {r1, r2}
    Kinds = {"merge", "broadcast-reload", "broadcast-restart"}
    None = None
INVARIANTS LocksMatch WorktreeExclusive
PROPERTIES Returns LockTable
