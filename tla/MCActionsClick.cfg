SPECIFICATION Spec
CONSTANTS
    s1 = s1
    s2 = s2
    real = real
    link = link
    p1 = p1
    r1 = r1
    r2 = r2
    Sessions = {s1, s2}
    Panes = {p1}
    Paths = {real, link}
    Cwd <- MCCwd
    Real <- MCReal
    Requests = {r1, r2}
    Kinds = {"reload-plugins", "new-monitor", "end"}
    None = None
INVARIANT TypeOK
PROPERTY ClickSparesPrompts
