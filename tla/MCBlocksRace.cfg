SPECIFICATION Spec
CONSTANTS
    s1 = s1
    s2 = s2
    s3 = s3
    c1 = c1
    c2 = c2
    p1 = p1
    None = None
    Sessions = {s1, s2}
    PRs = {}
    Commands = {c1, c2}
    Adders = {c1, c2}
INVARIANT
    NoCycleOfStayers
CHECK_DEADLOCK FALSE
