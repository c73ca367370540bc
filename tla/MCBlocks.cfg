SPECIFICATION FairSpec
CONSTANTS
    s1 = s1
    s2 = s2
    s3 = s3
    c1 = c1
    c2 = c2
    p1 = p1
    None = None
    Sessions = {s1, s2}
    PRs = {p1}
    Commands = {c1}
    Adders = {c1}
PROPERTY
    OrphansSwept
CHECK_DEADLOCK FALSE
