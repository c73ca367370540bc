SPECIFICATION FairSpec
CONSTANTS
    r1 = r1
    r2 = r2
    Rows = {r1, r2}
    ArmIdle = 2
    MaxPolls = 2
INVARIANTS
    OneRequestShown
    ArmedIsAttended
PROPERTY ComesUpToDate
