SPECIFICATION RowOrRestartSpec
CONSTANTS
    Agents = {a1}
    Shells = {b1}
    Tools = {"Bash", "AskUserQuestion", "TaskStop"}
    None = None
    Main = Main
    StaleWorking = 1
    StaleInFlight = 2
    LaunchGrace = 0
    StaleShell = 2
    MaxDelay = 1
    Horizon = 2
    ExitWait = 3
    ResumeWait = 2
INVARIANTS
    RowTypeOK
    BusySubKeepsRow
    ReportIsTrue
PROPERTIES
    SilentStopWantsUser
    KeysLandWhereMeant
    Returns
