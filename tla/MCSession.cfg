SPECIFICATION Spec
CONSTANTS
    Agents = {a1}
    Shells = {b1}
    Tools = {"Bash", "TaskStop"}
    None = None
    Main = Main
    StaleWorking = 1
    StaleInFlight = 1
    LaunchGrace = 0
    StaleShell = 0
    MaxDelay = 0
    Horizon = 1
    Lossy = {a1}
    Resumes = TRUE
INVARIANTS
    DialogShown
    TaskHoldsRow
    PromptIsReal
PROPERTIES
    RowSpec
