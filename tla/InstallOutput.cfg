\* Script path: does all of the script's output reach the screen?
CONSTANTS
    ReadSize = 1
    PipeCap = 2
    MaxOutput = 3
    MaxMenus = 1
    MaxCmds = 3
    FwTypes <- MCFwTypes
    ShmOutcomes <- MCShmOK
    NULL = NULL
    DEN = 2
    BarWidth = 2
    Portions <- MCPortions
    Fractions <- MCFractions
    Seconds <- MCSeconds
    MaxInstalls = 2
SPECIFICATION Spec
CHECK_DEADLOCK FALSE
INVARIANT AllOutputForwarded
