\* Both install paths: update-binary protocol and the script with its
\* interactive menu; the interactive-menu block opens, is absent, or fails to map.
CONSTANTS
    ReadSize = 1
    PipeCap = 2
    MaxOutput = 3
    MaxMenus = 1
    MaxCmds = 2
    FwTypes <- MCFwTypes
    ShmOutcomes <- MCShmAll
    NULL = NULL
    DEN = 2
    BarWidth = 2
    Portions <- MCPortions
    Fractions <- MCFractions
    Seconds <- MCSeconds
    MaxInstalls = 2
SPECIFICATION Spec
INVARIANT TypeOK
INVARIANT OneAnswerPerRequest
INVARIANT InstallOutcome
INVARIANT FailedUpdateStagesNothing
PROPERTY InstallTerminates
PROPERTY BarNeverBackward
CHECK_DEADLOCK FALSE
