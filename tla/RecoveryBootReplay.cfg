\* Lite build, one power loss: is a finished command ever carried out again?
CONSTANTS
    LITE = TRUE
    FullPackage = FALSE
    MaxCrashes = 1
SPECIFICATION Spec
INVARIANT NoCommandReplay
