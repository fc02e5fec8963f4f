\* Lite build with the full-version package present: command-driven
\* operations, power loss at any step, take-over by the full build.
CONSTANTS
    LITE = TRUE
    FullPackage = TRUE
    MaxCrashes = 2
SPECIFICATION Spec
INVARIANT TypeOK
INVARIANT NoLostOperation
PROPERTY ResumeAccepted
PROPERTY AcceptedEventuallyFinished
