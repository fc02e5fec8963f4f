\* The same copy when write() may fail (ENOSPC, EIO).
CONSTANTS
    W = 3
    BUFSIZ = 2
    MaxLen = 4
    Faults = {"write_error"}
    NoFile = NoFile
SPECIFICATION Spec
PROPERTY CopyRefines
CHECK_DEADLOCK FALSE
