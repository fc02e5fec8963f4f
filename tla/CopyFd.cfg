\* cp of one regular file over a file system that returns short counts and
\* fails opens and closes; size_t is 3 bits wide so the ULONG_MAX limit and
\* the wrap of total + BUFSIZ are reached by an 8-byte source.  cp -r walks
\* trees of depth 2 under /s: paths of 4 names leave room for d/s/a/b.
CONSTANTS
    W = 3
    BUFSIZ = 3
    MaxLen = 9
    Faults = {"short_read", "short_write", "open_error", "close_error"}
    NoFile = NoFile
    Names = {"a", "b", "d", "s"}
    MaxHops = 2
    PathMax = 4
SPECIFICATION Spec
INVARIANT TypeOK
INVARIANT CpRecursiveCopy CpDerefCopy
PROPERTY CopyRefines CopyTerminates
CHECK_DEADLOCK FALSE
