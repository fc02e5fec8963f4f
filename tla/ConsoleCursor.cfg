\* The console surface alone (no keys): nine characters of shell output
\* on a 5-row grid shown 2 rows at a time.
CONSTANTS
    TotalRows = 5
    BufferRows = 2
    ScreenRows = 2
    ScreenColumns = 7
    EscBufSize = 8
    MaxParams = 3
    Digits = {"3"}
    MaxChars = 9
    MaxKeys = 0
SPECIFICATION Spec
INVARIANT CursorInGrid
CHECK_DEADLOCK FALSE
