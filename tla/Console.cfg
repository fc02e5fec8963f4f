\* The console pump and the console surface: a 5-row grid (3 history rows,
\* shift by 2) shown 2 rows at a time, 5 text columns (so a tab both stays
\* on the line and wraps), an 8-byte escape buffer and parameters[3].
CONSTANTS
    TotalRows = 5
    BufferRows = 2
    ScreenRows = 2
    ScreenColumns = 7
    EscBufSize = 8
    MaxParams = 3
    Digits = {"3"}
    MaxChars = 5
    MaxKeys = 2
SPECIFICATION Spec
INVARIANT TypeOK
INVARIANT ColumnInLine
PROPERTY ForceQuitEnds
CHECK_DEADLOCK FALSE
