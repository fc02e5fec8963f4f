\* Lite build, a 2-entry key queue, menus of up to 4 items in a window of
\* 2 rows below one title row, 3 key presses and 1 beep per item.
CONSTANTS
    LITE = TRUE
    QueueMax = 2
    MaxItems = 4
    VisibleRows = 3
    HeaderRows <- MCHeaderRows
    MaxPresses = 3
    MaxBeeps = 1
SPECIFICATION Spec
INVARIANT TypeOK
INVARIANT SelectionVisible
INVARIANT EnvFromFile
INVARIANT ThemeFromFile
INVARIANT LogShowsLastRows
PROPERTY BeepEndsDark
CHECK_DEADLOCK FALSE
