\* Three levels (MAX_MENU_LEVEL scaled from 50): the limit, "..", failed
\* loads and scripted menus all occur.  prompt_and_wait returns on reboot,
\* after which the controller reboots the device, so that state is final.
CONSTANTS
    Files <- MCFiles
    MainMenu = "main"
    MenuDef <- MCMenuDef
    MaxMenuLevel = 3
    NULL = NULL
SPECIFICATION Spec
INVARIANT TypeOK
INVARIANT StackWellFormed
INVARIANT SelectionInRange
CHECK_DEADLOCK FALSE
INVARIANT MenuFileParsed
