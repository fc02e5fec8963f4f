\* Does MENU_ITEMS always hold the menu at the top of the stack?
CONSTANTS
    Files <- MCFiles
    MainMenu = "main"
    MenuDef <- MCMenuDef
    MaxMenuLevel = 3
    NULL = NULL
SPECIFICATION Spec
INVARIANT ShownIsTop
CHECK_DEADLOCK FALSE
