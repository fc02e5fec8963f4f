--------------------------- MODULE MenuNavigation ---------------------------
(***************************************************************************)
(* The menu loop of prompt_and_wait (recovery.c): the stack of menu files  *)
(* (menu_files, menu_scripts, menu_sel, menu_level), the items currently   *)
(* parsed into MENU_ITEMS by create_menu, the highlighted item of          *)
(* get_menu_selection, and the handlers of the items that navigate or      *)
(* reload the menu.  A menu file is a name; its contents are the constant  *)
(* MenuDef.  Shell scripts (shell items and the scripts of scripted menus) *)
(* may create or delete menu files, which is how a reload can fail.        *)
(***************************************************************************)
EXTENDS Integers, Sequences, FiniteSets

CONSTANTS
    Files,         \* names of menu files under CUSTOM_MENU_PATH
    MainMenu,      \* MAIN_MENU_FILE
    MenuDef,       \* Files -> Seq(item): what create_menu parses from a file
    MaxMenuLevel,  \* MAX_MENU_LEVEL
    NULL           \* an absent menu_files entry

\* A parsed menu item: its action keyword, and for "menu" / "scripted_menu"
\* its target file ("..") for a pop) and whether a script drives it.
Actions == {"reboot", "shell", "tag", "menu", "scripted_menu", "label", "break"}
Items == [action : Actions, target : Files \cup {"..", "none"}, script : BOOLEAN]

ASSUME /\ MainMenu \in Files
       /\ MenuDef \in [Files -> Seq(Items)]
       /\ MaxMenuLevel \in Nat \ {0}
       /\ NULL \notin Files

Levels == 0..(MaxMenuLevel - 1)

VARIABLES
    menu_level,   \* index of the top of the stack
    menu_files,   \* Levels -> Files \cup {NULL}
    menu_scripts, \* Levels -> BOOLEAN: a driving script is recorded
    menu_sel,     \* Levels -> the selection to restore on return
    shown,        \* the file whose items MENU_ITEMS holds
    selected,     \* the highlighted item of get_menu_selection
    present,      \* menu files that exist on disk
    tags,         \* tag marker files that exist
    pc            \* "select", "hung" (selection loop spinning), "crashed"
                  \* (select_action on a NULL action), "done"

vars == <<menu_level, menu_files, menu_scripts, menu_sel, shown, selected,
          present, tags, pc>>

NumItems(f) == Len(MenuDef[f])
Item(f, i) == MenuDef[f][i + 1]          \* MENU_ITEMS[i], 0-based
ItemIdx(f) == 0..(NumItems(f) - 1)

\* MENU_ITEMS_SELECTABLE: break and label items are never selectable.
Selectable(f, i) == Item(f, i).action \notin {"break", "label"}
SelectableSet(f) == {i \in 0..(NumItems(f) - 1) : Selectable(f, i)}

\* Mutant of ClampSel: "if (start_sel > num_items)", one past the end kept.
ClampSelPastEnd(s, n) == IF s > n THEN (IF n - 1 < 0 THEN 0 ELSE n - 1) ELSE s

\* get_menu_selection: start_sel is clamped to the items of the menu.
ClampSel(s, n) == IF s >= n THEN (IF n - 1 < 0 THEN 0 ELSE n - 1) ELSE s

TypeOK ==
    /\ menu_level \in Levels
    /\ menu_files \in [Levels -> Files \cup {NULL}]
    /\ menu_scripts \in [Levels -> BOOLEAN]
    /\ menu_sel \in [Levels -> Nat]
    /\ shown \in Files
    /\ selected \in Int /\ selected >= -1
    /\ present \subseteq Files
    /\ tags \subseteq (Files \X Nat)
    /\ pc \in {"select", "hung", "crashed", "done"}

\* prompt_and_wait: menu_files[0] = MAIN_MENU_FILE and create_menu of it
\* has succeeded; the first selection starts at item 0.
Init ==
    /\ menu_level = 0
    /\ menu_files = [l \in Levels |-> IF l = 0 THEN MainMenu ELSE NULL]
    /\ menu_scripts = [l \in Levels |-> FALSE]
    /\ menu_sel = [l \in Levels |-> 0]
    /\ shown = MainMenu
    /\ selected = 0
    /\ present \in {P \in SUBSET Files : MainMenu \in P}
    /\ tags = {}
    /\ pc = "select"

-----------------------------------------------------------------------------
(* get_menu_selection: the highlight moves and wraps, skipping items that *)
(* are not selectable; with items but none selectable the loop never      *)
(* ends.  With no items at all, the down loop wraps to 0 and stops there  *)
(* (MENU_ITEMS_SELECTABLE[0] is 0xFF after delete_menu), and              *)
(* ui_menu_select clamps the highlight to menu_items - 1 = -1; the up loop *)
(* reads MENU_ITEMS_SELECTABLE[-1], outside the array, and either stops   *)
(* (then -1 again) or spins, as that byte happens to be.                  *)

NextDown(f, s) ==
    LET later == {j \in SelectableSet(f) : j > s}
    IN IF later # {} THEN CHOOSE j \in later : \A k \in later : j <= k
    ELSE CHOOSE j \in SelectableSet(f) : \A k \in SelectableSet(f) : j <= k

NextUp(f, s) ==
    LET earlier == {j \in SelectableSet(f) : j < s}
    IN IF earlier # {} THEN CHOOSE j \in earlier : \A k \in earlier : j >= k
    ELSE CHOOSE j \in SelectableSet(f) : \A k \in SelectableSet(f) : j >= k

HighlightDown ==
    /\ pc = "select"
    /\ CASE NumItems(shown) = 0 -> selected' = -1 /\ UNCHANGED pc
         [] SelectableSet(shown) = {} -> pc' = "hung" /\ UNCHANGED selected
         [] OTHER -> selected' = NextDown(shown, selected) /\ UNCHANGED pc
    /\ UNCHANGED <<menu_level, menu_files, menu_scripts, menu_sel, shown,
                   present, tags>>

HighlightUp ==
    /\ pc = "select"
    /\ CASE NumItems(shown) = 0 ->
              \/ selected' = -1 /\ UNCHANGED pc
              \/ pc' = "hung" /\ UNCHANGED selected
         [] SelectableSet(shown) = {} -> pc' = "hung" /\ UNCHANGED selected
         [] OTHER -> selected' = NextUp(shown, selected) /\ UNCHANGED pc
    /\ UNCHANGED <<menu_level, menu_files, menu_scripts, menu_sel, shown,
                   present, tags>>

\* The while(1) of HIGHLIGHT_UP / HIGHLIGHT_DOWN spinning forever.
Spin ==
    /\ pc = "hung"
    /\ UNCHANGED vars

-----------------------------------------------------------------------------
(* Helpers shared by the handlers.                                         *)

\* run_shell_script may create or delete any menu file.
RunScript == present' \in SUBSET Files

\* create_menu(fname, shellcmd): the driving script runs first, then the
\* file is opened; on fopen failure MENU_ITEMS is left as it was (-1 is
\* returned before delete_menu), otherwise it holds the file's items.
CreateMenu(f, script) ==
    /\ IF script THEN RunScript ELSE UNCHANGED present
    /\ shown' = IF f \in present' THEN f ELSE shown

\* The next loop iteration: get_menu_selection starts at the overridden
\* selection (or 0), clamped to the items now in MENU_ITEMS.
Reselect(s) == selected' = ClampSel(s, NumItems(shown'))

\* The chosen item, as the handlers see it.
Chosen == Item(shown, selected)

-----------------------------------------------------------------------------
(* The handlers of prompt_and_wait's switch on select_action.              *)

\* SELECT_ITEM on a menu with no items, the highlight still at the clamped
\* start 0: get_menu_selection returns 0 and select_action strcmp's
\* MENU_ITEMS_ACTION[0], which delete_menu left NULL.  (At -1 the key is
\* taken as no choice and the loop goes on.)
SelectEmptyMenu ==
    /\ pc = "select" /\ NumItems(shown) = 0 /\ selected = 0
    /\ pc' = "crashed"
    /\ UNCHANGED <<menu_level, menu_files, menu_scripts, menu_sel, shown,
                   selected, present, tags>>

\* ITEM_REBOOT: prompt_and_wait returns.
ItemReboot ==
    /\ pc = "select" /\ selected \in ItemIdx(shown)
    /\ Chosen.action = "reboot"
    /\ pc' = "done"
    /\ UNCHANGED <<menu_level, menu_files, menu_scripts, menu_sel, shown,
                   selected, present, tags>>

\* ITEM_SHELL_SCRIPT: run the script, then create_menu of the current
\* level (whose own driving script, if any, runs again), keep the selection.
ItemShellScript ==
    /\ pc = "select" /\ selected \in ItemIdx(shown)
    /\ Chosen.action = "shell"
    /\ RunScript
    /\ shown' = IF menu_files[menu_level] \in present'
                THEN menu_files[menu_level] ELSE shown
    /\ Reselect(selected)
    /\ UNCHANGED <<menu_level, menu_files, menu_scripts, menu_sel, tags, pc>>

\* ITEM_TAG: create the marker file when the tag is clear (creat may fail),
\* remove it when set; MENU_ITEMS is not reloaded; keep the selection.
ItemTag ==
    /\ pc = "select" /\ selected \in ItemIdx(shown)
    /\ Chosen.action = "tag"
    /\ LET t == <<shown, selected>>
       IN IF t \in tags THEN tags' = tags \ {t}
          ELSE tags' \in {tags, tags \cup {t}}
    /\ UNCHANGED <<menu_level, menu_files, menu_scripts, menu_sel, shown,
                   present, pc>>
    /\ Reselect(selected)

\* ITEM_ERROR: select_action does not know the action (a label or break
\* highlighted when the selection started on it); the next selection
\* starts at item 0.
ItemError ==
    /\ pc = "select" /\ selected \in ItemIdx(shown)
    /\ Chosen.action \in {"label", "break"}
    /\ UNCHANGED <<menu_level, menu_files, menu_scripts, menu_sel, shown,
                   present, tags, pc>>
    /\ Reselect(0)

\* Mutant of PopOnFailure: the "&& menu_level" guard is dropped, so a failed
\* reload at the main menu decrements the unsigned level.
PopOnFailureAtMain(level, files, scripts) ==
    IF shown' # files[level]
    THEN /\ menu_level' = level - 1
         /\ menu_files' = [files EXCEPT ![level] = NULL]
         /\ menu_scripts' = [scripts EXCEPT ![level] = FALSE]
    ELSE /\ menu_level' = level
         /\ menu_files' = files
         /\ menu_scripts' = scripts

\* Mutant of PopOnFailure: the popped level's script is not freed.
PopOnFailureKeepScript(level, files, scripts) ==
    IF shown' # files[level] /\ level > 0
    THEN /\ menu_level' = level - 1
         /\ menu_files' = [files EXCEPT ![level] = NULL]
         /\ menu_scripts' = scripts
    ELSE /\ menu_level' = level
         /\ menu_files' = files
         /\ menu_scripts' = scripts

\* After create_menu failed at a level above 0: "if fail, remove the new
\* menu" pops the top of the stack.
PopOnFailure(level, files, scripts) ==
    IF shown' # files[level] /\ level > 0
    THEN /\ menu_level' = level - 1
         /\ menu_files' = [files EXCEPT ![level] = NULL]
         /\ menu_scripts' = [scripts EXCEPT ![level] = FALSE]
    ELSE /\ menu_level' = level
         /\ menu_files' = files
         /\ menu_scripts' = scripts

\* ITEM_NEW_MENU with target "..": at a level above 0 the top is popped,
\* its saved selection cleared, and the parent's saved selection becomes
\* the next start; then the (new) top is re-created.
BackToParent ==
    LET lvl == IF menu_level > 0 THEN menu_level - 1 ELSE 0
        files == IF menu_level > 0
                 THEN [menu_files EXCEPT ![menu_level] = NULL] ELSE menu_files
        scripts == IF menu_level > 0
                   THEN [menu_scripts EXCEPT ![menu_level] = FALSE] ELSE menu_scripts
        sel == IF menu_level > 0
               THEN [menu_sel EXCEPT ![menu_level] = 0] ELSE menu_sel
        start == IF menu_level > 0 THEN menu_sel[menu_level - 1] ELSE 0
    IN /\ CreateMenu(files[lvl], scripts[lvl])
       /\ PopOnFailure(lvl, files, scripts)
       /\ menu_sel' = sel
       /\ Reselect(start)

\* ITEM_NEW_MENU with a file target: the current selection is saved, a
\* level is pushed and the file is created (no driving script).
OpenSubmenu(f) ==
    LET lvl == menu_level + 1
        files == [menu_files EXCEPT ![lvl] = f]
    IN /\ CreateMenu(f, menu_scripts[lvl])
       /\ PopOnFailure(lvl, files, menu_scripts)
       /\ menu_sel' = [menu_sel EXCEPT ![menu_level] = selected]
       /\ Reselect(0)

\* ITEM_NEW_MENU: ignored when menu_level + 1 >= MAX_MENU_LEVEL, whatever
\* the target; otherwise ".." or a push.
ItemNewMenu ==
    /\ pc = "select" /\ selected \in ItemIdx(shown)
    /\ Chosen.action = "menu"
    /\ \/ /\ menu_level + 1 >= MaxMenuLevel
          /\ UNCHANGED <<menu_level, menu_files, menu_scripts, menu_sel, shown,
                         present>>
          /\ Reselect(0)
       \/ /\ menu_level + 1 < MaxMenuLevel
          /\ Chosen.target = ".."
          /\ BackToParent
       \/ /\ menu_level + 1 < MaxMenuLevel
          /\ Chosen.target \in Files
          /\ OpenSubmenu(Chosen.target)
    /\ UNCHANGED <<tags, pc>>

\* ITEM_NEW_MENU_SCRIPTED, target "menufile:script": push the file with its
\* script recorded; create_menu runs the script before opening the file;
\* on failure the level and its script are discarded.
ItemNewMenuScripted ==
    /\ pc = "select" /\ selected \in ItemIdx(shown)
    /\ Chosen.action = "scripted_menu"
    /\ \/ /\ menu_level + 1 >= MaxMenuLevel
          /\ UNCHANGED <<menu_level, menu_files, menu_scripts, menu_sel, shown,
                         present>>
          /\ Reselect(0)
       \/ /\ menu_level + 1 < MaxMenuLevel
          /\ LET lvl == menu_level + 1
                 files == [menu_files EXCEPT ![lvl] = Chosen.target]
                 scripts == [menu_scripts EXCEPT ![lvl] = Chosen.script]
             IN /\ CreateMenu(Chosen.target, Chosen.script)
                /\ PopOnFailure(lvl, files, scripts)
          /\ menu_sel' = [menu_sel EXCEPT ![menu_level] = selected]
          /\ Reselect(0)
    /\ UNCHANGED <<tags, pc>>

Next ==
    \/ HighlightDown \/ HighlightUp \/ Spin
    \/ SelectEmptyMenu \/ ItemReboot \/ ItemShellScript \/ ItemTag \/ ItemError
    \/ ItemNewMenu \/ ItemNewMenuScripted

\* Keys arrive at the user's pace; nothing here is assumed to happen.
Spec == Init /\ [][Next]_vars

-----------------------------------------------------------------------------
(* Properties.                                                             *)

\* The stack of prompt_and_wait is well formed: exactly the levels up to
\* menu_level hold a menu file, and no level above the top keeps a driving
\* script (a later plain push there would run a stale script).
StackWellFormed ==
    \A l \in Levels :
        /\ (l <= menu_level) <=> (menu_files[l] # NULL)
        /\ l > menu_level => ~menu_scripts[l]

\* The items on screen are those of the menu at the top of the stack:
\* MENU_ITEMS always holds the parse of menu_files[menu_level].
ShownIsTop == pc = "select" => shown = menu_files[menu_level]

\* In a menu with items, get_menu_selection's highlight is always one of
\* them, whatever reloads happened: the start restored from menu_sel or
\* kept across a shell item is clamped to the items of the file actually
\* reloaded (which a failed create_menu leaves as the old one).
SelectionInRange ==
    pc = "select" /\ NumItems(shown) > 0 => selected \in ItemIdx(shown)

\* Whatever menu files the scripts leave, choosing an item never makes
\* select_action read an item that is not there (not checked by
\* MenuNavigation.cfg: an empty menu crashes, README "Known defects").
SelectsAnItem == pc # "crashed"

\* A key press in a menu is always answered: get_menu_selection never
\* spins in its highlight loop.
NoHang == pc # "hung"

=============================================================================
