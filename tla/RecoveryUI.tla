----------------------------- MODULE RecoveryUI -----------------------------
(***************************************************************************)
(* The threads of ui.c around one menu of recovery.c.                      *)
(*  - input_thread: records held keys in key_pressed, appends presses to  *)
(*    key_queue under key_queue_mutex, and (Lite build) flips show_text   *)
(*    on the VOLUMEUP+HP chord under gUpdateMutex, after the queue step.  *)
(*  - the main thread in get_menu_selection: clears the queue, starts the *)
(*    menu (ui_start_menu: viewport of menu_items_screen rows from        *)
(*    menu_item_top), then waits for a key, reads ui_text_visible, maps   *)
(*    the key with device_handle_key and moves the selection with         *)
(*    ui_menu_select; a chosen item runs between ui_led_blink(1) and      *)
(*    ui_led_toggle(0) as in prompt_and_wait.                             *)
(*  - led_thread: drives the LED from led_sts under led_mutex, waiting on *)
(*    led_cond while the state is steady and sleeping while it blinks.    *)
(***************************************************************************)
EXTENDS Integers, Sequences

CONSTANTS
    LITE,           \* OPEN_RCVR_VERSION_LITE
    QueueMax,       \* entries of key_queue (256 in the code)
    MaxItems,       \* items of a menu
    VisibleRows,    \* MENU_MAX_VISIBLE_ROWS (28 in the code)
    HeaderRows,     \* possible menu_top: title plus header lines
    MaxPresses,     \* key presses the user makes
    MaxBeeps        \* ui_led_blink(0) calls while an item runs

\* The keys device_handle_key and device_toggle_display look at.
Keys == {"volup", "voldown", "center", "hp"}
\* led_sts values the callers set: ui_led_toggle(0), ui_led_blink(1),
\* ui_led_blink(0).
LedStates == {"off", "blink", "blink_once"}

VARIABLES
    key_pressed,    \* keys held down (key_pressed[code] = 1)
    key_queue,      \* keys pressed and not yet taken
    ipc,            \* input thread: "read" or "post" (after the queue step)
    lastKey,        \* the key the input thread is handling
    presses,        \* presses so far
    show_text,      \* text log visible
    mpc,            \* main thread: "start", "wait", "handle", "work"
    curKey,         \* key taken by ui_wait_key
    selected,       \* get_menu_selection's selected
    menu_items, menu_top, menu_items_screen, menu_sel, menu_item_top,
    beeps,          \* ui_led_blink(0) calls in the current item
    led_sts,        \* requested LED mode
    lpc,            \* led thread: "top", "wait_off", "sleep"
    led,            \* LED as written to sysfs: "on" or "off"
    state           \* led_thread's blink phase

inputVars == <<key_pressed, key_queue, ipc, lastKey, presses>>
menuVars == <<menu_items, menu_top, menu_items_screen, menu_sel,
              menu_item_top>>
ledVars == <<lpc, led, state>>
vars == <<inputVars, show_text, mpc, curKey, selected, menuVars, beeps,
          led_sts, ledVars>>

TypeOK ==
    /\ key_pressed \subseteq Keys
    /\ key_queue \in Seq(Keys) /\ Len(key_queue) <= QueueMax
    /\ ipc \in {"read", "post"}
    /\ lastKey \in Keys
    /\ presses \in 0..MaxPresses
    /\ show_text \in BOOLEAN
    /\ mpc \in {"start", "wait", "handle", "work"}
    /\ curKey \in Keys
    /\ selected \in 0..MaxItems
    /\ menu_items \in 0..MaxItems
    /\ menu_top \in HeaderRows
    /\ menu_items_screen \in 0..VisibleRows
    /\ menu_sel \in Int
    /\ menu_item_top \in Int
    /\ beeps \in 0..MaxBeeps
    /\ led_sts \in LedStates
    /\ lpc \in {"top", "wait_off", "sleep"}
    /\ led \in {"on", "off"}
    /\ state \in {0, 1}

\* ui_init: show_text is 0 in the Lite build and 1 in the full build
\* (ui.c:184-186); the led thread starts at the top of its loop with
\* led_sts = LED_OFF.
Init ==
    /\ key_pressed = {}
    /\ key_queue = <<>>
    /\ ipc = "read"
    /\ lastKey = "hp"
    /\ presses = 0
    /\ show_text = ~LITE
    /\ mpc = "start"
    /\ curKey = "hp"
    /\ selected = 0
    /\ menu_items = 0 /\ menu_top \in HeaderRows /\ menu_items_screen = 0
    /\ menu_sel = 0 /\ menu_item_top = 0
    /\ beeps = 0
    /\ led_sts = "off"
    /\ lpc = "top"
    /\ led = "off"
    /\ state = 0

-----------------------------------------------------------------------------
(* input_thread                                                            *)

\* Mutant of Enqueue: the key is appended without the queue_max test.
EnqueueUnbounded(k) == Append(key_queue, k)

\* key_queue[key_queue_len++] = ev.code, only while key_queue_len < queue_max.
Enqueue(k) == IF Len(key_queue) < QueueMax THEN Append(key_queue, k)
              ELSE key_queue

\* A key-down event (ev.value = 1): recorded in key_pressed and queued
\* under key_queue_mutex.  Trackball REL_Y events faking up/down keys are
\* not modelled.
KeyDown(k) ==
    /\ ipc = "read" /\ k \notin key_pressed /\ presses < MaxPresses
    /\ key_pressed' = key_pressed \cup {k}
    /\ key_queue' = Enqueue(k)
    /\ lastKey' = k
    /\ presses' = presses + 1
    /\ ipc' = "post"
    /\ UNCHANGED <<show_text, mpc, curKey, selected, menuVars, beeps, led_sts,
                   ledVars>>

\* A key-up event (ev.value = 0): key_pressed cleared, nothing queued, and
\* the ev.value > 0 hot-key tests do not apply.
KeyUp(k) ==
    /\ ipc = "read" /\ k \in key_pressed
    /\ key_pressed' = key_pressed \ {k}
    /\ UNCHANGED <<key_queue, ipc, lastKey, presses, show_text, mpc, curKey,
                   selected, menuVars, beeps, led_sts, ledVars>>

\* device_toggle_display (default_recovery_ui.c:31-35).
ToggleDisplay(held, k) == \/ "volup" \in held /\ k = "hp"
                          \/ "hp" \in held /\ k = "volup"

\* After unlocking the queue: in the Lite build the chord flips show_text
\* under gUpdateMutex; device_reboot_now is always 0.
InputPost ==
    /\ ipc = "post"
    /\ show_text' = IF LITE /\ ToggleDisplay(key_pressed, lastKey)
                    THEN ~show_text ELSE show_text
    /\ ipc' = "read"
    /\ UNCHANGED <<key_pressed, key_queue, lastKey, presses, mpc, curKey,
                   selected, menuVars, beeps, led_sts, ledVars>>

-----------------------------------------------------------------------------
(* get_menu_selection, ui_start_menu, ui_menu_select                       *)

\* get_menu_selection's clamp of start_sel to the items (recovery.c:409-413).
ClampStart(s, n) == IF s >= n THEN n - 1 ELSE s

\* ui_start_menu: menu_items_screen = min(menu_items, rows below headers).
ScreenRows(n, top) == IF n < VisibleRows - top THEN n ELSE VisibleRows - top

\* ui_clear_key_queue, then ui_start_menu(headers, items, ., start_sel).
StartMenu ==
    /\ mpc = "start"
    /\ \E n \in 1..MaxItems, s \in 0..MaxItems, top \in HeaderRows :
         LET sel == ClampStart(s, n)
             scr == ScreenRows(n, top)
         IN /\ selected' = sel
            /\ menu_items' = n
            /\ menu_top' = top
            /\ menu_items_screen' = scr
            /\ menu_sel' = sel
            /\ menu_item_top' = IF sel >= scr THEN sel - scr + 1 ELSE 0
    /\ key_queue' = <<>>
    /\ mpc' = "wait"
    /\ UNCHANGED <<key_pressed, ipc, lastKey, presses, show_text, curKey,
                   beeps, led_sts, ledVars>>

\* ui_wait_key: blocks on key_queue_cond until a key is queued.
WaitKey ==
    /\ mpc = "wait" /\ key_queue # <<>>
    /\ curKey' = Head(key_queue)
    /\ key_queue' = Tail(key_queue)
    /\ mpc' = "handle"
    /\ UNCHANGED <<key_pressed, ipc, lastKey, presses, show_text, selected,
                   menuVars, beeps, led_sts, ledVars>>

\* device_handle_key (default_recovery_ui.c:42-61): nothing unless visible.
HandleKeyAction(k, visible) ==
    IF ~visible THEN "none"
    ELSE CASE k = "voldown" -> "down"
           [] k = "volup"   -> "up"
           [] k = "center"  -> "select"
           [] OTHER         -> "none"

\* Mutant of ScrollDown: scrolls only once the selection is past the row
\* after the last visible one.
ScrollDownLate(sel, top, scr) == IF sel > top + scr THEN sel - scr + 1 ELSE top

\* ui_menu_select's scroll when the selection leaves the window below.
ScrollDown(sel, top, scr) == IF sel >= top + scr THEN sel - scr + 1 ELSE top

\* ui_menu_select(sel): clamp to the items, then scroll the window to it
\* if the selection changed; get_menu_selection keeps the returned value.
MenuSelect(sel) ==
    LET s1 == IF sel < 0 THEN 0 ELSE sel
        s == IF s1 >= menu_items THEN menu_items - 1 ELSE s1
    IN /\ menu_sel' = s
       /\ menu_item_top' =
            IF s = menu_sel THEN menu_item_top
            ELSE IF s < menu_item_top THEN s
            ELSE ScrollDown(s, menu_item_top, menu_items_screen)
       /\ selected' = s

\* One pass of get_menu_selection's loop after the key: ui_text_visible is
\* read now (a separate lock from the queue's), then the highlight wraps
\* (every item selectable, as with ignore_selectability) or the item is
\* chosen and prompt_and_wait's handler starts with ui_led_blink(1).
HandleKey ==
    /\ mpc = "handle"
    /\ LET a == HandleKeyAction(curKey, show_text) IN
         CASE a = "down" ->
                /\ MenuSelect(IF selected + 1 >= menu_items THEN 0
                              ELSE selected + 1)
                /\ mpc' = "wait" /\ UNCHANGED led_sts
           [] a = "up" ->
                /\ MenuSelect(IF selected - 1 < 0 THEN menu_items - 1
                              ELSE selected - 1)
                /\ mpc' = "wait" /\ UNCHANGED led_sts
           [] a = "select" ->
                /\ mpc' = "work" /\ led_sts' = "blink"
                /\ UNCHANGED <<selected, menu_sel, menu_item_top>>
           [] OTHER ->
                /\ mpc' = "wait"
                /\ UNCHANGED <<selected, menu_sel, menu_item_top, led_sts>>
    /\ UNCHANGED <<inputVars, show_text, curKey, menu_items, menu_top,
                   menu_items_screen, beeps, ledVars>>

\* While an item runs, the console's BEL calls ui_led_blink(0).
Beep ==
    /\ mpc = "work" /\ beeps < MaxBeeps
    /\ led_sts' = "blink_once"
    /\ beeps' = beeps + 1
    /\ UNCHANGED <<inputVars, show_text, mpc, curKey, selected, menuVars,
                   ledVars>>

\* The handler ends with ui_led_toggle(0) and the loop shows the menu again.
WorkDone ==
    /\ mpc = "work"
    /\ led_sts' = "off"
    /\ beeps' = 0
    /\ mpc' = "start"
    /\ UNCHANGED <<inputVars, show_text, curKey, selected, menuVars, ledVars>>

-----------------------------------------------------------------------------
(* led_thread                                                              *)

\* Mutant of BlinkOnceNext: the thread does not reset the mode after the
\* flash, so every pass lights the LED again.
BlinkOnceKept == led_sts

\* LED_BLINK_ONCE: the thread itself sets led_sts = LED_OFF after the flash.
BlinkOnceNext == "off"

\* One pass of the switch under led_mutex.  LED_OFF writes the LED and
\* waits on led_cond while the mode is unchanged (LED_ON, the same for the
\* lit LED, is never requested: no caller passes ui_led_toggle(1)); LED_BLINK_ONCE
\* lights it and turns the mode off; LED_BLINK flips the phase; both of the
\* latter then sleep 500 ms outside the mutex.
LedTop ==
    /\ lpc = "top"
    /\ CASE led_sts = "off" ->
              /\ led' = "off" /\ state' = 0 /\ lpc' = "wait_off"
              /\ UNCHANGED led_sts
         [] led_sts = "blink_once" ->
              /\ led' = "on" /\ state' = 1 /\ lpc' = "sleep"
              /\ led_sts' = BlinkOnceNext
         [] led_sts = "blink" ->
              /\ state' = 1 - state
              /\ led' = (IF state = 0 THEN "on" ELSE "off")
              /\ lpc' = "sleep" /\ UNCHANGED led_sts
    /\ UNCHANGED <<inputVars, show_text, mpc, curKey, selected, menuVars,
                   beeps>>

\* pthread_cond_wait returns after ui_led_toggle/ui_led_blink changed the
\* mode and signalled; the while test fails and the loop restarts.
LedWake ==
    /\ lpc = "wait_off" /\ led_sts # "off"
    /\ lpc' = "top"
    /\ UNCHANGED <<inputVars, show_text, mpc, curKey, selected, menuVars,
                   beeps, led_sts, led, state>>

\* usleep(waitperiod) ends.
LedSleep ==
    /\ lpc = "sleep"
    /\ lpc' = "top"
    /\ UNCHANGED <<inputVars, show_text, mpc, curKey, selected, menuVars,
                   beeps, led_sts, led, state>>

-----------------------------------------------------------------------------

InputThread == InputPost
User == \E k \in Keys : KeyDown(k) \/ KeyUp(k)
MainThread == StartMenu \/ WaitKey \/ HandleKey
Item == Beep \/ WorkDone
LedThread == LedTop \/ LedWake \/ LedSleep

Next == InputThread \/ User \/ MainThread \/ Item \/ LedThread

\* The three threads are always runnable when enabled.  The user's keys and
\* how long a chosen item runs (a console session, a script) are not fair.
Spec == Init /\ [][Next]_vars
        /\ WF_vars(InputThread) /\ WF_vars(MainThread) /\ WF_vars(LedThread)

-----------------------------------------------------------------------------
(* Properties                                                              *)

\* The highlighted item is inside the window ui_start_menu and
\* ui_menu_select keep on screen, and the UI's menu_sel is the selection
\* get_menu_selection will return (ui.c:1260-1273, 1288-1314).
SelectionVisible ==
    mpc \in {"wait", "handle"} =>
        /\ menu_sel = selected
        /\ menu_item_top <= menu_sel
        /\ menu_sel < menu_item_top + menu_items_screen

\* After a console beep (ui_led_blink(0)) the LED goes dark again, even if
\* the item that beeped never ends (led_thread's LED_BLINK_ONCE case).
BeepEndsDark == (led_sts = "blink_once") ~> (led = "off")

=============================================================================
