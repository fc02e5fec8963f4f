------------------------------ MODULE Console ------------------------------
(***************************************************************************)
(* The interactive console of the full build: run_console's pump between  *)
(* the shell's pseudoterminal and the key queue (console.c), and the      *)
(* console surface of ui.c that the shell's output is printed on: the     *)
(* cursor state machine console_put_char, the ANSI escape accumulator      *)
(* console_put_escape_sequence / console_unescape, the end-of-print       *)
(* scroll anchoring of ui_console_print and the user's scroll keys.       *)
(*                                                                         *)
(* The grid's characters and colours are data and are left out; the      *)
(* cursor, the anchor rows and the escape buffer are kept exactly.        *)
(***************************************************************************)
EXTENDS Integers, Sequences

CONSTANTS
    TotalRows,      \* CONSOLE_TOTAL_ROWS: history plus buffer rows
    BufferRows,     \* CONSOLE_BUFFER_ROWS: rows discarded by one shift
    ScreenRows,     \* console_screen_rows
    ScreenColumns,  \* console_screen_columns (one more than the text columns)
    EscBufSize,     \* sizeof console_escaped_buffer
    MaxParams,      \* length of console_unescape's parameters[]
    Digits,         \* the decimal digits ("0".."9") the output may contain
    MaxChars,       \* bound on the characters the shell prints
    MaxKeys         \* bound on the keys the user presses

\* The characters of the shell's output, abstracted: every printable
\* character is "x"; "esc" is CONSOLE_ESC.
Controls == {"lf", "cr", "tab", "bs", "bel"}
TextChars == Controls \cup {"x", "esc"}
\* Characters console_put_escape_sequence accumulates without ending the
\* sequence ('(' and ')' behave as '?' and are folded into it).
EscMiddle == {"[", "?", ";"} \cup Digits
\* The characters '0' to '9' and their values (*ptr - '0').
DecimalChars == <<"0", "1", "2", "3", "4", "5", "6", "7", "8", "9">>
DigitValue(c) == CHOOSE i \in 0..9 : DecimalChars[i + 1] = c
\* Final characters: the recognised commands, and "x" for any other.
EscFinal == {"A", "B", "C", "D", "H", "J", "m", "x"}

\* The keys run_console tells apart after evaluate_key.
KeyKinds == {"scroll_up", "scroll_down", "big_scroll_up", "big_scroll_down",
             "arrow", "char", "unmapped", "nothing",
             "menu_modifier", "menu_letter", "menu_alt_c"}

VARIABLES
    con,         \* console_cur_row/_column, _top_row, _force_top_row_*
    esc_state,   \* console_escaped_state
    esc_buf,     \* console_escaped_buffer up to console_escaped_sequence
    overrun,     \* a write outside console_escaped_buffer or parameters[]
    cpc,         \* run_console's place
    pty,         \* output of the shell not read yet
    child,       \* the shell: running, or how it ended
    force_quit,
    result,      \* run_console's return value
    printed,     \* characters printed so far (bounded)
    keys         \* keys pressed so far (bounded)

vars == <<con, esc_state, esc_buf, overrun, cpc, pty, child, force_quit,
          result, printed, keys>>

Cursor == [cur_row : Int, cur_column : Int, top_row : Int,
           force_top_row_on_text : Int, force_top_row_reserve : Int]

TypeOK ==
    /\ con \in Cursor /\ con.top_row \in Nat
    /\ esc_state \in BOOLEAN
    /\ esc_buf \in Seq(EscMiddle)
    /\ overrun \in BOOLEAN
    /\ cpc \in {"start", "read", "wait", "print", "key", "exit", "done"}
    /\ pty \in BOOLEAN
    /\ child \in {"none", "running", "exited_ok", "exited_fail", "signalled",
                  "killed"}
    /\ force_quit \in BOOLEAN
    /\ result \in {"none", "zero", "status", "force_quit", "failure",
                   "failed_start"}
    /\ printed \in 0..MaxChars
    /\ keys \in 0..MaxKeys

-----------------------------------------------------------------------------
(* ui_console_begin and console_put_char                                   *)

\* ui_console_begin's reset of the cursor and the anchor.
ConsoleBegin == [cur_row |-> 0, cur_column |-> 0, top_row |-> 0,
                 force_top_row_on_text |-> 0,
                 force_top_row_reserve |-> 1 - ScreenRows]

\* Advance to the next row, reserving one more anchor row.
NewRow(s) == [s EXCEPT !.cur_row = @ + 1, !.force_top_row_reserve = @ + 1]

\* The switch of console_put_char.  Tab stops are every 5 columns.
PutCharRaw(s, c) ==
    CASE c = "lf"  -> NewRow(s)
      [] c = "cr"  -> [s EXCEPT !.cur_column = 0]
      [] c = "tab" ->
           LET end == s.cur_column + (5 - (s.cur_column % 5)) IN
           IF end >= ScreenColumns - 2
           THEN [NewRow(s) EXCEPT !.cur_column = 0]
           ELSE [s EXCEPT !.cur_column = end]
      [] c = "bs"  ->
           IF s.cur_column = 0
           THEN IF s.cur_row = 0 THEN s
                ELSE [s EXCEPT !.cur_column = ScreenColumns - 2,
                               !.cur_row = @ - 1]
           ELSE [s EXCEPT !.cur_column = @ - 1]
      [] c = "bel" -> s
      [] OTHER     ->
           IF s.cur_column + 1 > ScreenColumns - 2
           THEN [NewRow(s) EXCEPT !.cur_column = 0]
           ELSE [s EXCEPT !.cur_column = @ + 1]

\* When the cursor row reaches CONSOLE_TOTAL_ROWS the rows are shifted up
\* by CONSOLE_BUFFER_ROWS, and the cursor and the anchor with them.
ShiftRows(s) ==
    IF s.cur_row = TotalRows
    THEN LET shift == s.cur_row - (TotalRows - BufferRows) IN
         [s EXCEPT !.cur_row = @ - shift, !.force_top_row_on_text = @ - shift]
    ELSE s

PutChar(s, c) == ShiftRows(PutCharRaw(s, c))

\* console_unescape's fallback: '^' and then every character of the
\* buffer, the final one included, through console_put_char; all but the
\* control characters print as ordinary characters.
RECURSIVE PutEcho(_, _)
PutEcho(s, buf) ==
    IF Len(buf) = 0 THEN s
    ELSE PutEcho(PutChar(s, IF Head(buf) \in Controls THEN Head(buf) ELSE "x"),
                 Tail(buf))

-----------------------------------------------------------------------------
(* console_put_escape_sequence and console_unescape                        *)

\* The counters of console_unescape's parse loop.  params holds
\* parameters[0..noParameters]; wild records a digit stored at an index
\* of parameters[] past its end.
ParseInit == [sqr |-> 0, question |-> 0, params |-> <<0>>, argument |-> "none",
              wild |-> FALSE]

\* One character of the parse loop other than the final one.
ParseStep(acc, c) ==
    CASE c = "[" -> [acc EXCEPT !.sqr = @ + 1]
      [] c = "?" -> [acc EXCEPT !.question = @ + 1]
      [] c = ";" -> [acc EXCEPT !.params = Append(@, 0)]
      [] OTHER   ->
           LET i == Len(acc.params) IN
           [acc EXCEPT !.params[i] = @ * 10 + DigitValue(c),
                       !.wild = @ \/ i > MaxParams]

\* The loop runs until the first character that is none of [ ( ) ? ; 0-9,
\* which becomes the argument.
RECURSIVE ParseEsc(_, _)
ParseEsc(buf, acc) ==
    IF Len(buf) = 0 THEN acc
    ELSE IF Head(buf) \in EscMiddle THEN ParseEsc(Tail(buf), ParseStep(acc, Head(buf)))
    ELSE [acc EXCEPT !.argument = Head(buf)]

\* parameters[i], zero beyond those parsed (the array is memset to 0).
Param(p, i) == IF i < Len(p.params) THEN p.params[i + 1] ELSE 0

\* Only ESC [ <params> <A|B|C|D|H|J|m> with no ( ) ? is interpreted.
Recognised(p) ==
    /\ p.sqr = 1 /\ p.question = 0
    /\ p.argument \in {"A", "B", "C", "D", "H", "J", "m"}

\* console_force_top_row_reserve = 1 - (top + console_screen_rows - row).
Reserve(top, row) == 1 - (top + ScreenRows - row)

\* Mutant of ClampColumn: clamps one column too far right.
ClampColumnLate(c0) == IF c0 >= ScreenColumns THEN ScreenColumns - 1 ELSE c0

\* The right-margin clamp of 'C' and of 'H''s column parameter.
ClampColumn(c0) == IF c0 >= ScreenColumns - 1 THEN ScreenColumns - 2 ELSE c0

\* The cursor after console_unescape of the complete buffer.
UnescapeCursor(s, buf) ==
    LET p == ParseEsc(buf, ParseInit)
        force == s.force_top_row_on_text
    IN IF ~Recognised(p) THEN PutEcho(PutChar(s, "x"), buf)
       ELSE CASE p.argument = "A" ->
                   LET r0 == s.cur_row - Param(p, 0)
                       r == IF force > r0 THEN force ELSE r0
                   IN [s EXCEPT !.cur_row = r,
                                !.force_top_row_reserve = Reserve(force, r)]
              [] p.argument = "B" ->
                   LET r0 == s.cur_row + Param(p, 0)
                       r == IF r0 >= force + ScreenRows
                            THEN force + ScreenRows - 1 ELSE r0
                   IN [s EXCEPT !.cur_row = r,
                                !.force_top_row_reserve = Reserve(force, r)]
              [] p.argument = "C" ->
                   [s EXCEPT !.cur_column = ClampColumn(@ + Param(p, 0))]
              [] p.argument = "D" ->
                   LET c0 == s.cur_column - Param(p, 0) IN
                   [s EXCEPT !.cur_column = IF c0 < 0 THEN 0 ELSE c0]
              [] p.argument = "H" ->
                   LET r == IF Param(p, 0) >= ScreenRows
                            THEN ScreenRows - 1 ELSE Param(p, 0)
                       c == ClampColumn(Param(p, 1))
                   IN [s EXCEPT !.cur_row = s.top_row + r, !.cur_column = c,
                                !.force_top_row_on_text = s.top_row,
                                !.force_top_row_reserve =
                                    Reserve(s.top_row, s.top_row + r)]
              [] OTHER -> s    \* J clears cells, m sets the colour

\* A write outside parameters[]: a digit past its end, or the 'm' loop
\* reading parameters[0..noParameters-1].
UnescapeOverrun(buf) ==
    LET p == ParseEsc(buf, ParseInit) IN
    \/ p.wild
    \/ Recognised(p) /\ p.argument = "m" /\ Len(p.params) > MaxParams

\* console_put_escape_sequence(c): store c at console_escaped_sequence; a
\* final character is followed by '\0' and the buffer is interpreted.
PutEscape(c) ==
    LET buf == Append(esc_buf, c)
        final == c \notin EscMiddle
    IN /\ esc_buf' = IF final THEN <<>> ELSE buf
       /\ esc_state' = ~final
       /\ con' = IF final THEN UnescapeCursor(con, buf) ELSE con
       /\ overrun' = \/ overrun
                     \/ Len(esc_buf) >= EscBufSize
                     \/ final /\ Len(esc_buf) + 1 >= EscBufSize
                     \/ final /\ UnescapeOverrun(buf)

\* One character of ui_console_print's loop.  ESC starts a new sequence
\* in any state.
PrintChar(c) ==
    \/ c = "esc" /\ esc_state' = TRUE /\ esc_buf' = <<>>
       /\ UNCHANGED <<con, overrun>>
    \/ c # "esc" /\ ~esc_state /\ con' = PutChar(con, c)
       /\ UNCHANGED <<esc_state, esc_buf, overrun>>
    \/ c # "esc" /\ esc_state /\ PutEscape(c)

\* The end of ui_console_print: a positive reserve moves the anchor down,
\* and the view is put on the anchor.
Anchor(s) ==
    LET t == IF s.force_top_row_reserve > 0
             THEN [s EXCEPT !.force_top_row_on_text = @ + s.force_top_row_reserve,
                            !.force_top_row_reserve = 0]
             ELSE s
    IN [t EXCEPT !.top_row = IF t.force_top_row_on_text < 0 THEN 0
                             ELSE t.force_top_row_on_text]

\* ui_console_print of text without ESC (the banner of run_console).
RECURSIVE PrintText(_, _)
PrintText(s, text) ==
    IF Len(text) = 0 THEN Anchor(s)
    ELSE PrintText(PutChar(s, Head(text)), Tail(text))

\* Mutant of ScrollUp: the view is moved up without the clamp at row 0.
ScrollUpUnclamped(s, n) == [s EXCEPT !.top_row = @ - n]

\* ui_console_scroll_up(n).
ScrollUp(s, n) ==
    [s EXCEPT !.top_row = IF @ - n < 0 THEN 0 ELSE @ - n]

\* ui_console_scroll_down(n): not past the cursor's page or the anchor.
ScrollDown(s, n) ==
    LET m0 == s.cur_row - ScreenRows + 1
        m1 == IF m0 < s.force_top_row_on_text THEN s.force_top_row_on_text
              ELSE m0
        max_row_top == IF m1 < 0 THEN 0 ELSE m1
    IN [s EXCEPT !.top_row = IF @ + n > max_row_top THEN max_row_top
                             ELSE @ + n]

-----------------------------------------------------------------------------
(* run_console                                                             *)

\* The banner: three lines ending in "\r\n".
Banner == <<"x", "cr", "lf", "x", "cr", "lf", "x", "cr", "lf">>

Init ==
    /\ con = ConsoleBegin
    /\ esc_state = FALSE /\ esc_buf = <<>> /\ overrun = FALSE
    /\ cpc = "start" /\ pty = FALSE /\ child = "none"
    /\ force_quit = FALSE /\ result = "none"
    /\ printed = 0 /\ keys = 0

\* init_console (ui_console_begin) and create_subprocess.  A failed
\* /dev/ptmx, grantpt or fork ends the console at once; otherwise the
\* banner is printed and the pump loop starts.
Start ==
    /\ cpc = "start"
    /\ esc_state' = FALSE /\ esc_buf' = <<>>
    /\ \/ /\ result' = "failed_start" /\ cpc' = "done"
          /\ con' = ConsoleBegin
          /\ UNCHANGED child
       \/ /\ child' = "running" /\ cpc' = "read"
          /\ con' = PrintText(ConsoleBegin, Banner)
          /\ UNCHANGED result
    /\ UNCHANGED <<overrun, pty, force_quit, printed, keys>>

\* Mutant of Kill: the blocking waitpid without the SIGKILL before it.
KillMissing ==
    /\ cpc = "read" /\ force_quit /\ child # "running"
    /\ cpc' = "exit"
    /\ UNCHANGED <<con, esc_state, esc_buf, overrun, pty, child, force_quit,
                   result, printed, keys>>

\* The top of the loop after a forced quit: SIGKILL, a blocking waitpid
\* and out of the loop.  A shell that already ended is only reaped.
Kill ==
    /\ cpc = "read" /\ force_quit
    /\ child' = IF child = "running" THEN "killed" ELSE child
    /\ cpc' = "exit"
    /\ UNCHANGED <<con, esc_state, esc_buf, overrun, pty, force_quit, result,
                   printed, keys>>

\* read(childfd): output is printed; with none, EAGAIN leads to the
\* waitpid(WNOHANG) test, and once the shell has closed the terminal the
\* read fails, a blocking waitpid reaps it and the loop ends.
ReadPty ==
    /\ cpc = "read" /\ ~force_quit
    /\ \/ pty /\ cpc' = "print" /\ pty' = FALSE
       \/ ~pty /\ child = "running" /\ cpc' = "wait" /\ UNCHANGED pty
       \/ ~pty /\ child # "running" /\ cpc' = "exit" /\ UNCHANGED pty
    /\ UNCHANGED <<con, esc_state, esc_buf, overrun, child, force_quit, result,
                   printed, keys>>

\* waitpid(child, &sts, WNOHANG) after EAGAIN.
WaitNoHang ==
    /\ cpc = "wait"
    /\ cpc' = IF child # "running" THEN "exit" ELSE "key"
    /\ UNCHANGED <<con, esc_state, esc_buf, overrun, pty, child, force_quit,
                   result, printed, keys>>

\* One character of the buffer read, through ui_console_print.
ConsolePrint ==
    /\ cpc = "print" /\ printed < MaxChars
    /\ \E c \in IF esc_state THEN EscMiddle \cup EscFinal \cup Controls \cup {"esc"}
                ELSE TextChars :
         PrintChar(c)
    /\ printed' = printed + 1
    /\ UNCHANGED <<cpc, pty, child, force_quit, result, keys>>

\* The end of the ui_console_print call.
PrintEnd ==
    /\ cpc = "print"
    /\ con' = Anchor(con)
    /\ cpc' = "key"
    /\ UNCHANGED <<esc_state, esc_buf, overrun, pty, child, force_quit, result,
                   printed, keys>>

\* ui_get_key and the evaluation of one key.  Keys written to the shell
\* only change what the shell prints next (ShellWrite).
EvalKey(k) ==
    CASE k = "scroll_up"       -> con' = ScrollUp(con, 1) /\ UNCHANGED force_quit
      [] k = "big_scroll_up"   -> con' = ScrollUp(con, 8) /\ UNCHANGED force_quit
      [] k = "scroll_down"     -> con' = ScrollDown(con, 1) /\ UNCHANGED force_quit
      [] k = "big_scroll_down" -> con' = ScrollDown(con, 8) /\ UNCHANGED force_quit
      [] k = "menu_alt_c"      -> force_quit' = TRUE /\ UNCHANGED con
      [] OTHER                 -> UNCHANGED <<con, force_quit>>

HandleKey ==
    /\ cpc = "key"
    /\ \/ UNCHANGED <<con, force_quit, keys>>
       \/ keys < MaxKeys /\ keys' = keys + 1 /\ \E k \in KeyKinds : EvalKey(k)
    /\ cpc' = "read"
    /\ UNCHANGED <<esc_state, esc_buf, overrun, pty, child, result, printed>>

\* The exit classification after the loop, then exit_console.
Classify ==
    CASE child = "exited_ok"   -> "zero"
      [] child = "exited_fail" -> "status"
      [] OTHER                 -> IF force_quit THEN "force_quit" ELSE "failure"

Exit ==
    /\ cpc = "exit"
    /\ result' = Classify
    /\ cpc' = "done"
    /\ UNCHANGED <<con, esc_state, esc_buf, overrun, pty, child, force_quit,
                   printed, keys>>

\* The shell writes to the terminal, or ends (exit status or signal).
ShellWrite ==
    /\ child = "running" /\ ~pty /\ printed < MaxChars
    /\ pty' = TRUE
    /\ UNCHANGED <<con, esc_state, esc_buf, overrun, cpc, child, force_quit,
                   result, printed, keys>>

ShellExit ==
    /\ child = "running"
    /\ child' \in {"exited_ok", "exited_fail", "signalled"}
    /\ UNCHANGED <<con, esc_state, esc_buf, overrun, cpc, pty, force_quit,
                   result, printed, keys>>

Pump == Start \/ Kill \/ ReadPty \/ WaitNoHang \/ ConsolePrint \/ PrintEnd \/ HandleKey
          \/ Exit
Shell == ShellWrite \/ ShellExit

Next == Pump \/ Shell

\* run_console's loop never blocks (non-blocking read, ui_get_key peeks),
\* so the pump is weakly fair; the shell and the user are not.
Spec == Init /\ [][Next]_vars /\ WF_vars(Pump)

-----------------------------------------------------------------------------
(* Properties                                                              *)

\* console_put_char and the escape commands keep the cursor column inside
\* the text columns of a row (0 .. console_screen_columns - 2), the last
\* being the row's '\0'.
ColumnInLine == 0 <= con.cur_column /\ con.cur_column <= ScreenColumns - 2

\* console_put_char and the escape commands keep the cursor inside
\* console_text[CONSOLE_TOTAL_ROWS][columns - 1], where characters are
\* stored.
CursorInGrid ==
    /\ 0 <= con.cur_row /\ con.cur_row < TotalRows
    /\ 0 <= con.cur_column /\ con.cur_column <= ScreenColumns - 2

\* draw_console_locked reads rows top_row.. up to the cursor row or a full
\* screen; every such row exists.  It runs whenever gUpdateMutex is free,
\* i.e. outside a ui_console_print call.
DrawInGrid ==
    cpc # "print" =>
      LET last == IF con.top_row <= con.cur_row
                     /\ con.cur_row < con.top_row + ScreenRows
                  THEN con.cur_row ELSE con.top_row + ScreenRows - 1
      IN 0 <= con.top_row /\ last < TotalRows

\* No write outside console_escaped_buffer[64] or parameters[32] however
\* the shell's escape sequences are formed.
NoEscapeOverrun == ~overrun

\* A forced quit (menu + alt + c) always ends run_console, however the
\* shell behaves.
ForceQuitEnds == force_quit ~> (cpc = "done")

=============================================================================
