------------------------------ MODULE TextLog ------------------------------
(***************************************************************************)
(* The scrolling text log of bootable/open_recovery/ui.c: ui_init sizes   *)
(* the ring text[text_rows][..], ui_print and ui_print_raw append to it   *)
(* under gUpdateMutex (so each call is one step), and draw_screen_locked  *)
(* shows the rows from text_top on.  Each C function is an operator over  *)
(* the record of its static variables.  A character is a byte code; a    *)
(* row keeps its old bytes after its '\0', as the C array does.           *)
(***************************************************************************)
EXTENDS Integers, Sequences

CONSTANTS
    FbSizes,     \* screen sizes in characters: [rows, cols]
    Prints       \* the texts one ui_print call is given

LOCAL Seqs == INSTANCE SequencesExt

MAX_COLS == 64
MAX_ROWS == 32
NUL == 0
LF == 10

\* ui_init: text_col = text_row = 0, text_top = 1, rows and columns from
\* the frame buffer, clamped to the array (one column kept for the '\0').
TextInit(fb) ==
    LET rows == IF fb.rows > MAX_ROWS THEN MAX_ROWS ELSE fb.rows
        cols == IF fb.cols > MAX_COLS - 1 THEN MAX_COLS - 1 ELSE fb.cols
    IN [text |-> [r \in 0..(rows - 1) |-> [c \in 0..cols |-> NUL]],
        text_rows |-> rows, text_cols |-> cols,
        text_row |-> 0, text_col |-> 0, text_top |-> 1]

\* A text_top that stays where ui_init put it.
NextLineKeepTop(log) ==
    [log EXCEPT !.text[log.text_row][log.text_col] = NUL,
                !.text_col = 0,
                !.text_row = (log.text_row + 1) % log.text_rows]

\* End the current row and move to the next one of the ring, pushing the
\* oldest row off the top when the ring is full.
NextLine(log) ==
    LET row == (log.text_row + 1) % log.text_rows IN
    [log EXCEPT !.text[log.text_row][log.text_col] = NUL,
                !.text_col = 0,
                !.text_row = row,
                !.text_top = IF row = log.text_top THEN (@ + 1) % log.text_rows ELSE @]

\* One pass of the loop: a '\n' or a full row ends the row, then any
\* character other than '\n' is stored.
PutChar(log, ch) ==
    LET l == IF ch = LF \/ log.text_col >= log.text_cols THEN NextLine(log) ELSE log
    IN IF ch = LF THEN l
       ELSE [l EXCEPT !.text[l.text_row][l.text_col] = ch, !.text_col = @ + 1]

\* The loop over the buffer and the closing '\0'; nothing before ui_init.
PrintLoop(log, buf) ==
    IF log.text_rows > 0 /\ log.text_cols > 0
    THEN LET l == Seqs!FoldLeft(PutChar, log, buf)
         IN [l EXCEPT !.text[l.text_row][l.text_col] = NUL]
    ELSE log

\* ui_print: vsnprintf into char buf[2048], then the loop.
UiPrint(log, s) == PrintLoop(log, SubSeq(s, 1, IF Len(s) > 2047 THEN 2047 ELSE Len(s)))

\* ui_print_raw: the loop over the caller's string.
UiPrintRaw(log, buf) == PrintLoop(log, buf)

\* A row read as a C string: its bytes up to the first '\0'.
CString(row) ==
    LET n == CHOOSE n \in DOMAIN row : row[n] = NUL /\ \A j \in 0..(n - 1) : row[j] # NUL
    IN [j \in 1..n |-> row[j - 1]]

\* draw_screen_locked with no menu: screen row i shows text[(i+text_top) % text_rows].
ShownRows(log) == [i \in 1..log.text_rows |-> CString(log.text[(i - 1 + log.text_top) % log.text_rows])]

(***************************************************************************)
(* What spec.md 3 calls a ring buffer of fixed-width lines: everything    *)
(* printed, cut at each '\n' into lines and each line into rows of        *)
(* text_cols characters (an empty line is one empty row); the screen      *)
(* shows the last text_rows of them, blank rows above while there are     *)
(* fewer.                                                                  *)
(***************************************************************************)
SplitLines(s) ==
    LET cuts == <<0>> \o SelectSeq([i \in 1..Len(s) |-> i], LAMBDA i : s[i] = LF) \o <<Len(s) + 1>>
    IN [m \in 1..(Len(cuts) - 1) |-> SubSeq(s, cuts[m] + 1, cuts[m + 1] - 1)]

WrapLine(line, w) ==
    IF line = <<>> THEN <<<<>>>>
    ELSE [k \in 1..((Len(line) + w - 1) \div w) |->
            SubSeq(line, (k - 1) * w + 1, IF k * w > Len(line) THEN Len(line) ELSE k * w)]

LogRows(s, w) ==
    LET lines == SplitLines(s) IN Seqs!FlattenSeq([m \in DOMAIN lines |-> WrapLine(lines[m], w)])

LastRows(s, rows, w) ==
    LET all == LogRows(s, w)
    IN IF Len(all) >= rows THEN SubSeq(all, Len(all) - rows + 1, Len(all))
       ELSE [i \in 1..(rows - Len(all)) |-> <<>>] \o all

(***************************************************************************)
(* Properties                                                              *)
(***************************************************************************)

\* After any sequence of ui_print calls on any screen, the log on screen is
\* the last text_rows rows of everything printed, wrapped at text_cols: the
\* ring's text_row/text_top bookkeeping, the lazy wrap of a full row and
\* the '\0' at the end of every call never lose, repeat or reorder a row.
LogShowsLastRows ==
    \A fb \in FbSizes, n \in 0..3 :
        \A calls \in [1..n -> Prints] :
            ShownRows(Seqs!FoldLeft(UiPrint, TextInit(fb), calls))
                = LastRows(Seqs!FlattenSeq(calls),
                           fb.rows, fb.cols)
====
