------------------------------ MODULE MenuFile ------------------------------
(***************************************************************************)
(* create_menu's parse of a menu file (bootable/open_recovery/recovery.c): *)
(* the title line, then one item per "label:action:target" line, with the *)
(* action-specific rewriting of the target and the label (shell scripts   *)
(* under /bin, tags under /tags with their [X] glyph, break rules).  The  *)
(* parse is a pure function of the file, the tag files that exist and the *)
(* screen's column count; MenuNavigation takes its result as MenuDef.      *)
(*                                                                         *)
(* Bytes are ASCII codes; an action keyword is one symbol (a code above   *)
(* 255), since strcmp compares the whole token.                           *)
(***************************************************************************)
EXTENDS Integers, Sequences

CONSTANTS
    MenuFiles,   \* menu files as bytes
    NumCols,     \* values of ui_get_num_columns()
    TagFiles     \* tag names whose /tags/.<name> exists

LOCAL Seqs == INSTANCE SequencesExt

LF == 10
CR == 13
SP == 32
QUOTE == 34
HASH == 35
DASH == 45
DOT == 46
SLASH == 47
COLON == 58
STAR == 42
LBR == 91
RBR == 93
MARK == 88       \* 'X'

\* The ITEM_NAME_* keywords (recovery.c 121-131).
REBOOT_W == 300
UPDATE_W == 301
WIPE_DATA_W == 302
WIPE_CACHE_W == 303
TAG_W == 304
SHELL_W == 305
MENU_W == 306
SCRIPTED_MENU_W == 307
CONSOLE_W == 308
BREAK_W == 309
LABEL_W == 310

MAX_MENU_ITEMS == 50
CUSTOM_SHELL_SCRIPT_PATH == <<SLASH, 98, 105, 110>>       \* "/bin"
TAGS_PATH == <<SLASH, 116, 97, 103, 115>>                  \* "/tags"

\* fgets over the file: each line with its '\n', the last one maybe without.
Fgets(b) ==
    LET ends == SelectSeq([i \in 1..Len(b) |-> i], LAMBDA i : b[i] = LF)
        cuts == <<0>> \o ends \o (IF Len(b) > 0 /\ b[Len(b)] # LF THEN <<Len(b)>> ELSE <<>>)
    IN [m \in 1..(Len(cuts) - 1) |-> SubSeq(b, cuts[m] + 1, cuts[m + 1])]

\* while (fidx >= 0 && buf[fidx] in cs) buf[fidx--] = '\0';
TrimRight(s, cs) ==
    SubSeq(s, 1, CHOOSE k \in 0..Len(s) : (k = 0 \/ s[k] \notin cs)
                                          /\ \A j \in (k + 1)..Len(s) : s[j] \in cs)

\* strtok: skip leading delimiters; none left gives NULL; otherwise the
\* token up to the next delimiter, which is overwritten, and the rest.
Strtok(s, ds) ==
    LET from == {i \in DOMAIN s : s[i] \notin ds} IN
    IF from = {} THEN [ok |-> FALSE, tok |-> <<>>, rest |-> <<>>]
    ELSE LET start == Seqs!Min(from)
             stops == {i \in start..Len(s) : s[i] \in ds}
             end == IF stops = {} THEN Len(s) + 1 ELSE Seqs!Min(stops)
         IN [ok |-> TRUE, tok |-> SubSeq(s, start, end - 1),
             rest |-> SubSeq(s, end + 1, Len(s))]

Dashes(k) == [i \in 1..k |-> DASH]

\* A clip to num_cols - 2, leaving no dash on either side.
ClipLenLoose(len, n) == IF len > n - 2 THEN n - 2 ELSE len

\* if (len > num_cols - 4) len = num_cols - 4;
ClipLen(len, n) == IF len > n - 4 THEN n - 4 ELSE len

\* The rule of a break: a '*' label fills the row with '-' and writes no
\* '\0' (nul FALSE) and no target; any other label is centred between
\* runs of '-' and ' ', the row terminated, the target "*".
BreakItem(label, n) ==
    IF label = <<STAR>>
    THEN [label |-> Dashes(n), nul |-> FALSE, target |-> <<>>, has_target |-> FALSE]
    ELSE LET len == ClipLen(Len(label), n)
             left == (n - len - 2) \div 2
         IN [label |-> Dashes(left) \o <<SP>> \o SubSeq(label, 1, len) \o <<SP>>
                       \o Dashes(n - left - len - 2),
             nul |-> TRUE, target |-> <<STAR>>, has_target |-> TRUE]

\* A shell target is used as given when it starts with '/' or '"/', and
\* is put under CUSTOM_SHELL_SCRIPT_PATH otherwise (after a leading '"').
ShellTarget(t) ==
    CASE t[1] = SLASH \/ (t[1] = QUOTE /\ Len(t) > 1 /\ t[2] = SLASH) -> t
      [] t[1] = QUOTE -> <<QUOTE>> \o CUSTOM_SHELL_SCRIPT_PATH \o <<SLASH>> \o Tail(t)
      [] OTHER -> CUSTOM_SHELL_SCRIPT_PATH \o <<SLASH>> \o t

\* The item of one line, after its three tokens: MENU_ITEMS, _ACTION,
\* _TARGET, _SELECTABLE and _TAG.
MakeItem(label, action, target, n) ==
    LET plain == [label |-> label, nul |-> TRUE, action |-> action, target |-> target,
                  has_target |-> TRUE, selectable |-> TRUE, tag |-> 255]
        set == target \in TagFiles
    IN CASE action = <<SHELL_W>> -> [plain EXCEPT !.target = ShellTarget(target)]
         [] action = <<TAG_W>> ->
              [plain EXCEPT !.target = TAGS_PATH \o <<SLASH, DOT>> \o target,
                            !.tag = IF set THEN 1 ELSE 0,
                            !.label = <<LBR, IF set THEN MARK ELSE SP, RBR, SP>> \o label]
         [] action = <<BREAK_W>> ->
              LET b == BreakItem(label, n)
              IN [plain EXCEPT !.label = b.label, !.nul = b.nul, !.target = b.target,
                               !.has_target = b.has_target, !.selectable = FALSE]
         [] action = <<LABEL_W>> -> [plain EXCEPT !.selectable = FALSE]
         [] OTHER -> plain

\* An item line: strtok(buf, ":"), strtok(NULL, ":"), strtok(NULL, "\n");
\* a missing token drops the line; the target loses trailing ' ' and '\r'.
ParseItem(line, n) ==
    LET t1 == Strtok(line, {COLON})
        t2 == Strtok(t1.rest, {COLON})
        t3 == Strtok(t2.rest, {LF})
    IN IF ~(t1.ok /\ t2.ok /\ t3.ok) THEN <<>>
       ELSE <<MakeItem(t1.tok, t2.tok, TrimRight(t3.tok, {SP, CR}), n)>>

\* One pass of the fgets loop: '\0'/'#' lines are skipped, the first other
\* line is the title (trailing ' ', '\r', '\n' trimmed), later lines
\* without ':' are skipped.
ReadLine(n, acc, line) ==
    IF Len(acc.items) >= MAX_MENU_ITEMS \/ line[1] = HASH THEN acc
    ELSE IF acc.readTitle
         THEN [acc EXCEPT !.title = TrimRight(line, {SP, CR, LF}), !.readTitle = FALSE]
    ELSE IF \A i \in DOMAIN line : line[i] # COLON THEN acc
    ELSE [acc EXCEPT !.items = @ \o ParseItem(line, n)]

\* create_menu after a successful fopen: delete_menu, then the loop.
CreateMenu(b, n) ==
    LET r == Seqs!FoldLeft(LAMBDA acc, line : ReadLine(n, acc, line),
                           [readTitle |-> TRUE, title |-> <<>>, items |-> <<>>],
                           Fgets(b))
    IN [title |-> r.title, items |-> r.items]

(***************************************************************************)
(* The menu file as spec.md 6.3 and its menu item rules describe it: the  *)
(* first non-empty line not starting with '#' is the title, trailing      *)
(* blanks and CR trimmed; each later such line with at least two ':' is   *)
(* an item label:action:target, the target running to the end of the     *)
(* line; shell targets are absolute or under /bin, a tag's target is      *)
(* /tags/.<name> and its label carries [X] or [ ], a break is a dashed    *)
(* rule with its label centred (the odd dash on the right) and clipped    *)
(* to columns - 4, labels and breaks cannot be selected.                  *)
(***************************************************************************)
SpecLines(b) ==
    LET cuts == <<0>> \o SelectSeq([i \in 1..Len(b) |-> i], LAMBDA i : b[i] = LF) \o <<Len(b) + 1>>
    IN [m \in 1..(Len(cuts) - 1) |-> SubSeq(b, cuts[m] + 1, cuts[m + 1] - 1)]

Colons(l) == SelectSeq([i \in 1..Len(l) |-> i], LAMBDA i : l[i] = COLON)

SpecItem(l, n) ==
    LET c == Colons(l)
        label == SubSeq(l, 1, c[1] - 1)
        action == SubSeq(l, c[1] + 1, c[2] - 1)
        target == TrimRight(SubSeq(l, c[2] + 1, Len(l)), {SP, CR})
        set == target \in TagFiles
        shown == IF Len(label) > n - 4 THEN SubSeq(label, 1, n - 4) ELSE label
        pad == n - Len(shown) - 2
    IN [label |-> CASE action = <<TAG_W>> -> <<LBR, IF set THEN MARK ELSE SP, RBR, SP>> \o label
                    [] action = <<BREAK_W>> ->
                         Dashes(pad \div 2) \o <<SP>> \o shown \o <<SP>> \o Dashes(pad - pad \div 2)
                    [] OTHER -> label,
        nul |-> TRUE,
        action |-> action,
        target |-> CASE action = <<SHELL_W>> /\ target[1] # SLASH ->
                            CUSTOM_SHELL_SCRIPT_PATH \o <<SLASH>> \o target
                     [] action = <<TAG_W>> -> TAGS_PATH \o <<SLASH, DOT>> \o target
                     [] OTHER -> target,
        selectable |-> action \notin {<<BREAK_W>>, <<LABEL_W>>},
        tag |-> IF action = <<TAG_W>> THEN (IF set THEN 1 ELSE 0) ELSE 255]

SpecMenu(b, n) ==
    LET ls == SpecLines(b)
        kept == {i \in DOMAIN ls : ls[i] # <<>> /\ ls[i][1] # HASH}
        t == Seqs!Min(kept)
        itemLines == SelectSeq([i \in 1..Len(ls) |-> i],
                               LAMBDA i : i \in kept /\ i > t /\ Len(Colons(ls[i])) >= 2)
    IN [title |-> TrimRight(ls[t], {SP, CR}),
        items |-> [k \in DOMAIN itemLines |-> SpecItem(ls[itemLines[k]], n)]]

\* What of an item the screen and the handlers use: a break's target is
\* never read (a break cannot be selected).
Used(menu) ==
    [title |-> menu.title,
     items |-> [k \in DOMAIN menu.items |->
                  [label |-> menu.items[k].label, nul |-> menu.items[k].nul,
                   action |-> menu.items[k].action, selectable |-> menu.items[k].selectable,
                   tag |-> menu.items[k].tag,
                   target |-> IF menu.items[k].action = <<BREAK_W>> THEN <<>>
                              ELSE menu.items[k].target]]]

(***************************************************************************)
(* Properties                                                              *)
(***************************************************************************)

\* create_menu turns every menu file into the title and items spec.md 6.3
\* describes: the readTitle switch, the three strtok calls (a target keeps
\* its ':'), the target trims, the /bin and /tags rewriting, the tag glyph
\* and the centring and clipping of a break's label to the screen width.
MenuFileParsed ==
    \A b \in MenuFiles, n \in NumCols : Used(CreateMenu(b, n)) = Used(SpecMenu(b, n))
====
