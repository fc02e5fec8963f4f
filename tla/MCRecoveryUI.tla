---------------------------- MODULE MCRecoveryUI ----------------------------
EXTENDS RecoveryUI, TLC

\* Header rows of the menus: the Lite title line.
MCHeaderRows == {1}

(***************************************************************************)
(* Inputs of ui_init's colour property file and of envfix's environment   *)
(* file: every file of up to three of the lines below, with and without a *)
(* final line feed, the empty file and a file that does not exist.  Bytes *)
(* are ASCII codes; 256.. are the UI's property names (PropFile).         *)
(***************************************************************************)
RECURSIVE JoinLines(_)
JoinLines(ls) == IF Len(ls) <= 1 THEN (IF ls = <<>> THEN <<>> ELSE ls[1])
                 ELSE ls[1] \o <<10>> \o JoinLines(Tail(ls))

FilesOf(lineSet) ==
    {[exists |-> FALSE, bytes |-> <<>>]}
    \cup {[exists |-> TRUE, bytes |-> JoinLines(ls) \o t] :
            ls \in UNION {[1..n -> lineSet] : n \in 0..3}, t \in {<<>>, <<10>>}}

\* "A=1", " A<TAB>= 0 ", "B=1<CR>", "#A=0", "B", " =1", "A=", "A==1",
\* " # B=0", "AB =1 1".
MCEnvLines ==
    {<<65, 61, 49>>, <<32, 65, 9, 61, 32, 48, 32>>, <<66, 61, 49, 13>>,
     <<35, 65, 61, 48>>, <<66>>, <<32, 61, 49>>, <<65, 61>>, <<65, 61, 61, 49>>,
     <<32, 35, 32, 66, 61, 48>>, <<65, 66, 32, 61, 49, 32, 49>>}

\* B=0 and C=1 before envfix runs.
MCEnv0 == (<<66>> :> <<48>>) @@ (<<67>> :> <<49>>)

\* title=#FF000080, " menu = #0000FFFF ", menu=#12AB (short),
\* background=#GG000000 (not hex), LED=#101, LED=#1 (short),
\* console.header=#12AB34, termclr31=#FFFFFF, termclr38=#FFFFFF (no such
\* colour), "termclr97 =#0A0B0C", "#title=#00000000", script=#FFFFFFFF<CR>,
\* selection=#00000000 1 (text after the colour), script=#ff0000ff
\* (lower case, not read as hex).
MCThemeLines ==
    {<<258, 61, 35, 70, 70, 48, 48, 48, 48, 56, 48>>,
     <<32, 259, 32, 61, 32, 35, 48, 48, 48, 48, 70, 70, 70, 70, 32>>,
     <<259, 61, 35, 49, 50, 65, 66>>,
     <<257, 61, 35, 71, 71, 48, 48, 48, 48, 48, 48>>,
     <<256, 61, 35, 49, 48, 49>>, <<256, 61, 35, 49>>,
     <<262, 61, 35, 49, 50, 65, 66, 51, 52>>,
     <<265, 51, 49, 61, 35, 70, 70, 70, 70, 70, 70>>,
     <<265, 51, 56, 61, 35, 70, 70, 70, 70, 70, 70>>,
     <<265, 57, 55, 32, 61, 35, 48, 65, 48, 66, 48, 67>>,
     <<35, 258, 61, 35, 48, 48, 48, 48, 48, 48, 48, 48>>,
     <<261, 61, 35, 70, 70, 70, 70, 70, 70, 70, 70, 13>>,
     <<260, 61, 35, 48, 48, 48, 48, 48, 48, 48, 48, 32, 49>>,
     <<261, 61, 35, 102, 102, 48, 48, 48, 48, 102, 102>>}

Props == INSTANCE PropFile WITH HaveConsole <- TRUE, Env0 <- MCEnv0,
                                EnvFiles <- FilesOf(MCEnvLines),
                                ThemeFiles <- FilesOf(MCThemeLines)

\* ui_init loads the property file before it starts the threads above, and
\* envfix runs before recovery; both properties are stated of the initial
\* state.

\* envfix: the environment after fix_enviroment is the one the file
\* describes (PropFile!EnvFromFile).
EnvFromFile == Init => Props!EnvFromFile

\* ui_init: the colours after the property file are the ones it describes
\* (PropFile!ThemeFromFile).
ThemeFromFile == Init => Props!ThemeFromFile

\* console_unescape's ESC[..m selects the 16 term colours spec.md lists
\* (PropFile!SgrSelectsTermColor; not checked by RecoveryUI.cfg: the code
\* ignores 37 and 97, README "Known defects").
SgrSelectsTermColor == Init => Props!SgrSelectsTermColor

(***************************************************************************)
(* ui_print on screens of 1 to 3 rows of 1 to 3 characters, by up to      *)
(* three calls of "a", "\n", "abc", "a\nb", "\n\n" or "b\n": long lines, *)
(* blank lines and a ring that fills and turns over.                       *)
(***************************************************************************)
MCFbSizes ==
    {[rows |-> 1, cols |-> 1], [rows |-> 2, cols |-> 2], [rows |-> 2, cols |-> 3],
     [rows |-> 3, cols |-> 1], [rows |-> 3, cols |-> 2]}

MCPrints == {<<97>>, <<10>>, <<97, 98, 99>>, <<97, 10, 98>>, <<10, 10>>, <<98, 10>>}

Log == INSTANCE TextLog WITH FbSizes <- MCFbSizes, Prints <- MCPrints

\* ui_print keeps on screen the last rows of everything printed
\* (TextLog!LogShowsLastRows).  Each call holds gUpdateMutex throughout and
\* the threads above never touch the log, so it is stated once, of the
\* initial state.
LogShowsLastRows == Init => Log!LogShowsLastRows
=============================================================================
