-------------------------- MODULE MCMenuNavigation --------------------------
(* Menu files for checking MenuNavigation: a main menu with a plain and a  *)
(* scripted submenu that link to each other, so the stack can reach its    *)
(* limit; labels, a tag, shell items, a reboot item and a page of labels. *)
EXTENDS MenuNavigation

MenuItem(t) == [action |-> "menu", target |-> t, script |-> FALSE]
ScriptedItem(t) == [action |-> "scripted_menu", target |-> t, script |-> TRUE]
Plain(a) == [action |-> a, target |-> "none", script |-> FALSE]

MCFiles == {"main", "a", "b", "info", "empty"}

\* "info" holds labels only (a script's "nothing found" page); "empty",
\* which a script writes, holds the title and no item (spec.md 8.1, N = 0).
MCMenuDef ==
    [f \in MCFiles |->
        CASE f = "main" -> << Plain("label"), Plain("shell"), Plain("tag"),
                              MenuItem("a"), ScriptedItem("b"), Plain("reboot") >>
          [] f = "a"    -> << MenuItem(".."), MenuItem("b"), Plain("shell") >>
          [] f = "b"    -> << Plain("break"), MenuItem(".."), MenuItem("a"),
                              Plain("tag"), MenuItem("info"), ScriptedItem("empty") >>
          [] f = "info" -> << Plain("label"), Plain("label") >>
          [] f = "empty" -> << >>]
(***************************************************************************)
(* Menu files for create_menu (MenuFile): an optional comment, the title  *)
(* "T <CR>", then up to three of the lines below, with and without a final *)
(* line feed.  Bytes are ASCII codes; 300.. are the action keywords.       *)
(***************************************************************************)
RECURSIVE JoinLines(_)
JoinLines(ls) == IF Len(ls) <= 1 THEN (IF ls = <<>> THEN <<>> ELSE ls[1])
                 ELSE ls[1] \o <<10>> \o JoinLines(Tail(ls))

\* "a:shell:s", "a:shell:/x ", "b:tag:t" (t set), "b:tag:u",
\* "abcd:break:x" (clipped), "c:break:x", "d:label:x", "e:menu:m:n",
\* "f:reboot:x<CR>", "# g:shell:x", "h:shell" (one ':'), "hi", "".
MCMenuLines ==
    {<<97, 58, 305, 58, 115>>, <<97, 58, 305, 58, 47, 120, 32>>,
     <<98, 58, 304, 58, 116>>, <<98, 58, 304, 58, 117>>,
     <<97, 98, 99, 100, 58, 309, 58, 120>>, <<99, 58, 309, 58, 120>>,
     <<100, 58, 310, 58, 120>>, <<101, 58, 306, 58, 109, 58, 110>>,
     <<102, 58, 300, 58, 120, 13>>, <<35, 32, 103, 58, 305, 58, 120>>,
     <<104, 58, 305>>, <<104, 105>>, <<>>}

MCMenuFiles ==
    {JoinLines(c \o <<<<84, 32, 13>>>> \o ls) \o t :
        c \in {<<>>, <<<<35, 99>>>>},
        ls \in UNION {[1..n -> MCMenuLines] : n \in 0..3},
        t \in {<<>>, <<10>>}}

Menu == INSTANCE MenuFile WITH MenuFiles <- MCMenuFiles, NumCols <- {5, 6},
                               TagFiles <- {<<116>>}

\* create_menu reads each file into the title and items spec.md 6.3
\* describes (MenuFile!MenuFileParsed).  The parse holds no state across
\* calls and does not depend on which files exist, so it is stated once, of
\* the initial state in which every menu file is present.
MenuFileParsed == Init /\ present = MCFiles => Menu!MenuFileParsed
=============================================================================
