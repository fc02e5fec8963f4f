------------------------------ MODULE PropFile ------------------------------
(***************************************************************************)
(* The key=value property files of spec.md 6.2 and the two loaders that  *)
(* read them: envfix's fix_enviroment (system/core/envfix/envfix.c), which *)
(* turns each pair into an environment variable, and ui_init's theme      *)
(* loader (bootable/open_recovery/ui.c), which turns the colour keys into  *)
(* the UI's colours.  Both use the same read_file and load_properties.     *)
(*                                                                         *)
(* A file is a sequence of bytes (ASCII codes, no NUL).  A property name  *)
(* the UI recognises is one symbol (a code above 255): strcmp compares it  *)
(* whole, and strncmp against the termclr base compares the first symbol. *)
(* Each operator returns what the C function leaves behind; there is no   *)
(* concurrency, so there are no states.                                    *)
(***************************************************************************)
EXTENDS Integers, Sequences, TLC

CONSTANTS
    HaveConsole,   \* OPEN_RECOVERY_HAVE_CONSOLE of the phone variant
    Env0,          \* the environment envfix starts from
    EnvFiles,      \* environment files: [exists, bytes]
    ThemeFiles     \* colour property files: [exists, bytes]

LOCAL Seqs == INSTANCE SequencesExt

\* ASCII codes the parser tests for.
LF == 10
CR == 13
SP == 32
HASH == 35
EQ == 61
D0 == 48       \* '0'
D1 == 49       \* '1'
D9 == 57       \* '9'
CA == 65       \* 'A'

\* The property names of ui.c 63-80.
LED_NAME == 256
BKGROUND_NAME == 257
TITLE_NAME == 258
MENU_NAME == 259
MENU_SEL_NAME == 260
SCRIPT_NAME == 261
CON_HEADER_NAME == 262
CON_BACKGROUND_NAME == 263
CON_FRONT_NAME == 264
TERMCLR_BASE == 265

\* isspace in the C locale.
IsSpace(c) == c \in {SP} \cup 9..13

FirstIndex(s, c) ==
    IF \E i \in DOMAIN s : s[i] = c
    THEN CHOOSE i \in DOMAIN s : s[i] = c /\ \A j \in 1..(i - 1) : s[j] # c
    ELSE 0

(***************************************************************************)
(* read_file: the whole file and a '\n' after it; 0 if it cannot be read. *)
(* A file is [exists, bytes].                                              *)
(***************************************************************************)
ReadFile(f) == IF f.exists THEN [ok |-> TRUE, data |-> f.bytes \o <<LF>>]
               ELSE [ok |-> FALSE, data |-> <<>>]

(***************************************************************************)
(* load_properties, one line: cut at the first '=', skip the key's        *)
(* leading blanks, drop a '#' line, then cut trailing blanks of the key   *)
(* (from value - 2 down, never past the key's first byte) and the         *)
(* value's leading and trailing blanks (from eol - 2 down).               *)
(***************************************************************************)
SkipSpaces(s) ==
    LET i == CHOOSE i \in 1..(Len(s) + 1) :
                 (i > Len(s) \/ ~IsSpace(s[i])) /\ \A j \in 1..(i - 1) : IsSpace(s[j])
    IN SubSeq(s, i, Len(s))

\* A trim that starts at the terminating NUL (value - 1, eol - 1) and so
\* stops at once.
TrimTailFromNul(s) == s

\* while ((tmp > start) && isspace(*tmp)) *tmp-- = 0;  with tmp at the last byte.
TrimTail(s) ==
    LET t == CHOOSE t \in 0..Len(s) :
                 /\ (t <= 1 \/ ~IsSpace(s[t]))
                 /\ \A j \in (t + 1)..Len(s) : j > 1 /\ IsSpace(s[j])
    IN SubSeq(s, 1, t)

ParseLine(line) ==
    LET eq  == FirstIndex(line, EQ)
        key == SkipSpaces(SubSeq(line, 1, eq - 1))
    IN IF eq = 0 \/ (key # <<>> /\ key[1] = HASH) THEN <<>>
       ELSE <<[key |-> TrimTail(key),
                value |-> TrimTail(SkipSpaces(SubSeq(line, eq + 1, Len(line))))]>>

\* The loop over lines: while ((eol = strchr(sol, '\n'))).
RECURSIVE LoadProperties(_)
LoadProperties(data) ==
    LET eol == FirstIndex(data, LF) IN
    IF eol = 0 THEN <<>>
    ELSE ParseLine(SubSeq(data, 1, eol - 1))
           \o LoadProperties(SubSeq(data, eol + 1, Len(data)))

(***************************************************************************)
(* envfix: setenv(key, value, 1) for each pair; the C library refuses an  *)
(* empty name (EINVAL).  The environment is a function from names.        *)
(***************************************************************************)
SetEnv(env, k, v) ==
    IF k = <<>> THEN env
    ELSE [x \in DOMAIN env \cup {k} |-> IF x = k THEN v ELSE env[x]]

FixEnviroment(env, f) ==
    LET r == ReadFile(f) IN
    IF ~r.ok THEN [env |-> env, ret |-> 1]
    ELSE [env |-> Seqs!FoldLeft(LAMBDA e, p : SetEnv(e, p.key, p.value),
                                env, LoadProperties(r.data)),
          ret |-> 0]

(***************************************************************************)
(* ui.c: the colour values.  read_byte_hex reads one hex digit as a       *)
(* letter when it is above '9' and as a digit otherwise, in unsigned char *)
(* arithmetic; -1 rejects.  A colour is the sequence of its bytes in      *)
(* struct order (r, g, b[, a]), which is how htoc fills it.               *)
(***************************************************************************)
Nibble(ch) ==
    IF ch > D9 THEN LET c == (ch - CA + 10) % 256 IN IF c > 15 THEN -1 ELSE c
    ELSE LET c == (ch - D0) % 256 IN IF c > 9 THEN -1 ELSE c

ReadByteHex(t) ==
    IF Nibble(t[1]) = -1 \/ Nibble(t[2]) = -1 THEN -1
    ELSE Nibble(t[1]) * 16 + Nibble(t[2])

\* htoc24 (n = 3) and htoc32 (n = 4): at least 2n + 1 characters, a '#',
\* then n bytes; <<>> when htoc returns 1.
Htoc(text, n) ==
    LET b(i) == ReadByteHex(SubSeq(text, 2 * i, 2 * i + 1)) IN
    IF Len(text) < 2 * n + 1 \/ text[1] # HASH THEN <<>>
    ELSE IF \E i \in 1..n : b(i) = -1 THEN <<>>
    ELSE [i \in 1..n |-> b(i)]

\* atoi: leading blanks, a sign, then decimal digits.
RECURSIVE Digits(_, _)
Digits(s, acc) == IF s # <<>> /\ s[1] \in D0..D9
                  THEN Digits(Tail(s), acc * 10 + s[1] - D0) ELSE acc
Atoi(s) ==
    LET t == SkipSpaces(s) IN
    CASE t # <<>> /\ t[1] = 45 -> -Digits(Tail(t), 0)
      [] t # <<>> /\ t[1] = 43 -> Digits(Tail(t), 0)
      [] OTHER -> Digits(t, 0)

\* console_term_colors: CLR30..CLR37, then CLR90..CLR97.
TermColorsInit ==
    (0 :> <<0, 0, 0>>) @@ (1 :> <<205, 0, 0>>) @@ (2 :> <<0, 205, 0>>)
    @@ (3 :> <<205, 205, 0>>) @@ (4 :> <<0, 0, 238>>) @@ (5 :> <<205, 0, 205>>)
    @@ (6 :> <<0, 205, 205>>) @@ (7 :> <<229, 229, 229>>)
    @@ (8 :> <<127, 127, 127>>) @@ (9 :> <<255, 0, 0>>) @@ (10 :> <<0, 255, 0>>)
    @@ (11 :> <<255, 255, 0>>) @@ (12 :> <<92, 91, 255>>) @@ (13 :> <<255, 0, 255>>)
    @@ (14 :> <<0, 255, 255>>) @@ (15 :> <<255, 255, 255>>)

\* The colours a property can set, at their initial values (ui.c 128-220):
\* title_color_set starts 0, so a menu colour also sets the title colour.
ThemeInit ==
    [led |-> <<1, 0, 0>>,
     background |-> <<0, 0, 0, 160>>,
     title |-> <<255, 55, 5, 255>>, title_set |-> FALSE,
     menu |-> <<255, 55, 5, 255>>,
     selection |-> <<255, 255, 255, 255>>,
     script |-> <<255, 255, 0, 255>>,
     header |-> <<255, 255, 0>>, conbg |-> <<0, 0, 0>>, front |-> <<229, 229, 229>>,
     termclr |-> TermColorsInit]

\* The colour variables of ui.c 128-220 that a property can set.
Color32Fields == (BKGROUND_NAME :> "background") @@ (MENU_SEL_NAME :> "selection")
                  @@ (SCRIPT_NAME :> "script")
Color24Fields == (CON_HEADER_NAME :> "header") @@ (CON_BACKGROUND_NAME :> "conbg")
                 @@ (CON_FRONT_NAME :> "front")

\* A menu colour that also overwrites a title colour set before it.
MenuSetsTitleAlways(th, c) == [th EXCEPT !.menu = c, !.title = c]

\* color32.menu sets title_color too unless color32.title has been seen.
MenuSetsTitle(th, c) ==
    [th EXCEPT !.menu = c, !.title = IF th.title_set THEN @ ELSE c]

\* evaluate_property(data, value).
EvaluateProperty(th, key, value) ==
    LET k == IF Len(key) = 1 THEN key[1] ELSE 0
        c32 == Htoc(value, 4)
        c24 == Htoc(value, 3)
        n == Atoi(Tail(key))
    IN CASE k = LED_NAME ->
              IF Len(value) < 4 \/ value[1] # HASH THEN th
              ELSE [th EXCEPT !.led = [i \in 1..3 |-> IF value[i + 1] = D1 THEN 1 ELSE 0]]
         [] k = TITLE_NAME ->
              IF c32 = <<>> THEN th ELSE [th EXCEPT !.title = c32, !.title_set = TRUE]
         [] k = MENU_NAME -> IF c32 = <<>> THEN th ELSE MenuSetsTitle(th, c32)
         [] k \in DOMAIN Color32Fields ->
              IF c32 = <<>> THEN th ELSE [th EXCEPT ![Color32Fields[k]] = c32]
         [] HaveConsole /\ k \in DOMAIN Color24Fields ->
              IF c24 = <<>> THEN th ELSE [th EXCEPT ![Color24Fields[k]] = c24]
         [] HaveConsole /\ key # <<>> /\ key[1] = TERMCLR_BASE ->
              CASE c24 = <<>> -> th
                [] n \in 30..37 -> [th EXCEPT !.termclr[n - 30] = c24]
                [] n \in 90..97 -> [th EXCEPT !.termclr[n - 90 + 8] = c24]
                [] OTHER -> th
         [] OTHER -> th

\* ui_init: read_file(PROPERTY_FILE) and, if it could be read, load_properties.
UiLoadProperties(th, f) ==
    LET r == ReadFile(f) IN
    IF ~r.ok THEN th
    ELSE Seqs!FoldLeft(LAMBDA t, p : EvaluateProperty(t, p.key, p.value),
                       th, LoadProperties(r.data))

(***************************************************************************)
(* The console's current colour under ESC[...m (console_unescape's 'm'    *)
(* case): 0 and 39 select the configured front colour, 30-37 and 90-97 go *)
(* to console_set_front_term_color, any other code is ignored.            *)
(***************************************************************************)
SetFrontTermColor(cur, th, code) ==
    CASE code >= 30 /\ code < 37 -> th.termclr[code - 30]
      [] code >= 90 /\ code < 97 -> th.termclr[code - 90 + 8]
      [] OTHER -> cur

SgrColor(cur, th, params) ==
    Seqs!FoldLeft(LAMBDA c, code :
                      CASE code \in {0, 39} -> th.front
                        [] code \in 30..37 \cup 90..97 -> SetFrontTermColor(c, th, code)
                        [] OTHER -> c,
                  cur, params)

(***************************************************************************)
(* What spec.md 6.2 and the envfix description say a file means, written  *)
(* line by line rather than as the parser's scan.  A line is a maximal    *)
(* run of bytes without a line feed; a property line is "key=value" cut   *)
(* at its first '=', key and value with surrounding blanks removed; a     *)
(* line without '=', with an empty key or whose key starts with '#' sets  *)
(* nothing; a key set twice takes the value of its last line.             *)
(***************************************************************************)
SpecLines(b) ==
    LET cuts == <<0>> \o SelectSeq([i \in 1..Len(b) |-> i], LAMBDA i : b[i] = LF) \o <<Len(b) + 1>>
    IN [m \in 1..(Len(cuts) - 1) |-> SubSeq(b, cuts[m] + 1, cuts[m + 1] - 1)]

Trim(s) ==
    LET inner == {i \in DOMAIN s : ~IsSpace(s[i])}
    IN IF inner = {} THEN <<>> ELSE SubSeq(s, Seqs!Min(inner), Seqs!Max(inner))

SpecKey(l) == Trim(SubSeq(l, 1, FirstIndex(l, EQ) - 1))
SpecValue(l) == Trim(SubSeq(l, FirstIndex(l, EQ) + 1, Len(l)))
IsEntry(l) == FirstIndex(l, EQ) # 0 /\ SpecKey(l) # <<>> /\ SpecKey(l)[1] # HASH

\* The environment after the file: each key at the value of its last line.
EnvFromSpec(env, b) ==
    LET ls == SpecLines(b)
        es == {i \in DOMAIN ls : IsEntry(ls[i])}
        ks == {SpecKey(ls[i]) : i \in es}
        lastFor(k) == Seqs!Max({i \in es : SpecKey(ls[i]) = k})
    IN [x \in DOMAIN env \cup ks |->
          IF x \in ks THEN SpecValue(ls[lastFor(x)]) ELSE env[x]]

\* A colour is '#' and 2n upper-case hex digits (RRGGBB[AA]).
HexDigit == [d \in 0..15 |-> IF d < 10 THEN D0 + d ELSE CA + d - 10]
HexValue(ch) == CHOOSE d \in 0..15 : HexDigit[d] = ch
IsColor(v, n) ==
    Len(v) >= 2 * n + 1 /\ v[1] = HASH
    /\ \A j \in 2..(2 * n + 1) : \E d \in 0..15 : v[j] = HexDigit[d]
ColorOf(v, n) == [i \in 1..n |-> 16 * HexValue(v[2 * i]) + HexValue(v[2 * i + 1])]

\* The termclr key of console colour slot m: CLR30..CLR37, CLR90..CLR97.
TermKey(m) == LET code == IF m < 8 THEN 30 + m ELSE 82 + m
              IN <<TERMCLR_BASE, D0 + (code \div 10), D0 + (code % 10)>>

\* The colours after the file: each one at the last valid value given for
\* it, else at its initial value; the title at the last valid title, else
\* the last valid menu colour (the pre-1.40 rule), else its initial value.
ThemeFromSpec(th, b) ==
    LET ls == SpecLines(b)
        es == {i \in DOMAIN ls : IsEntry(ls[i])}
        given(k, n) == {i \in es : SpecKey(ls[i]) = k /\ IsColor(SpecValue(ls[i]), n)}
        pick(k, n, dflt) ==
            IF given(k, n) = {} THEN dflt
            ELSE ColorOf(SpecValue(ls[Seqs!Max(given(k, n))]), n)
        leds == {i \in es : SpecKey(ls[i]) = <<LED_NAME>>
                             /\ Len(SpecValue(ls[i])) >= 4 /\ SpecValue(ls[i])[1] = HASH}
        ledv == SpecValue(ls[Seqs!Max(leds)])
        con(k, dflt) == IF HaveConsole THEN pick(k, 3, dflt) ELSE dflt
    IN [led |-> IF leds = {} THEN th.led
                ELSE [i \in 1..3 |-> IF ledv[i + 1] = D1 THEN 1 ELSE 0],
        background |-> pick(<<BKGROUND_NAME>>, 4, th.background),
        title |-> pick(<<TITLE_NAME>>, 4, pick(<<MENU_NAME>>, 4, th.title)),
        title_set |-> given(<<TITLE_NAME>>, 4) # {},
        menu |-> pick(<<MENU_NAME>>, 4, th.menu),
        selection |-> pick(<<MENU_SEL_NAME>>, 4, th.selection),
        script |-> pick(<<SCRIPT_NAME>>, 4, th.script),
        header |-> con(<<CON_HEADER_NAME>>, th.header),
        conbg |-> con(<<CON_BACKGROUND_NAME>>, th.conbg),
        front |-> con(<<CON_FRONT_NAME>>, th.front),
        termclr |-> [m \in 0..15 |-> con(TermKey(m), th.termclr[m])]]

(***************************************************************************)
(* Properties                                                              *)
(***************************************************************************)

\* fix_enviroment sets exactly the variables the file names, each to the
\* value of its last line with blanks trimmed around key and value, skips
\* comments, lines without '=' and empty keys, and returns 1 and changes
\* nothing when the file cannot be read (envfix.c read_file and
\* load_properties: the in-place trims around '=' and at the line end).
EnvFromFile ==
    \A f \in EnvFiles :
        FixEnviroment(Env0, f) =
            IF f.exists THEN [env |-> EnvFromSpec(Env0, f.bytes), ret |-> 0]
            ELSE [env |-> Env0, ret |-> 1]

\* ESC[<code>m with any of the 16 codes spec.md lists (30-37, 90-97) makes
\* the console's current colour that code's configured term colour, from
\* any colour before it (console_set_front_term_color).
SgrSelectsTermColor ==
    \A code \in 30..37 \cup 90..97 :
        SgrColor(ThemeInit.front, ThemeInit, <<code>>)
            = ThemeInit.termclr[IF code < 90 THEN code - 30 ELSE code - 82]

\* ui_init's theme load leaves every colour at the last valid value the
\* file gives for it and the title at the last title, else the last menu
\* colour (evaluate_property's title_color_set rule, and htoc rejecting a
\* short value or a non-hex digit without touching the colour).
ThemeFromFile ==
    \A f \in ThemeFiles :
        UiLoadProperties(ThemeInit, f) =
            IF f.exists THEN ThemeFromSpec(ThemeInit, f.bytes) ELSE ThemeInit
====
