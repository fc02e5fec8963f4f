------------------------------- MODULE Install -------------------------------
(***************************************************************************)
(* install_package (install.c): opening the package, then either the      *)
(* update-binary path (try_update_binary: a child process writes protocol *)
(* lines into a pipe, the parent reads them with fgets and stages at most *)
(* one firmware request) or the script path (handle_or_update, which runs *)
(* the update script through run_shell_script).  run_shell_script forks a *)
(* shell whose stdout goes into a non-blocking pipe, and the parent polls *)
(* that pipe, serves interactive-menu requests posted in a shared-memory  *)
(* block, and polls waitpid(WNOHANG) until the child has exited.          *)
(*                                                                         *)
(* Script output is counted in units of one read(): a unit is 1024 bytes, *)
(* ReadSize units are taken by one read() call (so ReadSize = 1 is the    *)
(* code's buffer), PipeCap units fit in the pipe.                         *)
(*                                                                         *)
(* The protocol's progress lines drive ui.c's progress bar, which is      *)
(* composed here with progress_thread and a clock; Lite main (recovery.c) *)
(* runs two installs back to back over the same bar.                      *)
(***************************************************************************)
EXTENDS Naturals, Sequences

CONSTANTS
    ReadSize,       \* units one read(script_pipefd[0], buffer, 1024) takes
    PipeCap,        \* units the pipe holds before the writer blocks
    MaxOutput,      \* units the script writes in all
    MaxMenus,       \* interactive-menu requests the script makes
    MaxCmds,        \* protocol lines the update-binary writes
    FwTypes,        \* firmware types named by "firmware <type> <file>"
    ShmOutcomes,    \* what open/mmap of INTERACTIVE_MENU_SHM can give
    NULL,
    DEN,            \* progress fractions are integers over DEN
    BarWidth,       \* gr_get_width(gProgressBarIndeterminate[0]), pixels
    Portions,       \* <fraction> of "progress", times DEN
    Fractions,      \* <fraction> of "set_progress", times DEN
    Seconds,        \* <seconds> of "progress"
    MaxInstalls     \* install_package calls in a row (Lite main: two)

\* Timed progress elapsed*DEN/duration is exact on the DEN grid.
ASSUME \A s \in Seconds : s = 0 \/ DEN % s = 0

Kinds == {"or_script", "custom_binary", "default_binary"}
Results == {"none", "success", "error", "corrupt"}
\* A protocol line: "firmware" with or without both arguments, "progress
\* <fraction> <seconds>" or "set_progress <fraction>".  Any other line
\* (ui_print, unknown) changes nothing modelled here, like a firmware line
\* without its arguments (type NULL), which stands for both.
Cmds ==
    [cmd : {"firmware"}, type : FwTypes \cup {NULL}, frac : {0}, secs : {0}]
    \cup [cmd : {"progress"}, type : {NULL}, frac : Portions, secs : Seconds]
    \cup [cmd : {"set_progress"}, type : {NULL}, frac : Fractions, secs : {0}]
\* gProgressBarType
BarTypes == {"none", "indeterminate", "normal"}
\* interactive_menu after the open/mmap at install.c:438-459.
Shm == {"none", "mapped", "failed"}

VARIABLES
    pc,         \* parent (recovery) program counter
    result,     \* install_package's return value once pc = "ret"
    kind,       \* what the package contains
    child,      \* "none", "running", "exited"
    exitOK,     \* WIFEXITED(status) && WEXITSTATUS(status) == 0
    ubPipe,     \* protocol lines not yet read by fgets
    fwType,     \* firmware_type in try_update_binary
    staged,     \* firmware type handed to remember_firmware_update
    sentFw,     \* (ghost) types of the complete firmware lines the child sent
    sent,       \* protocol lines sent so far
    shPipe,     \* script output units in the pipe
    written,    \* units the script has written
    printed,    \* units ui_print_raw has shown
    shm,        \* state of interactive_menu in this run
    inTrigger,  \* interactive_menu->in_trigger
    answer,     \* out_trigger written and not yet taken by the script
    cpc,        \* script side of the exchange: "run" or "await"
    requests,   \* menu requests the script posted
    answers,    \* menus the parent showed and answered
    reqWritten, \* (ghost) units written before the latest request
    barType,    \* gProgressBarType
    scopeStart, \* gProgressScopeStart * DEN
    scopeSize,  \* gProgressScopeSize * DEN
    progress,   \* gProgress * DEN
    duration,   \* gProgressScopeDuration
    elapsed,    \* time(NULL) - gProgressScopeTime, saturating at duration
    scopes,     \* (ghost) ui_show_progress calls so far
    installs    \* install_package calls started

ubVars == <<ubPipe, fwType, staged, sentFw, sent>>
shVars == <<shPipe, written, printed, shm, inTrigger, answer, cpc,
            requests, answers, reqWritten>>
barVars == <<barType, scopeStart, scopeSize, progress, duration, elapsed,
             scopes>>
vars == <<pc, result, kind, child, exitOK>> \o ubVars \o shVars
          \o <<barVars, installs>>

PCs == {"start", "try", "or_extract", "ub_read", "fw", "sh_top", "sh_menu",
        "sh_read", "sh_wait", "sh_last", "crashed", "ret"}

TypeOK ==
    /\ pc \in PCs
    /\ result \in Results
    /\ kind \in Kinds
    /\ child \in {"none", "running", "exited"}
    /\ exitOK \in BOOLEAN
    /\ ubPipe \in Seq(Cmds)
    /\ fwType \in FwTypes \cup {NULL}
    /\ staged \in FwTypes \cup {NULL}
    /\ sentFw \in Seq(FwTypes)
    /\ sent \in 0..MaxCmds
    /\ shPipe \in 0..PipeCap
    /\ written \in 0..MaxOutput
    /\ printed \in 0..MaxOutput
    /\ shm \in Shm
    /\ inTrigger \in BOOLEAN
    /\ answer \in BOOLEAN
    /\ cpc \in {"run", "await"}
    /\ requests \in 0..MaxMenus
    /\ answers \in Nat
    /\ reqWritten \in 0..MaxOutput
    /\ barType \in BarTypes
    /\ scopeStart \in Nat
    /\ scopeSize \in Portions \cup {0}
    /\ progress \in 0..DEN
    /\ duration \in Seconds \cup {0}
    /\ elapsed \in 0..duration
    /\ scopes \in 0..(MaxCmds * MaxInstalls)
    /\ installs \in 1..MaxInstalls

Init ==
    /\ pc = "start"
    /\ result = "none"
    /\ kind \in Kinds
    /\ child = "none"
    /\ exitOK = FALSE
    /\ ubPipe = <<>>
    /\ fwType = NULL
    /\ staged = NULL
    /\ sentFw = <<>>
    /\ sent = 0
    /\ shPipe = 0
    /\ written = 0
    /\ printed = 0
    /\ shm = "none"
    /\ inTrigger = FALSE
    /\ answer = FALSE
    /\ cpc = "run"
    /\ requests = 0
    /\ answers = 0
    /\ reqWritten = 0
    /\ barType = "none"
    /\ scopeStart = 0
    /\ scopeSize = 0
    /\ progress = 0
    /\ duration = 0
    /\ elapsed = 0
    /\ scopes = 0
    /\ installs = 1

-----------------------------------------------------------------------------
(* The progress bar (ui.c): state under gUpdateMutex, so every call below   *)
(* is one atomic step.  Drawing (update_progress_locked) is not modelled.   *)

\* ui_show_indeterminate_progress
ShowIndeterminateProgress ==
    /\ barType' = "indeterminate"
    /\ UNCHANGED <<scopeStart, scopeSize, progress, duration, elapsed, scopes>>

\* Mutant of ShowProgress: the new scope starts where the previous one did.
ShowProgressSameStart(portion, seconds) ==
    /\ barType' = "normal"
    /\ scopeSize' = portion
    /\ elapsed' = 0
    /\ duration' = seconds
    /\ progress' = 0
    /\ scopes' = scopes + 1
    /\ UNCHANGED scopeStart

\* ui_show_progress(portion, seconds): a new scope after the previous one.
ShowProgress(portion, seconds) ==
    /\ barType' = "normal"
    /\ scopeStart' = scopeStart + scopeSize
    /\ scopeSize' = portion
    /\ elapsed' = 0
    /\ duration' = seconds
    /\ progress' = 0
    /\ scopes' = scopes + 1

\* The clamp of ui_set_progress to [0, 1].
ClampFraction(f) == IF f < 0 THEN 0 ELSE IF f > DEN THEN DEN ELSE f

\* (int) (f * width * gProgressScopeSize): the pixel column of fraction f.
PixelOf(f) == (f * BarWidth * scopeSize) \div (DEN * DEN)

\* ui_set_progress(fraction): only forward, on a determinate bar, and only
\* when the pixel column changes.
SetProgress(fraction) ==
    LET f == ClampFraction(fraction) IN
    /\ progress' = IF barType = "normal" /\ f > progress
                       /\ PixelOf(progress) # PixelOf(f)
                    THEN f ELSE progress
    /\ UNCHANGED <<barType, scopeStart, scopeSize, duration, elapsed, scopes>>

\* progress_thread: 1.0 * elapsed / duration, clamped to 1.0.
TimedProgress ==
    LET p == (elapsed * DEN) \div duration IN IF p > DEN THEN DEN ELSE p

\* One pass of progress_thread's loop that moves the bar (a pass that moves
\* nothing, or only animates the indeterminate bar, changes no state here).
ProgressThread ==
    /\ barType = "normal" /\ duration > 0
    /\ TimedProgress > progress
    /\ progress' = TimedProgress
    /\ UNCHANGED <<barType, scopeStart, scopeSize, duration, elapsed, scopes>>
    /\ UNCHANGED <<pc, result, kind, child, exitOK, installs>>
    /\ UNCHANGED ubVars /\ UNCHANGED shVars

\* A second of wall-clock time passes.  Only time since gProgressScopeTime
\* is kept, and only up to the scope's duration: beyond it progress_thread
\* clamps to 1.0 whatever the clock says.
ClockTick ==
    /\ barType = "normal" /\ elapsed < duration
    /\ elapsed' = elapsed + 1
    /\ UNCHANGED <<barType, scopeStart, scopeSize, progress, duration, scopes>>
    /\ UNCHANGED <<pc, result, kind, child, exitOK, installs>>
    /\ UNCHANGED ubVars /\ UNCHANGED shVars

-----------------------------------------------------------------------------
(* install_package and try_update_binary                                   *)

\* install_package: ensure_root_path_mounted, translate_root_path and
\* mzOpenZipArchive each may fail, and then the package is CORRUPT.
InstallOpen ==
    /\ pc = "start"
    /\ \E ok \in BOOLEAN :
         IF ok THEN pc' = "try" /\ UNCHANGED result
         ELSE pc' = "ret" /\ result' = "corrupt"
    /\ UNCHANGED <<kind, child, exitOK>> /\ UNCHANGED ubVars
    /\ UNCHANGED shVars
    /\ UNCHANGED <<barVars, installs>>

\* try_update_binary: META-INF/update-or.sh wins over an update-binary.  A
\* custom binary is extracted to /tmp/update_binary (creat or the extraction
\* may fail, returning 1); otherwise /sbin/updater runs.  Then the bar turns
\* indeterminate, the child is forked with the write end of the pipe (exec
\* failure is _exit(-1)), and ui_set_progress(0.0) is a no-op on an
\* indeterminate bar.
TryUpdateBinary ==
    /\ pc = "try"
    /\ IF kind = "or_script"
       THEN pc' = "or_extract" /\ UNCHANGED <<result, child, barVars>>
       ELSE \E extracted \in IF kind = "custom_binary" THEN BOOLEAN ELSE {TRUE} :
              IF extracted
              THEN /\ pc' = "ub_read" /\ child' = "running"
                   /\ ShowIndeterminateProgress
                   /\ UNCHANGED result
              ELSE pc' = "ret" /\ result' = "error" /\ UNCHANGED <<child, barVars>>
    /\ UNCHANGED <<kind, exitOK, installs>> /\ UNCHANGED ubVars
    /\ UNCHANGED shVars

\* The update-binary writes one protocol line.
UbChildWrite ==
    /\ child = "running" /\ kind # "or_script"
    /\ sent < MaxCmds
    /\ \E c \in Cmds :
         /\ ubPipe' = Append(ubPipe, c)
         /\ sentFw' = IF c.cmd = "firmware" /\ c.type # NULL
                      THEN Append(sentFw, c.type) ELSE sentFw
    /\ sent' = sent + 1
    /\ UNCHANGED <<pc, result, kind, child, exitOK, fwType, staged>>
    /\ UNCHANGED shVars
    /\ UNCHANGED <<barVars, installs>>

\* The update-binary exits, with any status; this closes the pipe.
UbChildExit ==
    /\ child = "running" /\ kind # "or_script"
    /\ \E ok \in BOOLEAN : exitOK' = ok
    /\ child' = "exited"
    /\ UNCHANGED <<pc, result, kind>> /\ UNCHANGED ubVars /\ UNCHANGED shVars
    /\ UNCHANGED <<barVars, installs>>

\* Mutant of FirstFirmware: every complete firmware line replaces the last.
LastFirmware(t) == t

\* "ignoring attempt to do multiple firmware updates": the first wins.
FirstFirmware(t) == IF fwType = NULL THEN t ELSE fwType

\* One fgets/strtok iteration of the protocol loop (install.c:300-348).
UbRead ==
    /\ pc = "ub_read"
    /\ ubPipe # <<>>
    /\ LET c == Head(ubPipe) IN
         /\ fwType' = IF c.cmd = "firmware" /\ c.type # NULL
                      THEN FirstFirmware(c.type) ELSE fwType
         /\ CASE c.cmd = "progress"     -> ShowProgress(c.frac, c.secs)
              [] c.cmd = "set_progress" -> SetProgress(c.frac)
              [] OTHER                  -> UNCHANGED barVars
    /\ ubPipe' = Tail(ubPipe)
    /\ UNCHANGED <<pc, result, kind, child, exitOK, staged, sentFw, sent>>
    /\ UNCHANGED <<shVars, installs>>

\* Mutant of UbEOF: the recorded firmware request is handled before the
\* exit status is looked at.
UbEOFFirmwareFirst ==
    /\ pc = "ub_read"
    /\ ubPipe = <<>> /\ child = "exited"
    /\ IF fwType # NULL THEN pc' = "fw" /\ UNCHANGED result
       ELSE IF ~exitOK THEN pc' = "ret" /\ result' = "error"
       ELSE pc' = "ret" /\ result' = "success"
    /\ UNCHANGED <<kind, child, exitOK>> /\ UNCHANGED ubVars
    /\ UNCHANGED shVars
    /\ UNCHANGED <<barVars, installs>>

\* fgets returns NULL once the child has closed the pipe; waitpid, then the
\* exit status decides, then a recorded firmware request is handled.
UbEOF ==
    /\ pc = "ub_read"
    /\ ubPipe = <<>> /\ child = "exited"
    /\ IF ~exitOK THEN pc' = "ret" /\ result' = "error"
       ELSE IF fwType = NULL THEN pc' = "ret" /\ result' = "success"
       ELSE pc' = "fw" /\ UNCHANGED result
    /\ UNCHANGED <<kind, child, exitOK>> /\ UNCHANGED ubVars
    /\ UNCHANGED shVars
    /\ UNCHANGED <<barVars, installs>>

\* handle_firmware_update: find/stat, malloc, read, remember; any may fail.
HandleFirmware ==
    /\ pc = "fw"
    /\ \E ok \in BOOLEAN :
         /\ staged' = IF ok THEN fwType ELSE NULL
         /\ result' = IF ok THEN "success" ELSE "error"
    /\ pc' = "ret"
    /\ UNCHANGED <<kind, child, exitOK, ubPipe, fwType, sentFw, sent>>
    /\ UNCHANGED shVars
    /\ UNCHANGED <<barVars, installs>>

-----------------------------------------------------------------------------
(* handle_or_update and run_shell_script(cmd, 1, NULL)                      *)

\* run_shell_script's setup: pipe, fork the shell with stdout on the pipe,
\* set O_NONBLOCK, and open and map the interactive-menu block.  On open
\* failure interactive_menu stays NULL; on mmap failure it holds MAP_FAILED
\* (install.c:447-448).
StartScript ==
    /\ pc' = "sh_top"
    /\ child' = "running"
    /\ shm' \in ShmOutcomes

\* handle_or_update: rm -rf and mkdir_recursive of the extraction directory,
\* mzExtractRecursive (either failing returns an error), then
\* run_shell_script.
HandleOrUpdate ==
    /\ pc = "or_extract"
    /\ \E ok \in BOOLEAN :
         IF ok
         THEN StartScript /\ UNCHANGED result
         ELSE pc' = "ret" /\ result' = "error" /\ UNCHANGED <<child, shm>>
    /\ UNCHANGED <<kind, exitOK>> /\ UNCHANGED ubVars
    /\ UNCHANGED <<shPipe, written, printed, inTrigger, answer, cpc, requests,
                   answers, reqWritten>>
    /\ UNCHANGED <<barVars, installs>>

\* The script writes one unit to stdout; write blocks while the pipe is full.
ShChildWrite ==
    /\ child = "running" /\ kind = "or_script" /\ cpc = "run"
    /\ written < MaxOutput /\ shPipe < PipeCap
    /\ shPipe' = shPipe + 1
    /\ written' = written + 1
    /\ UNCHANGED <<pc, result, kind, child, exitOK>> /\ UNCHANGED ubVars
    /\ UNCHANGED <<printed, shm, inTrigger, answer, cpc, requests, answers,
                   reqWritten>>
    /\ UNCHANGED <<barVars, installs>>

\* The script's menu tool fills header and items, sets in_trigger, and waits
\* for out_trigger; only when idle, and only when the block exists.
ShChildRequest ==
    /\ child = "running" /\ kind = "or_script" /\ cpc = "run"
    /\ shm = "mapped" /\ requests < MaxMenus
    /\ inTrigger' = TRUE
    /\ cpc' = "await"
    /\ requests' = requests + 1
    /\ reqWritten' = written
    /\ UNCHANGED <<pc, result, kind, child, exitOK>> /\ UNCHANGED ubVars
    /\ UNCHANGED <<shPipe, written, printed, shm, answer, answers>>
    /\ UNCHANGED <<barVars, installs>>

\* The menu tool takes the chosen index from out_trigger.
ShChildAnswer ==
    /\ cpc = "await" /\ answer
    /\ answer' = FALSE
    /\ cpc' = "run"
    /\ UNCHANGED <<pc, result, kind, child, exitOK>> /\ UNCHANGED ubVars
    /\ UNCHANGED <<shPipe, written, printed, shm, inTrigger, requests, answers,
                   reqWritten>>
    /\ UNCHANGED <<barVars, installs>>

\* The script exits.
ShChildExit ==
    /\ child = "running" /\ kind = "or_script" /\ cpc = "run"
    /\ child' = "exited"
    /\ \E ok \in BOOLEAN : exitOK' = ok
    /\ UNCHANGED <<pc, result, kind>> /\ UNCHANGED ubVars /\ UNCHANGED shVars
    /\ UNCHANGED <<barVars, installs>>

\* Mutant of Chunk: a read is taken to return a full buffer.
ChunkFull == ReadSize

\* What one read(script_pipefd[0], buffer, 1024) returns from the pipe.
Chunk == IF shPipe < ReadSize THEN shPipe ELSE ReadSize

\* Mutant of ClearTrigger: in_trigger is left set after the request is taken.
KeepTrigger == inTrigger

\* interactive_menu->in_trigger = 0
ClearTrigger == FALSE

\* Top of the loop with interactive_menu == MAP_FAILED: the test
\* interactive_menu != NULL passes and ->in_trigger dereferences (void*)-1.
ShBadMap ==
    /\ pc = "sh_top" /\ shm = "failed"
    /\ pc' = "crashed"
    /\ UNCHANGED <<result, kind, child, exitOK>> /\ UNCHANGED ubVars
    /\ UNCHANGED shVars
    /\ UNCHANGED <<barVars, installs>>

\* in_trigger set: clear it, print one read of what is buffered, and show
\* the menu (show_interactive_menu blocks).
ShTrigger ==
    /\ pc = "sh_top" /\ shm = "mapped" /\ inTrigger
    /\ inTrigger' = ClearTrigger
    /\ shPipe' = shPipe - Chunk
    /\ printed' = printed + Chunk
    /\ pc' = "sh_menu"
    /\ UNCHANGED <<result, kind, child, exitOK>> /\ UNCHANGED ubVars
    /\ UNCHANGED <<written, shm, answer, cpc, requests, answers, reqWritten>>
    /\ UNCHANGED <<barVars, installs>>

\* Mutant of AnswerWritten: the chosen item is not written back.
AnswerNotWritten == answer

\* interactive_menu->out_trigger = chosen_item
AnswerWritten == TRUE

\* The user picks an item (or goes back); header and items are cleared and
\* the choice is written to out_trigger; the loop goes on to its read.
ShMenuAnswer ==
    /\ pc = "sh_menu"
    /\ answer' = AnswerWritten
    /\ answers' = answers + 1
    /\ pc' = "sh_read"
    /\ UNCHANGED <<result, kind, child, exitOK>> /\ UNCHANGED ubVars
    /\ UNCHANGED <<shPipe, written, printed, shm, inTrigger, cpc, requests,
                   reqWritten>>
    /\ UNCHANGED <<barVars, installs>>

\* rv = read(...): data is printed and the loop restarts; EAGAIN leads to
\* the waitpid(WNOHANG) test.  EOF never comes: the parent keeps the write
\* end open until after the loop (install.c:555).
ShRead ==
    /\ \/ pc = "sh_read"
       \/ pc = "sh_top" /\ shm = "none"
       \/ pc = "sh_top" /\ shm = "mapped" /\ ~inTrigger
    /\ shPipe' = shPipe - Chunk
    /\ printed' = printed + Chunk
    /\ pc' = IF Chunk > 0 THEN "sh_top" ELSE "sh_wait"
    /\ UNCHANGED <<result, kind, child, exitOK>> /\ UNCHANGED ubVars
    /\ UNCHANGED <<written, shm, inTrigger, answer, cpc, requests, answers,
                   reqWritten>>
    /\ UNCHANGED <<barVars, installs>>

\* waitpid(child, &sts, WNOHANG): non-zero once the child has exited.
ShWait ==
    /\ pc = "sh_wait"
    /\ pc' = IF child = "exited" THEN "sh_last" ELSE "sh_top"
    /\ UNCHANGED <<result, kind, child, exitOK>> /\ UNCHANGED ubVars
    /\ UNCHANGED shVars
    /\ UNCHANGED <<barVars, installs>>

\* "do one last check (race)": a single read, then the loop ends; the pipe
\* is closed, the block removed, and handle_or_update returns success
\* whatever the script's status.
ShLast ==
    /\ pc = "sh_last"
    /\ shPipe' = shPipe - Chunk
    /\ printed' = printed + Chunk
    /\ pc' = "ret"
    /\ result' = "success"
    /\ UNCHANGED <<kind, child, exitOK>> /\ UNCHANGED ubVars
    /\ UNCHANGED <<written, shm, inTrigger, answer, cpc, requests, answers,
                   reqWritten>>
    /\ UNCHANGED <<barVars, installs>>

-----------------------------------------------------------------------------

\* Lite main (recovery.c:1286-1313): install_package(update_package), then,
\* whatever its status, install_package(FULL_PACKAGE_FILE).  Nothing resets
\* the progress bar in between (ui_reset_progress has no caller).
NextInstall ==
    /\ pc = "ret" /\ installs < MaxInstalls
    /\ installs' = installs + 1
    /\ pc' = "start" /\ result' = "none" /\ kind' \in Kinds
    /\ child' = "none" /\ exitOK' = FALSE
    /\ ubPipe' = <<>> /\ fwType' = NULL /\ staged' = NULL
    /\ sentFw' = <<>> /\ sent' = 0
    /\ shPipe' = 0 /\ written' = 0 /\ printed' = 0 /\ shm' = "none"
    /\ inTrigger' = FALSE /\ answer' = FALSE /\ cpc' = "run"
    /\ requests' = 0 /\ answers' = 0 /\ reqWritten' = 0
    /\ UNCHANGED barVars

Parent ==
    \/ InstallOpen \/ TryUpdateBinary \/ UbRead \/ UbEOF \/ HandleFirmware
    \/ HandleOrUpdate \/ ShBadMap \/ ShTrigger \/ ShMenuAnswer \/ ShRead
    \/ ShWait \/ ShLast \/ NextInstall

ChildProc ==
    \/ UbChildWrite \/ UbChildExit
    \/ ShChildWrite \/ ShChildRequest \/ ShChildAnswer \/ ShChildExit

Next == Parent \/ ChildProc \/ ProgressThread \/ ClockTick

\* Recovery's thread always proceeds (it busy-polls), the child is a
\* separate process the kernel schedules, and it is assumed to terminate;
\* the user eventually answers a menu (part of Parent: ShMenuAnswer).  The
\* progress thread wakes every 1/15 s whatever else runs, and the clock
\* does not stop.
Spec == Init /\ [][Next]_vars /\ WF_vars(Parent) /\ WF_vars(ChildProc)
          /\ WF_vars(ProgressThread) /\ WF_vars(ClockTick)

-----------------------------------------------------------------------------
(* Properties                                                              *)

\* Each interactive-menu request of the script is shown and answered exactly
\* once: in_trigger is cleared before the menu is shown (install.c:468) and
\* out_trigger written after it (install.c:498).
OneAnswerPerRequest ==
    /\ answers <= requests
    /\ cpc = "run" => answers = requests

\* install_package reports success only if the update-binary exited with 0
\* and, when it asked for firmware, the first complete request was staged
\* (spec 4.5 step 6; install.c:326-335, 352-363).
InstallOutcome ==
    (pc = "ret" /\ result = "success" /\ kind # "or_script") =>
        /\ exitOK
        /\ staged = (IF Len(sentFw) = 0 THEN NULL ELSE Head(sentFw))

\* install_package does not hang: the poll loop ends once the script has
\* exited, the update-binary protocol ends at EOF, and no process waits for
\* ever on the other, so both of Lite main's installs return (the process
\* may instead die, see MapFailureNotFatal).
InstallTerminates == <>(pc = "crashed" \/ (pc = "ret" /\ installs = MaxInstalls))

\* Position of the bar's filled end, times DEN * DEN (draw_progress_locked:
\* (gProgressScopeStart + gProgress * gProgressScopeSize) * width).
Shown == scopeStart * DEN + progress * scopeSize

\* The determinate bar never moves backward (spec 4.5 progress model): not
\* by ui_set_progress, not by progress_thread racing the protocol loop, and
\* not when ui_show_progress opens the next scope after the last one.
BarNeverBackward ==
    [][barType = "normal" /\ barType' = "normal" => Shown' >= Shown]_barVars

\* An update-binary that did not exit with status 0 has staged nothing: the
\* firmware request it sent before failing is never handed to
\* remember_firmware_update, and install_package reports an error
\* (install.c:352-363: the status test precedes handle_firmware_update).
FailedUpdateStagesNothing ==
    (pc = "ret" /\ kind # "or_script" /\ child = "exited" /\ ~exitOK) =>
        /\ staged = NULL
        /\ result = "error"

\* All script output reaches the screen before run_shell_script returns
\* (spec 9: "all output forwarded, in original order, before the call
\* returns"); the final read after waitpid takes one buffer only.
AllOutputForwarded == (pc = "ret" /\ kind = "or_script" /\ result = "success")
                        => printed = written

\* A failure to map the interactive-menu block only disables the menu
\* (spec 4.5: "logged, not fatal"); recovery does not crash in the loop.
MapFailureNotFatal == pc # "crashed"

=============================================================================
