# TLA+ models of Open Recovery

These modules model the Open Recovery controller in `src/src/bootable/open_recovery` and the tools around it, using the TLC model checker. `PROJECT.json` lists:

- every component;
- every run, with the properties it checks;
- a mutant for each checked property;
- the map from each TLA+ definition to the C lines it translates;
- the findings and the hazards.

## The system

- **Recovery controller** (`recovery.c`, `main`). It is built in two variants, `OPEN_RCVR_VERSION_LITE` and full.
  - The Lite build reconciles its arguments from argv, the bootloader control block (BCB) and `CACHE:recovery/command` (`get_args`).
  - It then writes them back to the BCB so that a power loss resumes the operation. Next it runs `--update_package`, `--wipe_data` or `--wipe_cache`, and tries to install the full package `SDCARD:OpenRecovery.zip`, which replaces the running recovery. It enters the menu if something failed or the text log is visible.
  - Finally it calls `finish_recovery` and reboots. `finish_recovery` zeroes the BCB and, in Lite only, unlinks the command file.
  - The full build goes straight to the menu (`prompt_and_wait`), which calls `finish_recovery(NULL)` on entry.
- **Menu tree** (`prompt_and_wait`, `create_menu`, `get_menu_selection`, `select_action`).
  - Menu files are kept on a stack: `menu_level`, `menu_files[]`, `menu_scripts[]` and the saved selections `menu_sel[]`.
  - An item can reboot, run a shell script, toggle a tag file, open a sub-menu (optionally generated by a script), or go back with `..`. Labels and breaks cannot be selected.
- **Install subsystem** (`install.c`): the update-binary pipe protocol, and `run_shell_script`, which forwards script output and serves the shared-memory interactive-menu exchange block.
- **UI subsystem** (`ui.c`, `default_recovery_ui.c`): the input thread and key queue, the progress thread, the text log and the console screen. At start-up `ui_init` reads the colour property file with the same `read_file` and `load_properties` that envfix uses.
- **Console** (`console.c`): a shell in a pty, pumped into the UI's escape interpreter.
- **Tools**:
  - bootstrap installer;
  - adb remount service;
  - `cp`/`copyfd`/toolbox;
  - `getprop`;
  - envfix, which loads a property file into the environment;
  - updater shim;
  - YAFFS2 image builder and extractor.

## Modules

### `RecoveryBoot`

This module models the boot-control handshake across power losses.

- **State**:
  - the persistent `bcb` (command and argument set);
  - `cmdFile` (present, and its arguments);
  - the controller's program counter `pc`;
  - `build` (`lite` or, after the self-upgrade, `full`);
  - `args`, `status`, `textVisible`;
  - `finishNext`, which is where `finish_recovery` returns;
  - `crashes`;
  - two ghost sets: `accepted` (operations read into the BCB and not yet finished) and `finished`.
- **Actions**: one per step of `main` and per menu case.
  - `Start` is `get_args` and its BCB write-back.
  - `DispatchUpdate`, `DispatchWipeData`, `DispatchWipeCache` and `DispatchNone` are the Lite dispatch.
  - `EraseCache` is `erase_root("CACHE:")`.
  - `InstallFullPackage` is the self-upgrade.
  - `PromptAndWait` is the menu's entry.
  - `FinishZeroBCB` and `FinishUnlink` are the two persistent writes of `finish_recovery`, split so that a crash can fall between them.
  - `Leave` and `Reboot` end `main`.
  - Finally there are the menu cases: reboot, wipe data, wipe cache, apply sdcard, and the install triggered by it.
- **Environment**:
  - `MainRequest` is the main system writing the command file and rebooting.
  - `ManualRecovery` is the key combination.
  - `Bootloader` boots recovery when the BCB says `boot-recovery`.
  - `Crash` is a power loss at any step in recovery.
- **Bounds**: `MaxCrashes` bounds the power losses. `LITE` and `FullPackage` select the build and whether the full package is on the card.
- **Fairness**: weak fairness on the controller and the bootloader. The controller is one thread that always proceeds, and the bootloader always boots. The user and the main system get no fairness.

### `MenuNavigation`, `MCMenuNavigation`

This module models the menu stack of `prompt_and_wait`.

- **State**:
  - `menu_level`, `menu_files`, `menu_scripts`, `menu_sel`;
  - `shown`, the file whose items `MENU_ITEMS` holds;
  - `selected`;
  - `present`, the menu files that exist on disk;
  - `tags`;
  - `pc` (`select`, `hung` in a highlight loop, `crashed` after `select_action` reads a NULL action, `done`).
- **Menu files**: a file is a constant sequence of items, given by `MenuDef` in the MC module.
- **Disk changes**: scripts may create or delete any menu file (`RunScript`). This is how `create_menu` comes to fail.
- **Actions**: the highlight keys, and one action per `select_action` case. `ItemNewMenu` and `ItemNewMenuScripted` contain `BackToParent` and `OpenSubmenu`, including the failure pop.
- **Empty menu**: a menu file with a title and no items (spec.md 8.1 allows N = 0) is handled as the code handles it.
  - `get_menu_selection` clamps the start to 0 (recovery.c 407-412).
  - The down key wraps to 0 and stops there, because `delete_menu` left `MENU_ITEMS_SELECTABLE[0]` at 0xFF. `ui_menu_select` then clamps the highlight to `menu_items - 1 = -1` (ui.c 1297-1301).
  - The up key reads `MENU_ITEMS_SELECTABLE[-1]`, outside the array. The model lets it either stop at -1 or spin.
  - SELECT at 0 is `SelectEmptyMenu`: `select_action(0)` runs `strcmp` on the NULL `MENU_ITEMS_ACTION[0]`. SELECT at -1 is no choice, and the loop goes on.
- **Bounds**: `MaxMenuLevel = 3` keeps the depth limit reachable. The tree has five files: `main`, `a`, `b`, `info`, which holds labels only, and `empty`, a scripted menu with no items. `a` has three items and is opened from index 3 of `main`, so a failed reload reaches the clamp boundary `s = n`.
- **Deadlock**: not checked (`CHECK_DEADLOCK FALSE`). Choosing reboot ends `prompt_and_wait` for good.

### `MenuFile`

`MenuFile` models what `create_menu` (`recovery.c` 604-789) makes of a menu file once `fopen` succeeds. The parse holds no state across calls, so it is a function of the file's bytes, the tag marker files that exist and `ui_get_num_columns()`.

- **Operators**:
  - `Fgets` cuts the file into lines, each with its `'\n'`.
  - `ReadLine` is one pass of the loop: `'#'` lines are skipped, the first other line is the title, and later lines without `':'` are skipped.
  - `ParseItem` makes the three `strtok` calls. `Strtok` skips leading delimiters, so an empty field shifts the fields that follow it. A target may hold `':'`.
  - `MakeItem` rewrites per action: `ShellTarget` (`/bin/...` unless absolute, a leading `"` kept), the tag's `/tags/.<name>` with its `[X] ` or `[ ] ` glyph and its state, and `BreakItem`'s rule of dashes. A break or a label is not selectable.
  - An action keyword is one symbol, since `strcmp` compares the whole token.
- **Reference**: `SpecMenu` reads the file the way spec.md 6.3 and its menu item rules describe it, over lines and colon positions rather than `strtok`.
- **Check**: `MenuFileParsed` compares the two, up to the fields the screen and `select_action` use (a break's target is never read). The files are a title line `T <CR>`, optionally after a comment, followed by up to three of 13 lines, with and without a final line feed. The lines include every action branch, a target containing `':'`, a CR-terminated target, a one-colon line, a line without a colon and a blank line. The screen is 5 and 6 columns wide, so a break label is both clipped and centred with either parity. The check is stated of the initial state of the MenuNavigation run (9,520 files per width).
- **Mutant**: clipping a break label to `num_cols - 2` instead of `num_cols - 4` is caught.

### `Install`, `MCInstall`

This module models `install.c`: `install_package`, `try_update_binary`, `handle_firmware_update`, `handle_or_update` and `run_shell_script`. It also composes the parts of `ui.c` that the protocol drives: the progress bar (`ui_show_indeterminate_progress`, `ui_show_progress`, `ui_set_progress`) and `progress_thread`. The Lite `main` in `recovery.c` (1286-1313) calls `install_package` twice in a row, first the update package and then the full package, and the model does the same.

- **State**:
  - the parent's program counter `pc`, from `InstallOpen` to `ret` (or `crashed`);
  - the pipe, a sequence of at most `PipeCap` chunks;
  - the output forwarded so far and the output the child wrote, both ghosts;
  - `sentFw`, the firmware requests the update-binary sent, and `staged`, the one `try_update_binary` keeps;
  - the shared-memory block `shm` (`none`, `mapped` or `failed`) with its `in_trigger`/`out_trigger` and the number of menus requested and answered;
  - the child's program counter;
  - the progress bar under `gUpdateMutex`: `barType`, `scopeStart`, `scopeSize` and `progress` as integers over `DEN`, `duration` in seconds, and `elapsed`, the time since `gProgressScopeTime`;
  - `installs`, how many `install_package` calls have started.
- **Parent actions**:
  - `InstallOpen` and `TryUpdateBinary` open the package and fork the update-binary;
  - `TryUpdateBinary` makes the bar indeterminate before the fork. The `ui_set_progress(0.0)` that follows changes nothing on an indeterminate bar;
  - `UbRead` is one protocol line. `progress` calls `ShowProgress`, which starts the new scope at the end of the previous one. `set_progress` calls `SetProgress`, with the clamp to [0, 1] and the pixel-column test. For `firmware`, `FirstFirmware` keeps only the first complete request. `ui_print` and unknown lines change nothing modelled, the same as a firmware line without its arguments;
  - `NextInstall` starts the second `install_package`. It resets the per-install state and leaves the progress bar as it was, because nothing in the code resets it;
  - `UbEOF` and `HandleFirmware` end the update-binary path;
  - `StartScript` is `run_shell_script`'s setup, including the `mmap` of the exchange block, and `ShBadMap` is the loop's dereference of `MAP_FAILED`;
  - `ShTrigger` and `ShMenuAnswer` serve a menu request;
  - `ShRead`, `ShWait` and `ShLast` are the non-blocking read, the `waitpid(WNOHANG)` and the final single read;
  - `HandleOrUpdate` picks the script or the update-binary path.
- **Child actions**: writing output or protocol lines, requesting a menu, reading the answer, and exiting. They interleave freely with the parent.
- **Progress thread and clock**:
  - `ProgressThread` is one pass of `progress_thread` that moves the bar forward to `elapsed / duration`, clamped to 1.0. A pass that changes nothing is a stuttering step.
  - `ClockTick` advances `elapsed`. Time is kept relative to the scope start and stops counting at the scope's duration, because beyond that the thread clamps to 1.0 whatever the clock reads. This keeps the state finite without changing what the thread computes.
- **Bounds**:
  - `ReadSize = 1` and `PipeCap = 2` chunks (a chunk stands for 1024 bytes), `MaxOutput = 3`, and one menu request;
  - at most 2 protocol lines per install, over two installs. Two firmware kinds are enough to tell first-wins from last-wins;
  - `DEN = 2` and `BarWidth = 2`: portions of 0.5 and 1.0; `set_progress 0.5`, and `set_progress 1.5`, which is clamped; durations 0 and 2 s. Two lines are enough for a scope to fill and be followed by the next one. On the half-bar scope, `set_progress 0.5` is skipped by the pixel test while 1.0 is taken, so both outcomes of the test occur.
- **Fairness**:
  - weak fairness on the parent and the child, which are processes that run until they exit;
  - weak fairness on `ProgressThread`, which wakes every 1/15 s whatever the other threads do (`usleep` in a `for (;;)` loop);
  - weak fairness on `ClockTick`, because wall-clock time does not stop.

### `RecoveryUI`, `MCRecoveryUI`

This module models the three threads of `ui.c` that share state with `get_menu_selection`.

- **State**:
  - the input thread: `key_pressed`, `key_queue`, its program counter `ipc`, and the last key;
  - `show_text`;
  - the main thread: `mpc` (`start`, `wait`, `handle`, `work`), the dequeued key and `selected`;
  - the menu window: `menu_items`, `menu_top`, `menu_items_screen`, `menu_sel`, `menu_item_top`;
  - the LED: `led_sts`, the LED thread's program counter `lpc`, the LED itself, and the blink phase `state`.
- **Actions**:
  - `KeyDown` and `KeyUp` are one key event read by `input_thread`; `Enqueue` is the bounded append to `key_queue`.
  - `InputPost` is the Lite chord test that flips `show_text`.
  - `StartMenu` is `ui_clear_key_queue` then `ui_start_menu`, with the start selection clamped as `get_menu_selection` does.
  - `WaitKey` is `ui_wait_key`. `HandleKey` is one pass of the key loop: `ui_text_visible`, `device_handle_key`, the wrapping highlight and `ui_menu_select`.
  - `Beep` is the console's BEL calling `ui_led_blink(0)`, and `WorkDone` is a handler's closing `ui_led_toggle(0)`.
  - `LedTop`, `LedWake` and `LedSleep` are one pass of `led_thread`'s switch, the return from `pthread_cond_wait`, and the end of `usleep`.
- **Bounds**: a queue of 2 keys (the code's is 256; 2 is enough to fill it), menus of 1 to 4 items in a window of 3 rows under one header row, 3 key presses and one beep per item.
- **Fairness**: weak fairness on the input, main and LED threads. The user and the duration of an item get none.
- **Deadlock**: not checked. Recovery waits for the user's keys for ever.

### `Console`

This module models the console of the full build: the pump loop of `run_console` (`console.c`) and the console surface of `ui.c` that the shell's output is printed on.

- **State**:
  - `con`, a record of `console_cur_row`, `console_cur_column`, `console_top_row`, `console_force_top_row_on_text` (the scroll anchor) and `console_force_top_row_reserve`;
  - the escape accumulator: `esc_state` and `esc_buf`;
  - a ghost `overrun` that records a write outside `console_escaped_buffer` or `parameters[]`;
  - the pump's program counter `cpc`, whether the terminal has unread output (`pty`), the shell's state `child`, `force_quit` and `result`.
- **Pure operators**:
  - `PutChar` is `console_put_char`, including the row shift.
  - `ParseEsc` (RECURSIVE) is the parse loop of `console_unescape`.
  - `UnescapeCursor` is its cursor commands `A B C D H J m`, with the literal echo of unrecognised sequences through `PutEcho`.
  - `Anchor` is the end of `ui_console_print`. `ScrollUp` and `ScrollDown` are the scroll functions.
- **Actions**:
  - `Start` is `init_console` with `create_subprocess`, which may fail, and the banner.
  - `ReadPty`, `WaitNoHang`, `ConsolePrint` (one character of a read buffer), `PrintEnd`, `HandleKey` (one `ui_get_key` and `evaluate_key`), `Kill` and `Exit` are the pump.
  - `ShellWrite` and `ShellExit` are the shell.
- **Abstraction**: the characters and colours in the grid, and the keyboard layouts, are data. Printable characters are one symbol. Of the digits, only those listed in `Digits` occur.
- **Bounds**: a grid of 5 rows shifted by 2 (the real grid is 1,026 rows shifted by 26), a 2-row screen, 5 text columns, 5 printed characters and 2 keys in the passing run. With 5 text columns a tab both stays on the line and wraps.
- **Fairness**: weak fairness on the pump. Its read and its key peek never block. The shell and the user get no fairness.
- **Deadlock**: not checked. `run_console` returns, and the model stops there.

### `CopyFile` (abstract) and `CopyFd`

`CopyFd` models bootstrapbox `cp` copying one regular file: the regular-file branch of `copy_file` (`cp.c` 263-339) and all of `copyfd.c`. `CopyFile` is the abstract promise of spec.md 4.9, and `CopyFd` is shown to implement it.

- **`CopyFile`**: the state is `source`, `dest` (contents, or `NoFile`) and `phase`. The actions:
  - before the copy, the destination may be removed (`Remove`) or emptied (`Start`);
  - after that it only `Grow`s to a longer prefix of the source;
  - `Succeed` requires `dest = source`;
  - `Fail` is always allowed.
- **Refinement**: `Abs == INSTANCE CopyFile WITH phase <- Phase`. `Phase` is `prepare` before an open succeeds and `copy` until `copy_file` returns, then `ok` or `fail` from its status. The run checks `CopyRefines == Abs!Spec` as a PROPERTY.
- **State of `CopyFd`**:
  - the two files, and the offset of `src_fd` (`rpos`);
  - `pc`;
  - the buffer;
  - the locals of `bb_full_fd_action` (`total`, `xread`, `wrote`, `status`), of `bb_full_read` (`rlen`, `rtotal`) and of `bb_full_write` (`wlen`, `wtotal`);
  - `copy_file`'s `status` (`result`).
  
  Byte i of the source is the number i, so a byte out of place shows.
- **Actions**: one per system call (`OpenSrc`, `OpenTrunc`, `Unlink`, `Create`, `Read`, `Write`, `CloseDst`, `CloseSrc`), and one per stretch of code between them (`FdBegin`, `Loop`, `AfterRead`, `AfterWrite`, `FdRet`). A system call's result is drawn from a set (`ReadResults`, `WriteResults`, `Outcomes`) that the constant `Faults` shapes: short reads and writes, read and write errors, failing opens and closes.
  - `EINTR` is retried by `safe_read` and `safe_write` with no change of state, so it is stuttering.
  - A write that runs past the buffer fails with `EFAULT`. This is the one outcome chosen for reading past the malloc'd block.
- **Widths**: `size_t` and `int` are `W` bits wide. `Wrap` and `ToInt` do the target's arithmetic and its conversion of the size_t result to `int`. `ULONG_MAX` is `2^W - 1`, as `copyfd.c:34` defines it for the 32-bit target.
- **Bounds**: `W = 3`, `BUFSIZ = 3`, sources of 0 to 9 bytes. A 7-byte source reaches the `ULONG_MAX` limit, and from `total = 5` on, `total + BUFSIZ` wraps and the clamp is skipped. This is the real code's behaviour in its last 4 KiB below 4 GiB, scaled down.
- **Fairness**: weak fairness on `Next`. `cp` runs alone, and every system call returns.
- **Deadlock**: not checked. `copy_file` returns, and the model stops there.

### `CpTree`, `MCCopyFd`

`CpTree` models the rest of `cp`: `copy_file`'s branches for directories, symlinks and FIFOs, and `cp_main`'s choice between a simple copy and a copy into a directory. Each call returns a new file system and a status, so the walk is a recursive operator, not a state machine.

- **File system**: a function from canonical paths (sequences of names) to nodes `[type, data]`. `Walk` resolves a path as the kernel does: `.`, `..`, `ENOTDIR`, `ENOENT`, symlinks followed in the middle of a path, the last one only for `stat`, and `ELOOP` after `MaxHops`. `Create` and `Unlink` stand for `mkdir`, `mkfifo`, `symlink`, `open(O_CREAT)` and `unlink`.
- **Operators**:
  - `CopyFile` is `copy_file`: `lstat` of the source (`stat` with `-H`), `lstat` of the destination, the same-file test, then `CopyDir`, `CopyReg` or `CopySpecial`.
  - `CopyEntries` is the `readdir` loop. `.` and `..` are skipped by `IsDotEntry`, as `concat_subpath_file` does. A failed entry sets the status, and the loop goes on.
  - `CpMvStat` and `CpMain` are `cp_mv_stat2` and `cp_main`. `IntoDir` is the loop over the sources.
  - A regular file's bytes are copied by `bb_copyfd_eof`, which `CopyFd` models; here that copy succeeds.
  - The status is `ok`, `fail`, `overflow` or `hang`:
    - `overflow`: a path longer than `PathMax` would overrun the 512-byte `concat_path_file` buffer;
    - `hang`: `open(O_WRONLY)` of a FIFO blocks.
- **Check**: `MCCopyFd` extends `CopyFd` and instantiates `CpTree` with `MCSourceTrees`. This is every directory `/s` whose two entries are each absent, a file, a FIFO, a symlink (to the sibling `a`, to `..` or to `a/b`), or a subdirectory holding any subset of the files a and b: 100 trees. Two invariants of the CopyFd run, stated of the initial state (`Init => ...`, as `cp_main` settles a tree copy before its first system call), evaluate `cp` for each tree, with `d` absent and with `d` an existing directory:
  - `CpRecursiveCopy`: `cp -r s d` copies exactly the tree, symlinks as symlinks, and changes nothing else.
  - `CpDerefCopy`: `cp -rH s d`, over the trees whose links resolve inside them and not to an ancestor, copies each link's target in its place. `SrcFollow` picks `stat` over `lstat`.
- **Bounds**: `PathMax = 4` components hold `d/s/a/b`, the deepest path of a well-formed copy. `MaxHops = 2` is enough for the symlinks of these trees.

### `PropFile`

`PropFile` models the `key=value` property files of spec.md 6.2 and the two loaders that read them. Neither has any concurrency, so each C function is an operator that returns what the function leaves behind.

- **Shared parser**:
  - `ReadFile` is `read_file`: the bytes with a `'\n'` appended, or failure.
  - `LoadProperties` is the `strchr(sol, '\n')` loop.
  - `ParseLine` is one pass of that loop: the cut at the first `=`, `SkipSpaces`, the `#` test, and `TrimTail` for the in-place trims from `value - 2` and `eol - 2`, which never remove the first byte.
- **envfix**: `FixEnviroment` folds `SetEnv` (`setenv`, which refuses an empty name) over the pairs. It returns 1 when the file cannot be read.
- **Colours**:
  - `EvaluateProperty` is `evaluate_property`'s chain of `strcmp` tests, in code order.
  - `Htoc` is `htoc24`/`htoc32` over `ReadByteHex`/`Nibble`. `Nibble` keeps `read_byte_hex`'s unsigned-char arithmetic.
  - `MenuSetsTitle` is the `title_color_set` rule. `Atoi` reads the `termclr` number.
  - `ThemeInit` and `TermColorsInit` are the initial colours of `ui.c`. `UiLoadProperties` is `ui_init`'s load.
  - `SgrColor` is the console's current colour under `console_unescape`'s `m` command, which calls `SetFrontTermColor` (`console_set_front_term_color`) for each code.
- **Data**: bytes are ASCII codes. A property name the UI knows is one symbol (a code above 255), so `strcmp` compares it whole.
- **Reference**: `SpecLines`, `Trim`, `SpecKey`, `SpecValue`, `EnvFromSpec` and `ThemeFromSpec` say what spec.md 6.2 gives a file, line by line, without the parser's pointer walk:
  - the last valid value of each key wins;
  - colours are `#` and upper-case hex;
  - the title is the last title, else the last menu colour.
- **Check**: `MCRecoveryUI` instantiates `PropFile` with every file of up to three lines drawn from two sets of edge cases, with and without a final newline, plus a missing file: 2,223 environment files and 5,911 colour files. The environment lines include blanks, tabs, a CR, comments, a line with no `=`, an empty key, an empty value and `A==1`. The colour lines include spaced keys, short and non-hex values, lower case, text after the colour, an unknown `termclr38`, and a commented-out title.
  - `EnvFromFile`: `fix_enviroment` yields the environment `EnvFromSpec` describes, and returns 1 for a missing file.
  - `ThemeFromFile`: `ui_init` leaves the colours `ThemeFromSpec` describes.

  Both are stated of the initial state of the RecoveryUI run (`Init => ...`), since the loaders run before the threads start. TLC evaluates them once.

### `TextLog`

`TextLog` models the scrolling text log of `ui.c`. Each `ui_print` call holds `gUpdateMutex` throughout, so each C function is an operator over the record of the log's static variables (`text`, `text_rows`, `text_cols`, `text_row`, `text_col`, `text_top`).

- **Operators**:
  - `TextInit` is `ui_init`'s sizing: `text_top = 1`, and the clamps to `MAX_ROWS` and `MAX_COLS - 1`.
  - `UiPrint` and `UiPrintRaw` run `PrintLoop`: `PutChar` per byte, with `NextLine` when a `'\n'` comes or the row is full, then the closing `'\0'`.
  - `ShownRows` is `draw_screen_locked`'s loop over `text[(i + text_top) % text_rows]`, and `CString` is each row read up to its `'\0'`.
  - Rows keep their old bytes after the `'\0'`, as the C array does.
- **Reference**: `LastRows` is the ring buffer of fixed-width lines of spec.md 3: everything printed, split at each newline, each line wrapped at `text_cols` (an empty line is one row), and the last `text_rows` of these rows shown.
- **Check**: `LogShowsLastRows` compares the two for up to three calls of six texts (long lines, blank lines, a trailing newline) on screens of 1x1 to 3x2 characters. The screens include `text_rows = 1`, where `ui_init`'s `text_top = 1` is not a row index, and rings that fill and turn over. The check is stated of the initial state of the RecoveryUI run; its threads never touch the log.

### `Yaffs2`, `MCYaffs2`

`Yaffs2` composes the two YAFFS2 tools through the image file: `mkyaffs2image` (`yaffs2-utils/mkyaffs2image.c`) walks a source tree into an image, and `unyaffs` (`open_recovery/yaffs2-utils/unyaffs.c`) extracts it. Spec.md section 8 promises the round trip.

- **The tree** is given by constants:
  - `Kind`: each inode is a dir, file, symlink or special file;
  - `Entries`: each directory's `<<name, inode>>` pairs (two entries with one inode are a hard link);
  - `FileSize`: each file's size;
  - `Exceptions`: the exclusion file's lines, as name paths with or without a trailing `/`.

  Byte k of file i is `FileByte(i, k)`, so a misplaced byte shows.
- **Builder state**:
  - `image`: the chunks written, each a record of its tag (`objectId`, `chunkId`, `byteCount`), the header fields and the chunk bytes;
  - `obj_id`, and `objtab` (`obj_list` of inode to object id);
  - `stack`: the recursion of `process_directory`, with the entries `readdir` has not returned yet;
  - `mk`: the file whose chunks are being written.
- **Builder actions**:
  - `MkRoot` is `main`'s root header and the first `process_directory`;
  - `MkEntry` is one pass of the `readdir` loop: an excluded entry is skipped before it takes an id; otherwise an id is taken, then a hard-link header, `exit(2)` when the table is full, or a first header (with recursion into a directory);
  - `MkData` is one `read` plus `write_chunk`;
  - `MkDirEnd` is `closedir` and return;
  - `readdir` returns entries in any order.
- **Extractor state**: `obj_list` (object id to path, `NoPath` for NULL), the extracted tree `out` and the file contents `content`, `remain` and `pos`.
- **Extractor actions**:
  - `UnStart` is `main`'s setup;
  - `UnChunk` is `read_chunk` plus the header part of `process_chunk`: a NULL parent path is `strlen(NULL)`, and the model marks the crash;
  - `UnData` is one pass of the file loop, writing `min(remain, byteCount)` bytes.
- **Resize** is another process writing the file being imaged, between its header (`lstat`'s size) and its last `read`. A change at any other time is the same as another starting size, or is never read. `Resizes` says whether files grow, shrink or both.
- **Bounds** (`MCYaffs2`):
  - the root holds d, f (1 byte), a fifo p and x, which the exclusion file empties;
  - d holds h (a hard link to f across directories), a symlink and an empty file;
  - `CHUNK_SIZE = 2`, `MaxSize = 3`, so f may grow to one full chunk or into a short second one;
  - every `readdir` order of both directories is explored (about 120,000 states).
- **Fairness**: weak fairness on `Next`. Each tool is one process running to its end. No liveness property is checked by the run (see "Known defects" on `ExtractDone`).
- **Deadlock**: not checked. Both tools stop when they are done.

## Runs

| run | expect | what it shows |
|---|---|---|
| RecoveryBootLite | pass | Lite build, full package present, up to 2 power losses. `NoLostOperation`: an accepted operation is in the BCB whenever the device is back in the main system. `ResumeAccepted`: after a crash, `get_args` resumes an accepted operation. `AcceptedEventuallyFinished` is the liveness property. |
| RecoveryBootReplay | violation | `NoCommandReplay`: a power loss between the BCB zeroing and the unlink in `finish_recovery` replays a finished update on the next recovery entry. |
| MenuNavigation | pass | `StackWellFormed`, and `SelectionInRange`: in a menu with items, the highlight is one of them. Both hold while scripts rewrite or delete menu files, and with a menu that has no items in the tree. `create_menu` turns every small menu file into the title and items spec.md 6.3 describes (`MenuFileParsed`). |
| MenuShownIsTop | violation | A failed parent reload after `..` pops a second level, or none at level 0, while the child's items stay on screen. |
| Install | pass | Both install paths, two installs in a row, a child that races the parent, and the progress thread. Every interactive-menu request is answered exactly once (`OneAnswerPerRequest`). Success means a clean exit with the first firmware request staged (`InstallOutcome`). An update-binary that sent a firmware request and then exited non-zero has staged nothing, and the result is an error (`FailedUpdateStagesNothing`); the exit status test at install.c 352-356 comes before `handle_firmware_update`. Both `install_package` calls return (`InstallTerminates`). The determinate bar never moves backward, whether `set_progress`, the thread or a new scope moves it (`BarNeverBackward`). |
| InstallOutput | violation | `AllOutputForwarded`: output written after the last `EAGAIN` is lost beyond one 1024-byte read. |
| Console | pass | With arbitrary shell output, escape sequences included, plus scroll keys and a shell that may exit at any time: the view never scrolls above row 0 (`TypeOK`), the cursor column stays within the text columns (`ColumnInLine`), and a forced quit always ends `run_console` (`ForceQuitEnds`). |
| ConsoleCursor | violation | `CursorInGrid`: the scroll anchor falls behind the row shift inside one print call, so `ESC[B` moves the cursor to row -1 of `console_text`. With `\n\b` output the anchor can also run ahead of the cursor. |
| CopyFd | pass | The file system returns short counts and fails opens and closes. `cp` still implements `CopyFile` (`CopyRefines`) and always returns (`CopyTerminates`). `cp -r` of every small tree copies exactly that tree (`CpRecursiveCopy`), and `cp -rH` copies the targets of its symlinks (`CpDerefCopy`). |
| CopyFdDiskFull | violation | `CopyRefines`: a write error stored in the size_t `wrote` is `SIZE_MAX`, which passes the `wrote < xread` test and takes one off `total`. The loop reads on to end of file, and `cp` reports success with half the file. |
| RecoveryUI | pass | The key queue never exceeds `queue_max` (`TypeOK`). The highlighted item is always inside the scrolled window (`SelectionVisible`). A console beep always ends with the LED dark (`BeepEndsDark`). `ui_print` shows the last rows of everything printed (`LogShowsLastRows`). Before the threads start, envfix and `ui_init` turn every small property file into the environment (`EnvFromFile`) and the colours (`ThemeFromFile`) that spec.md 6.2 describes. |
| Yaffs2RoundTrip | pass | `RoundTrip`: once `unyaffs` has read the whole image, the extracted tree has exactly the source's non-excluded paths, special files aside, each of its type. Every file has its bytes as of its header, every symlink its target, and both names of the hard-linked file one file. f grows while it is read. |

Each passing property has a mutant in `PROJECT.json`: a plausible bug in one mapped definition that TLC must catch. Examples are dropping the BCB write-back in `get_args`, an off-by-one in the selection clamp, or popping the main menu on failure.

## Not yet modelled (plan)

The next candidates, in order:

1. `cp` with several sources and with `-f` over an existing destination tree, against the same reference operators.

Known defects that no run checks. Each is recorded as a hazard in `PROJECT.json`.

- `SelectsAnItem` (`MCMenuNavigation`): no selection hands `select_action` an item that is not there. In a menu with no items, SELECT at the clamped start 0 makes `select_action` run `strcmp` on the NULL `MENU_ITEMS_ACTION[0]` (recovery.c 804-806). TLC violates the property when `main` opens the scripted menu `empty` and SELECT follows, with `MenuNavigation.cfg`'s constants and `INVARIANT SelectsAnItem`.
- `BufferBound` (`CopyFd`): no `read` or `write` of the copy loop reaches past the BUFSIZ buffer. `xread < 0` (copyfd.c 151) can never hold for a `size_t`, so a read error becomes `SIZE_MAX` and `bb_full_write` is asked to write that much from the buffer. With `"read_error"` added to `Faults` in `CopyFd.cfg`, TLC violates `BufferBound` in 7 states.
- `NoHang` (`MCMenuNavigation`): the highlight loops never return in a menu of labels only. TLC violates it in one key press.
- `MapFailureNotFatal` (`Install`): a failed `mmap` leaves `MAP_FAILED` in `interactive_menu`, and the poll loop dereferences it. TLC violates it in the first poll.
- `RebootClearsBCB` (`RecoveryBoot`): in the full build, `main` leaves `prompt_and_wait` and reboots (`recovery.c` 1330-1337) without `finish_recovery`. A BCB that apply-sdcard set to boot-recovery then sends the device back into recovery. Spec.md 4.2 says both builds finish with the handshake. TLC violates it with this configuration of `RecoveryBoot`:

  ```
  CONSTANTS LITE = FALSE  FullPackage = FALSE  MaxCrashes = 0
  SPECIFICATION Spec
  INVARIANT RebootClearsBCB
  ```
- YAFFS2, with `Resizes = {"shrink"}`: a file that shrinks after its header gets fewer chunks than the header announces. `unyaffs` then takes the next header as file data, reading past its buffer. It crashes on the NULL parent path of a later entry, which violates `RoundTrip` and `ExtractDone` (both tools run to the end). `ExtractDone` is not in the run: where files only grow, both tools finish whatever the code does.
- YAFFS2: object ids start at `YAFFS_NOBJECT_BUCKETS + 1`, and hard links take ids too. An image of about 49,744 entries therefore overruns `unyaffs`'s `obj_list[MAX_OBJECTS]`, while `mkyaffs2image`'s inode table still has room. The model's `overrun` shows it once `MAX_OBJECTS` is scaled to 9.

- Progress bar across installs: Lite `main` runs `install_package` twice and nothing resets the bar between them (`ui_reset_progress` has no caller). The second install's first `progress` line therefore opens its scope at the end of the first install's bar, and its progress is drawn at or past full. With each install sending two `progress 0.5` lines, TLC reaches `Shown > DEN * DEN` in the second install.
- `ui_show_progress` does not clamp its portion the way `ui_set_progress` clamps its fraction. After `progress -0.5 2`, the timed advance moves the bar backward, and TLC violates `BarNeverBackward` with `Portions = {-1, 1}`.
- `SgrSelectsTermColor` (`PropFile`, hosted in `MCRecoveryUI`): `ESC[<n>m` selects the configured term colour for each of the 16 codes spec.md lists. `console_unescape` passes 37 and 97 on, but `console_set_front_term_color` tests `< 37` and `< 97`. `ESC[37m` and `ESC[97m` therefore leave the colour unchanged. TLC violates the property in the initial state with `RecoveryUI.cfg`'s constants and `INVARIANT SgrSelectsTermColor`. With `<=` in both tests it holds.
- `read_byte_hex` takes every character above `'9'` for a letter, so `:` to `@` are read as the digits 3 to 9. With the colour line `script=#:F0000FF` added to `MCThemeLines`, TLC violates `ThemeFromFile` in the initial state. Lower-case hex is rejected, and `ThemeFromSpec` states this as the format.
- `create_menu` takes the first line that does not start with `'#'` as the title, even when it is blank. Spec.md 6.3 says the title is the first non-empty line. With the comment choice in `MCMenuFiles` replaced by an empty first line, TLC violates `MenuFileParsed` in the initial state.
- A break whose label is exactly `*` (`*:break:x`) gets `num_cols` dashes with no `'\0'` after them (`recovery.c` 725-733), so drawing it reads past the buffer. It also gets no target, and the old label is not freed. With that line added to `MCMenuLines`, TLC violates `MenuFileParsed` in the initial state (`nul` is FALSE).
- `cp -r s s/b`: `copy_file` makes `s/b` before it opens `s`, so `readdir` meets `b` and the walk copies `s/b` into `s/b/b`, without end. The same happens with `cp -rH` over a symlink to `..`. Evaluating `CpTree!CpMain` gives status `overflow` for both: a path past `concat_path_file`'s 512-byte buffer.

Not modelled at all:

- The bootstrap installer (`bootstrap.c`) makes a one-shot decision: `stat`/`unlink` of the mark file, a key-state `ioctl`, and an `execl`. Its two hazards are in `PROJECT.json`: two hijacked shells racing on the mark, and the mark consumed before an `exec` that can fail with no fallback to the real shell.
- The adb remount service (`remount_service.c`) is one function over one flag. A failure stores -1 in `system_ro`, so the next request retries the mount, while spec.md 4.8 says a failure is sticky. Two calls show this directly.
- `getprop` and the updater shim are pure I/O and exec.
- Framebuffer drawing, text layout and the cursor-blink thread are output only.
- In YAFFS2: the exclusion file's parsing, the `convert` byte swap, owners, modes and times, and errors on the image file.
- In `cp`: `-p` (the results of `utime`, `chown` and `chmod` are only printed), block and character devices and sockets (`mknod`, like a FIFO's `mkfifo`), option parsing, and the toolbox dispatcher (a table lookup).
