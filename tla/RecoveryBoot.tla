---------------------------- MODULE RecoveryBoot ----------------------------
(***************************************************************************)
(* The Recovery Controller's boot-control handshake (recovery.c): how a    *)
(* command written by the main system to CACHE:recovery/command is taken   *)
(* into the bootloader control block (BCB) by get_args, carried out by     *)
(* main's dispatch, and retired by finish_recovery, with a power loss      *)
(* possible between any two persistent steps.  The interactive menu is     *)
(* abstracted to the items that touch persistent state (reboot, wipe data, *)
(* wipe cache, install from sdcard); menu navigation is MenuNavigation.    *)
(*                                                                         *)
(* Persistent state: the BCB and the command file.  Volatile state: where  *)
(* the controller is (pc), its parsed directive, its install status and    *)
(* whether the text log is visible.  Ghost state: accepted (the directive  *)
(* get_args took and finish_recovery has not yet retired) and finished     *)
(* (directives retired since the main system last asked for them).         *)
(***************************************************************************)
EXTENDS Naturals, FiniteSets

CONSTANTS
    LITE,         \* TRUE: the Lite build (OPEN_RCVR_VERSION_LITE) is installed
    FullPackage,  \* TRUE: SDCARD:OpenRecovery.zip is present and takes over
    MaxCrashes    \* bound on power losses in one behaviour

ASSUME LITE \in BOOLEAN /\ FullPackage \in BOOLEAN /\ MaxCrashes \in Nat

\* The directives of main's getopt loop that start an operation.
Ops == {"update", "wipe_data", "wipe_cache"}

\* The operation main dispatches on: --update_package wins over --wipe_data,
\* which wins over --wipe_cache; no directive is "No command specified".
Op(args) ==
    IF "update" \in args THEN "update"
    ELSE IF "wipe_data" \in args THEN "wipe_data"
    ELSE IF "wipe_cache" \in args THEN "wipe_cache"
    ELSE "none"

\* A zeroed bootloader_message; set_bootloader_message(&boot) after memset.
ZeroBCB == [command |-> "none", args |-> {}]

NoCommandFile == [present |-> FALSE, args |-> {}]

VARIABLES
    bcb,          \* bootloader_message: command and the "recovery\n..." lines
    cmdFile,      \* CACHE:recovery/command
    pc,           \* where the device / controller is
    build,        \* the build variant of the running controller
    args,         \* the directives main parsed
    status,       \* main's status (INSTALL_SUCCESS or not)
    textVisible,  \* ui_text_visible()
    finishNext,   \* where control goes when finish_recovery returns
    crashes,      \* power losses so far
    accepted,     \* ghost: operations taken by get_args, not yet finished
    finished      \* ghost: operations finished since the main system asked

vars == <<bcb, cmdFile, pc, build, args, status, textVisible, finishNext,
          crashes, accepted, finished>>

PCs == {"main", "boot", "start", "dispatch", "erase_cache", "full_pkg",
        "prompt", "menu", "menu_erase_data", "menu_erase_cache",
        "menu_install", "finish", "finish_unlink", "reboot"}

TypeOK ==
    /\ bcb \in [command : {"none", "boot-recovery"}, args : SUBSET Ops]
    /\ cmdFile \in [present : BOOLEAN, args : SUBSET Ops]
    /\ pc \in PCs
    /\ build \in {"lite", "full"}
    /\ args \in SUBSET Ops
    /\ status \in {"success", "error"}
    /\ textVisible \in BOOLEAN
    /\ finishNext \in {"menu", "reboot"}
    /\ crashes \in 0..MaxCrashes
    /\ accepted \in SUBSET Ops
    /\ finished \in SUBSET Ops

\* The main system is running with a clean BCB and no pending command.
Init ==
    /\ bcb = ZeroBCB
    /\ cmdFile = NoCommandFile
    /\ pc = "main"
    /\ build = IF LITE THEN "lite" ELSE "full"
    /\ args = {}
    /\ status = "success"
    /\ textVisible = FALSE
    /\ finishNext = "reboot"
    /\ crashes = 0
    /\ accepted = {}
    /\ finished = {}

-----------------------------------------------------------------------------
(* Environment: the main system, the bootloader and power loss.           *)

\* The main system writes one directive to the command file and reboots
\* into recovery (header comment of recovery.c, FACTORY RESET / OTA steps 2-3).
MainRequest(d) ==
    /\ pc = "main"
    /\ cmdFile' = [present |-> TRUE, args |-> {d}]
    /\ finished' = finished \ {d}
    /\ pc' = "start"
    /\ UNCHANGED <<bcb, build, args, status, textVisible, finishNext,
                   crashes, accepted>>

\* The user enters recovery by hand (key combination at boot).
ManualRecovery ==
    /\ pc = "main"
    /\ pc' = "start"
    /\ UNCHANGED <<bcb, cmdFile, build, args, status, textVisible, finishNext,
                   crashes, accepted, finished>>

\* The bootloader starts recovery while the BCB says "boot-recovery".
Bootloader ==
    /\ pc = "boot"
    /\ pc' = IF bcb.command = "boot-recovery" THEN "start" ELSE "main"
    /\ UNCHANGED <<bcb, cmdFile, build, args, status, textVisible, finishNext,
                   crashes, accepted, finished>>

\* Power is lost while the controller runs: only persistent state survives.
Crash ==
    /\ pc \notin {"main", "boot"}
    /\ crashes < MaxCrashes
    /\ crashes' = crashes + 1
    /\ pc' = "boot"
    /\ UNCHANGED <<bcb, cmdFile, build, args, status, textVisible, finishNext,
                   accepted, finished>>

-----------------------------------------------------------------------------
(* The controller.                                                         *)

\* Mutant of GetArgsSource: the BCB's argument lines are never consulted.
GetArgsSourceNoBCB == IF cmdFile.present THEN cmdFile.args ELSE {}

\* get_args: the arguments come from the BCB when its "recovery" field
\* carries argument lines after "recovery", else from the command file.
GetArgsSource ==
    IF bcb.args # {} THEN bcb.args
    ELSE IF cmdFile.present THEN cmdFile.args ELSE {}

\* Mutant of GetArgsRecord: the write-back loop starts at argv[0], so the
\* "recovery" line is stored as an argument as well.
GetArgsRecordArgvZero(a) == [command |-> "boot-recovery", args |-> a \cup {"recovery"}]

\* Mutant of GetArgsRecord: set_bootloader_message is never called.
GetArgsRecordNoWrite(a) == bcb

\* get_args: the BCB written back, "boot-recovery" and "recovery\n" followed
\* by one line per argument.
GetArgsRecord(a) == [command |-> "boot-recovery", args |-> a]

\* main: ui_init (the Lite build starts with the text log hidden), then in
\* the Lite build get_args and the getopt loop; the full build goes
\* straight to prompt_and_wait.
Start ==
    /\ pc = "start"
    /\ build' = IF LITE THEN "lite" ELSE "full"
    /\ textVisible' = ~LITE
    /\ status' = "success"
    /\ IF LITE
       THEN /\ args' = GetArgsSource
            /\ bcb' = GetArgsRecord(GetArgsSource)
            /\ accepted' = accepted \cup ({Op(GetArgsSource)} \cap Ops)
            /\ pc' = "dispatch"
       ELSE /\ pc' = "prompt"
            /\ UNCHANGED <<args, bcb, accepted>>
    /\ UNCHANGED <<cmdFile, finishNext, crashes, finished>>

\* --update_package: install_package, which may fail.
DispatchUpdate ==
    /\ pc = "dispatch" /\ Op(args) = "update"
    /\ status' \in {"success", "error"}
    /\ pc' = "full_pkg"
    /\ UNCHANGED <<bcb, cmdFile, build, args, textVisible, finishNext,
                   crashes, accepted, finished>>

\* --wipe_data: device_wipe_data and erase_root("DATA:"); --wipe_data also
\* sets wipe_cache, so the cache is erased next.
DispatchWipeData ==
    /\ pc = "dispatch" /\ Op(args) = "wipe_data"
    /\ status' \in {"success", "error"}
    /\ pc' = "erase_cache"
    /\ UNCHANGED <<bcb, cmdFile, build, args, textVisible, finishNext,
                   crashes, accepted, finished>>

\* --wipe_cache alone.
DispatchWipeCache ==
    /\ pc = "dispatch" /\ Op(args) = "wipe_cache"
    /\ pc' = "erase_cache"
    /\ UNCHANGED <<bcb, cmdFile, build, args, status, textVisible, finishNext,
                   crashes, accepted, finished>>

\* No directive: status = INSTALL_ERROR.
DispatchNone ==
    /\ pc = "dispatch" /\ Op(args) = "none"
    /\ status' = "error"
    /\ pc' = "full_pkg"
    /\ UNCHANGED <<bcb, cmdFile, build, args, textVisible, finishNext,
                   crashes, accepted, finished>>

\* erase_root("CACHE:"): reformatting the cache removes the command file;
\* a failed format leaves it and sets INSTALL_ERROR.
EraseCache ==
    /\ pc = "erase_cache"
    /\ \/ /\ cmdFile' = NoCommandFile
          /\ UNCHANGED status
       \/ /\ status' = "error"
          /\ UNCHANGED cmdFile
    /\ pc' = "full_pkg"
    /\ UNCHANGED <<bcb, build, args, textVisible, finishNext,
                   crashes, accepted, finished>>

\* install_package(FULL_PACKAGE_FILE).  When the full version takes over,
\* the Lite process never returns here (the comment in finish_recovery)
\* and the full build's prompt_and_wait runs.  Otherwise main enters
\* prompt_and_wait on failure or visible text, else goes on to finish.
\* A package on the card can still fail to install (or_up_sts != SUCCESS).
InstallFullPackage ==
    /\ pc = "full_pkg"
    /\ \E takeover \in IF FullPackage THEN BOOLEAN ELSE {FALSE} :
         IF takeover
         THEN /\ build' = "full"
              /\ textVisible' = TRUE
              /\ pc' = "prompt"
         ELSE /\ pc' = IF status = "error" \/ textVisible THEN "prompt"
                       ELSE "finish"
              /\ UNCHANGED <<build, textVisible>>
    /\ finishNext' = "reboot"
    /\ UNCHANGED <<bcb, cmdFile, args, status, crashes, accepted, finished>>

\* Mutant of PromptAndWait: the menu loop starts without finish_recovery.
PromptAndWaitNoFinish ==
    /\ pc = "prompt"
    /\ pc' = "menu"
    /\ UNCHANGED <<bcb, cmdFile, build, args, status, textVisible, finishNext,
                   crashes, accepted, finished>>

\* prompt_and_wait: the menu is built and finish_recovery(NULL) is called
\* before the first selection.
PromptAndWait ==
    /\ pc = "prompt"
    /\ pc' = "finish"
    /\ finishNext' = "menu"
    /\ UNCHANGED <<bcb, cmdFile, build, args, status, textVisible,
                   crashes, accepted, finished>>

\* finish_recovery: intent and log are written, then the BCB is zeroed.
\* The operation the BCB carried is now retired.
FinishZeroBCB ==
    /\ pc = "finish"
    /\ bcb' = ZeroBCB
    /\ finished' = finished \cup accepted
    /\ accepted' = {}
    /\ pc' = IF build = "lite" THEN "finish_unlink" ELSE finishNext
    /\ UNCHANGED <<cmdFile, build, args, status, textVisible, finishNext,
                   crashes>>

\* finish_recovery, Lite build: the command file is unlinked, then sync.
FinishUnlink ==
    /\ pc = "finish_unlink"
    /\ cmdFile' = NoCommandFile
    /\ pc' = finishNext
    /\ UNCHANGED <<bcb, build, args, status, textVisible, finishNext,
                   crashes, accepted, finished>>

\* Leaving prompt_and_wait: main's Lite path calls finish_recovery before
\* rebooting, the full path reboots directly.
Leave ==
    IF build = "lite"
    THEN pc' = "finish" /\ finishNext' = "reboot"
    ELSE pc' = "reboot" /\ UNCHANGED finishNext

\* main: sync, unmount and reboot(RB_AUTOBOOT).
Reboot ==
    /\ pc = "reboot"
    /\ pc' = "boot"
    /\ UNCHANGED <<bcb, cmdFile, build, args, status, textVisible, finishNext,
                   crashes, accepted, finished>>

-----------------------------------------------------------------------------
(* The menu items of prompt_and_wait that touch persistent state.  Keys    *)
(* only select while the text log is visible (device_handle_key).          *)

MenuReboot ==
    /\ pc = "menu" /\ textVisible
    /\ Leave
    /\ UNCHANGED <<bcb, cmdFile, build, args, status, textVisible,
                   crashes, accepted, finished>>

\* ITEM_WIPE_DATA: wipe_data(ui_text_visible()) asks for confirmation.
MenuWipeData ==
    /\ pc = "menu" /\ textVisible
    /\ pc' \in {"menu", "menu_erase_data"}
    /\ UNCHANGED <<bcb, cmdFile, build, args, status, textVisible, finishNext,
                   crashes, accepted, finished>>

\* wipe_data: device_wipe_data and erase_root("DATA:").
MenuEraseData ==
    /\ pc = "menu_erase_data"
    /\ pc' = "menu_erase_cache"
    /\ UNCHANGED <<bcb, cmdFile, build, args, status, textVisible, finishNext,
                   crashes, accepted, finished>>

\* ITEM_WIPE_CACHE.
MenuWipeCache ==
    /\ pc = "menu" /\ textVisible
    /\ pc' = "menu_erase_cache"
    /\ UNCHANGED <<bcb, cmdFile, build, args, status, textVisible, finishNext,
                   crashes, accepted, finished>>

\* erase_root("CACHE:") and ensure_common_roots_mounted; then
\* "if (!ui_text_visible()) return".
MenuEraseCache ==
    /\ pc = "menu_erase_cache"
    /\ cmdFile' \in {cmdFile, NoCommandFile}
    /\ IF textVisible
       THEN pc' = "menu" /\ UNCHANGED finishNext
       ELSE Leave
    /\ UNCHANGED <<bcb, build, args, status, textVisible,
                   crashes, accepted, finished>>

\* ITEM_APPLY_SDCARD: after "Yes", set_sdcard_update_bootloader_message
\* writes "boot-recovery" with no arguments, then the install starts.
MenuApplySdcard ==
    /\ pc = "menu" /\ textVisible
    /\ \/ UNCHANGED <<pc, bcb>>
       \/ /\ pc' = "menu_install"
          /\ bcb' = [command |-> "boot-recovery", args |-> {}]
    /\ UNCHANGED <<cmdFile, build, args, status, textVisible, finishNext,
                   crashes, accepted, finished>>

\* install_package; on success with the log hidden prompt_and_wait
\* returns, otherwise the menu is rebuilt.
MenuInstall ==
    /\ pc = "menu_install"
    /\ \E ok \in BOOLEAN :
         IF ok /\ ~textVisible
         THEN Leave
         ELSE pc' = "menu" /\ UNCHANGED finishNext
    /\ UNCHANGED <<bcb, cmdFile, build, args, status, textVisible,
                   crashes, accepted, finished>>

\* input_thread, Lite build: the display-toggle key combination flips the
\* text log from the input thread at any time.
ToggleText ==
    /\ build = "lite"
    /\ pc \notin {"main", "boot"}
    /\ textVisible' = ~textVisible
    /\ UNCHANGED <<bcb, cmdFile, pc, build, args, status, finishNext,
                   crashes, accepted, finished>>

-----------------------------------------------------------------------------

Controller ==
    \/ Start \/ DispatchUpdate \/ DispatchWipeData \/ DispatchWipeCache
    \/ DispatchNone \/ EraseCache \/ InstallFullPackage \/ PromptAndWait
    \/ FinishZeroBCB \/ FinishUnlink \/ Reboot \/ MenuEraseData
    \/ MenuEraseCache \/ MenuInstall

User ==
    \/ MenuReboot \/ MenuWipeData \/ MenuWipeCache \/ MenuApplySdcard
    \/ ToggleText \/ ManualRecovery

Next ==
    \/ Controller
    \/ User
    \/ \E d \in Ops : MainRequest(d)
    \/ Bootloader
    \/ Crash

\* The controller and the bootloader run without user input and are never
\* starved; the user, the main system and power loss are not fair.
Spec == Init /\ [][Next]_vars /\ WF_vars(Controller) /\ WF_vars(Bootloader)

-----------------------------------------------------------------------------
(* Properties.                                                             *)

\* Header of recovery.c, "must be safely restartable at any point": once
\* get_args has taken an operation, the main system does not run again
\* until finish_recovery has retired it, whatever power losses intervene.
NoLostOperation == pc = "main" => accepted = {}

\* After a power loss during an operation get_args took, the next get_args
\* resumes that same operation, even when the cache erase already removed
\* the command file (the BCB must outrank the command file).
ResumeAccepted ==
    [][Start /\ LITE /\ accepted # {} => Op(args') \in accepted]_vars

\* finish_recovery removes the command file "so recovery won't repeat": an
\* operation that has been finished is not carried out again unless the
\* main system asks for it again.
NoCommandReplay == pc = "dispatch" => Op(args) \notin finished

\* A normal reboot out of recovery boots the main system: when main calls
\* reboot, the BCB no longer says "boot-recovery".
RebootClearsBCB == pc = "reboot" => bcb.command = "none"

\* Every operation get_args takes is eventually retired by finish_recovery,
\* without waiting for the user.
AcceptedEventuallyFinished == \A o \in Ops : o \in accepted ~> o \notin accepted

=============================================================================
