------------------------------- MODULE Device -------------------------------
(***************************************************************************)
(* The device from one boot to the next: setup() and its routing, the      *)
(* silent restarts, enterDeepSleep() (src/src/main.cpp), the state it      *)
(* keeps on the card (CrossPointState, through PersistableStore) and in    *)
(* RTC memory, and what ReaderActivity adds to both. It EXTENDS            *)
(* FirmwareFlash: the bootloader picks the image first, and an update runs *)
(* on one of the screens.                                                  *)
(*                                                                         *)
(* A crash may come at any time, a loss of power too, and both in the      *)
(* middle of a write of the state file. The code blocks while it writes,   *)
(* so a step that saves sets dirty, and the device does nothing else until *)
(* Saved. The magic word in RTC memory is not met by chance after a loss   *)
(* of power; the word beside it may be anything.                           *)
(*                                                                         *)
(* Left out: settings and the other stores (loaded as they are), the sleep *)
(* image and frame, the splash (showBootScreen is never FALSE in this      *)
(* code), list position and tab of a return hint, and a write of the state *)
(* file that fails on a working card.                                      *)
(***************************************************************************)
EXTENDS FirmwareFlash, Sequences

CONSTANTS Books, None     \* None: no book, no file, nothing

ASSUME BooksAssumption == None \notin Books

VARIABLES
    flow,       \* where the device is between power-up and sleep
    cause,      \* why it boots; None once that is used
    card,       \* state.json: [path, fromReader, count]; None: missing or unreadable
    dirty,      \* what is being written to it
    rtc,        \* silentRebootMagic (matches or not) and silentRebootTarget
    boot,       \* what setup() read from it
    app,        \* APP_STATE
    stack,      \* the activities, the current one last
    hint,       \* g_silentReturnHint.target
    deepSleepInProgress,
    touch,      \* the board has a touch screen
    due,        \* history: the screen the user expects after this boot
    crashes     \* history: resets with a book on the screen since the user last did something

deviceVars == <<flow, cause, card, dirty, rtc, boot, app, stack, hint, deepSleepInProgress,
                touch, due, crashes>>
vars == <<deviceVars, flashVars>>

Flows == {"down", "asleep", "boot", "setup", "run", "commit", "exited"}
Causes == {"power", "usb", "button", "restart", "panic", "watchdog"}
Targets == {"home", "reader", "dashboard", "library"}
States == [path : Books \cup {None}, fromReader : BOOLEAN, count : 0..1]
Unread == [silent |-> FALSE, target |-> "home"]
Fresh == [path |-> None, fromReader |-> FALSE, count |-> 0]
ASSUME StatesAssumption == None \notin States

(* The activities that matter to a restart. menu: BookActionActivity; receive:
   Ao3ReceiveActivity; sync: AO3SyncActivity; kosync: KOReaderSyncActivity; transfer:
   the other network activities; usb: UsbDriveActivity; files: FileBrowserActivity;
   opening: a ReaderActivity before its onEnter(). *)
Names == {"home", "library", "dashboard", "menu", "files", "receive", "sync", "kosync",
          "transfer", "usb", "ota", "firmware", "crash", "message"}
Screens == [name : Names, book : {None}] \cup [name : {"reader", "opening", "kosync"}, book : Books]
Screen(n) == [name |-> n, book |-> None]
Reader(b) == [name |-> "reader", book |-> b]
Opening(b) == [name |-> "opening", book |-> b]

TypeOK ==
    /\ FlashTypeOK
    /\ flow \in Flows /\ cause \in Causes \cup {None}
    /\ card \in States \cup {None} /\ dirty \in States \cup {None}
    /\ rtc \in [magic : BOOLEAN, target : Targets] /\ boot \in [silent : BOOLEAN, target : Targets]
    /\ app \in States /\ stack \in Seq(Screens) /\ Len(stack) <= 3
    /\ hint \in Targets
    /\ deepSleepInProgress \in BOOLEAN /\ touch \in BOOLEAN
    /\ due \in Screens \cup {None} /\ crashes \in Nat

-----------------------------------------------------------------------------
(* Helpers. *)

Top == stack[Len(stack)]
IsOn(n) == \E i \in 1..Len(stack) : stack[i].name = n
isReaderActivity == IsOn("reader")

(* APP_STATE.saveToFile(); without a card nothing is written. *)
Save(s) == dirty' = IF IsOn("message") THEN None ELSE s

(* loop() runs, and nothing blocks it. *)
Awake == flow = "run" /\ dirty = None /\ stage \in {"idle", "prompt", "failed"}
Ready(names) == Awake /\ Top.name \in names

(* The user did something: what setup() did is over. *)
UserActs == due' = None /\ crashes' = 0

(* RAM is lost; a file that is being written may be what it was, empty, or written. *)
LoseRam ==
    /\ card' \in (IF dirty = None THEN {card} ELSE {card, None, dirty})
    /\ dirty' = None /\ app' = Fresh /\ stack' = <<>> /\ hint' = "home"
    /\ boot' = Unread
    /\ deepSleepInProgress' = FALSE
    /\ UNCHANGED touch

ResetChip == IF stage = "off" THEN UNCHANGED flashVars ELSE FlashReset

-----------------------------------------------------------------------------
(* Restarts by the code. *)

(* The words of silentRestart(), silentRestartToReader() and silentRestartToHint(). *)
Target(n) ==
    CASE n = "receive" -> IF hint \in {"dashboard", "library"} THEN hint ELSE "home"
      [] n = "kosync" -> "reader"
      [] OTHER -> "home"

(* What the user left: the list under the book's menu, the book, or nothing. *)
Expected(target) ==
    CASE target = "reader" -> Reader(IF Top.name = "kosync" THEN Top.book ELSE stack[1].book)
      [] Top.name = "receive" /\ IsOn("library") -> Screen("library")
      [] Top.name = "receive" /\ IsOn("dashboard") -> Screen("dashboard")
      [] OTHER -> Screen("home")

(* Sleeping supersedes a restart; a board with a touch screen stops WiFi instead. *)
RestartsAlways == ~touch     \* a mutant of Restarts
Restarts == ~deepSleepInProgress /\ ~touch

SilentRestart(target) ==
    /\ rtc' = [magic |-> TRUE, target |-> target]
    /\ flow' = "boot" /\ cause' = "restart"
    /\ LoseRam /\ ResetChip
    /\ due' = Expected(target) /\ crashes' = 0

-----------------------------------------------------------------------------
(* Navigation. *)

(* onExit() of the network activities, if WiFi is still up. *)
Nets == {"receive", "kosync", "transfer", "ota"}
LeavesNet == Top.name \in Nets /\ Restarts /\ SilentRestart(Target(Top.name))

(* ReaderActivity::onExit() *)
ReaderExitsGuarded == app     \* a mutant of ReaderExits
ReaderExits == [app EXCEPT !.count = 0]

(* The rest of leaving all activities for another: the lists drop the hint, a reader
   lowers the guard and saves. An update that waits for an answer is given up. *)
Replaces(new) ==
    /\ stack' = <<new>>
    /\ hint' = IF IsOn("library") \/ IsOn("dashboard") THEN "home" ELSE hint
    /\ IF isReaderActivity THEN app' = ReaderExits /\ Save(ReaderExits)
                           ELSE UNCHANGED <<app, dirty>>
    /\ IF stage \in {"prompt", "failed"} THEN Decline ELSE UNCHANGED flashVars
    /\ UserActs
    /\ UNCHANGED <<flow, cause, card, rtc, boot, deepSleepInProgress, touch>>

Leave(new) == LeavesNet \/ Replaces(new)

GoHome == Ready({"library", "dashboard", "menu", "files", "receive", "kosync", "transfer", "ota",
                 "reader", "crash", "firmware", "sync"})
          /\ (Top.name = "firmware" => Len(stack) > 1)      \* no way out of recovery
          /\ Leave(Screen("home"))
Browse == Ready({"home"}) /\ \E n \in {"library", "dashboard", "transfer", "usb"} : Leave(Screen(n))
OpenBook(b) == Ready({"home", "library", "dashboard", "files"}) /\ Leave(Opening(b))

(* The power button bound to receiving, outside the reader; openKOReaderSync(); back to
   the book from there. *)
ReceiveShortcut ==
    /\ Ready(Names \ {"usb", "sync"}) /\ ~isReaderActivity /\ Leave(Screen("receive"))
StartKOSync == Ready({"reader"}) /\ Leave([name |-> "kosync", book |-> Top.book])
ReturnToReader == Ready({"kosync"}) /\ Leave(Opening(Top.book))

(* A child on top; the hint is set before the book's menu is shown. *)
Push ==
    /\ Awake /\ Len(stack) < 3
    /\ \E n \in Names :
        /\ n \in (CASE Top.name \in {"library", "dashboard"} -> {"menu"}
                    [] Top.name = "menu" -> {"receive"}
                    [] Top.name = "reader" -> {"receive", "sync"}
                    [] Top.name = "home" -> {"ota", "firmware", "transfer"}
                    [] OTHER -> {})
        /\ stack' = Append(stack, Screen(n))
        /\ hint' = IF n = "menu" THEN Top.name ELSE hint
    /\ UserActs
    /\ UNCHANGED <<flow, cause, card, dirty, rtc, boot, app, deepSleepInProgress, touch, flashVars>>

(* A child finishes: its onExit(), then the parent's handler, which drops the hint. *)
Pop ==
    /\ Ready({"menu", "receive", "sync", "transfer", "ota", "firmware"}) /\ Len(stack) > 1
    /\ \/ LeavesNet
       \/ /\ stack' = SubSeq(stack, 1, Len(stack) - 1)
          /\ hint' = IF Top.name = "menu" THEN "home" ELSE hint
          /\ IF stage \in {"prompt", "failed"} THEN Decline ELSE UNCHANGED flashVars
          /\ UserActs
          /\ UNCHANGED <<flow, cause, card, dirty, rtc, boot, app, deepSleepInProgress, touch>>

(* AO3SyncActivity restarts by itself, over the reader that started it; UsbDriveActivity
   when the host is gone, touch screen or not. *)
SyncEnds == Ready({"sync"}) /\ Restarts /\ \E t \in {"home", "reader"} : SilentRestart(t)
UsbEnds == Ready({"usb"}) /\ ~deepSleepInProgress /\ SilentRestart("home")

(* ReaderActivity::onEnter(): the book is there and loads, or it finishes at once. *)
OpenSucceeds ==
    /\ Ready({"opening"})
    /\ app' = [app EXCEPT !.path = Top.book] /\ Save(app')
    /\ stack' = <<Reader(Top.book)>>
    /\ UNCHANGED <<flow, cause, card, rtc, boot, hint, deepSleepInProgress, touch, due, crashes, flashVars>>

OpenFails ==
    /\ Ready({"opening"})
    /\ app' = ReaderExits /\ Save(app')
    /\ stack' = <<Screen("home")>> /\ due' = None
    /\ UNCHANGED <<flow, cause, card, rtc, boot, hint, deepSleepInProgress, touch, crashes, flashVars>>

Saved ==
    /\ dirty # None
    /\ card' = dirty /\ dirty' = None
    /\ UNCHANGED <<flow, cause, rtc, boot, app, stack, hint, deepSleepInProgress, touch, due, crashes, flashVars>>

-----------------------------------------------------------------------------
(* An update of the firmware, and the plain restart after it. *)

UpdateFirmware ==
    /\ flow = "run" /\ dirty = None
    /\ Top.name \in {"firmware", "ota"}
    /\ Update
    /\ stage' \in {"prompt", "copy"} => Top.name = "firmware"
    /\ stage' = "stream" => Top.name = "ota"
    /\ UserActs
    /\ UNCHANGED <<flow, cause, card, dirty, rtc, boot, app, stack, hint, deepSleepInProgress, touch>>

PlainRestart ==
    /\ flow' = "boot" /\ cause' = "restart"
    /\ LoseRam /\ FlashReset
    /\ due' = None /\ crashes' = 0
    /\ UNCHANGED rtc

UpdateRestarts == flow = "run" /\ dirty = None /\ stage = "done" /\ PlainRestart

-----------------------------------------------------------------------------
(* enterDeepSleep(): save where the user is, commit, let the activities exit, sleep.
   OtaUpdateActivity does not hold off the sleep timer once its update is done. *)

SleepBegins ==
    /\ flow = "run" /\ dirty = None
    /\ Top.name \notin {"opening", "usb"}
    /\ \/ stage \in {"idle", "prompt", "failed"}
       \/ stage = "done" /\ Top.name = "ota"
    /\ app' = [app EXCEPT !.fromReader = isReaderActivity] /\ Save(app')
    /\ flow' = "commit" /\ deepSleepInProgress' = TRUE
    /\ UserActs
    /\ UNCHANGED <<cause, card, rtc, boot, stack, hint, touch, flashVars>>

(* goToSleep(): every activity exits. *)
SleepExits ==
    /\ flow = "commit" /\ dirty = None /\ stage # "done"
    /\ IF Top.name \in Nets /\ Restarts
       THEN SilentRestart(Target(Top.name))
       ELSE /\ app' = IF isReaderActivity THEN ReaderExits ELSE app
            /\ IF isReaderActivity THEN Save(app') ELSE UNCHANGED dirty
            /\ due' = CASE isReaderActivity -> Reader(stack[1].book)
                        [] IsOn("message") -> None
                        [] OTHER -> Screen("home")
            /\ flow' = "exited"
            /\ UNCHANGED <<cause, card, rtc, boot, stack, hint, deepSleepInProgress, touch, crashes,
                           flashVars>>

(* A home gesture in that same loop(): nobody exits. *)
SleepPreempted ==
    /\ flow = "commit" /\ dirty = None /\ stage # "done"
    /\ flow' = "exited"
    /\ UNCHANGED <<cause, card, dirty, rtc, boot, app, stack, hint, deepSleepInProgress, touch, due,
                   crashes, flashVars>>

(* The loop() of an OTA update that is done restarts first. *)
SleepOvertaken == flow = "commit" /\ dirty = None /\ stage = "done" /\ PlainRestart

StartDeepSleep ==
    /\ flow = "exited" /\ dirty = None
    /\ flow' = "asleep" /\ LoseRam /\ ResetChip
    /\ UNCHANGED <<cause, rtc, due, crashes>>

-----------------------------------------------------------------------------
(* Waking, crashing, losing power. *)

WakeUp ==
    /\ flow \in {"down", "asleep"}
    /\ flow' = "boot"
    /\ cause' \in (IF flow = "asleep" THEN {"button"} ELSE {"power", "usb"})
    /\ UNCHANGED <<card, dirty, rtc, boot, app, stack, hint, deepSleepInProgress, touch, due, crashes,
                   flashVars>>

(* Whether it happens to a book that is being opened, or was opened and not touched yet. *)
Crashed ==
    IF flow = "run" /\ (Top.name = "reader" \/ (Top.name = "opening" /\ dirty = None)) THEN 1 ELSE 0

(* An exception or a watchdog, with the app running. *)
Crash ==
    /\ flow \notin {"down", "asleep"} /\ stage # "off"
    /\ flow' = "boot" /\ cause' \in {"panic", "watchdog"}
    /\ LoseRam /\ FlashReset
    /\ due' = IF flow = "boot" THEN due ELSE None
    /\ crashes' = crashes + Crashed
    /\ UNCHANGED rtc

(* Asleep, the device has nothing to lose but what is in RTC memory. *)
PowerLoss ==
    /\ flow # "down" /\ flow' = "down"
    /\ \E t \in Targets : rtc' = [magic |-> FALSE, target |-> t]
    /\ LoseRam /\ ResetChip
    /\ due' = IF flow = "asleep" THEN due ELSE None
    /\ cause' = None /\ crashes' = crashes + Crashed

-----------------------------------------------------------------------------
(* Booting: the bootloader, the start of the app, setup(). *)

StartUp ==
    /\ flow = "boot" /\ (Bootloader \/ AppStarts)
    /\ UNCHANGED deviceVars

(* The retained words are read and cleared before anything can go wrong. *)
SetupBegins ==
    /\ flow = "boot" /\ stage = "idle" /\ flow' = "setup"
    /\ boot' = [silent |-> rtc.magic, target |-> IF rtc.magic THEN rtc.target ELSE "home"]
    /\ rtc' = [magic |-> FALSE, target |-> "home"]
    /\ UNCHANGED <<cause, card, dirty, app, stack, hint, deepSleepInProgress, touch, due, crashes, flashVars>>

PowerButton == cause \in {"power", "button"}
Loaded == IF card = None THEN Fresh ELSE card

(* Storage.begin() fails: a message, and nothing is loaded. *)
NoCard ==
    /\ flow = "setup" /\ flow' = "run"
    /\ stack' = <<Screen("message")>> /\ due' = None
    /\ cause' = None /\ boot' = Unread
    /\ UNCHANGED <<card, dirty, rtc, app, hint, deepSleepInProgress, touch, crashes, flashVars>>

(* The power button was not held, or the cable of most boards: back to sleep. *)
BackToSleep ==
    /\ flow = "setup" /\ cause \in {"power", "button", "usb"}
    /\ flow' = "asleep" /\ cause' = None /\ LoseRam /\ ResetChip
    /\ UNCHANGED <<rtc, due, crashes>>

Route(new, opened, expected) ==
    /\ flow = "setup" /\ flow' = "run"
    /\ stack' = <<new>>
    /\ due' = expected
    /\ app' = opened
    /\ cause' = None /\ boot' = Unread
    /\ UNCHANGED <<card, rtc, hint, crashes, deepSleepInProgress, touch, flashVars>>

(* Up (or Down) held with the power button. *)
RouteRecovery == PowerButton /\ Route(Screen("firmware"), Loaded, None) /\ UNCHANGED dirty
RouteCrash == cause = "panic" /\ Route(Screen("crash"), Loaded, None) /\ UNCHANGED dirty

SilentScreen ==
    CASE boot.target = "reader" /\ Loaded.path # None -> Opening(Loaded.path)
      [] boot.target \in {"dashboard", "library"} -> Screen(boot.target)
      [] OTHER -> Screen("home")
RouteSilent ==
    /\ cause # "panic" /\ boot.silent
    /\ Route(SilentScreen, Loaded, due) /\ UNCHANGED dirty

(* The book of the last sleep, unless it was not left from the reader, or the guard is
   still up from an opening that did not end well. *)
ResumesAlways == Loaded.path # None /\ Loaded.fromReader     \* a mutant of Resumes
Resumes == Loaded.path # None /\ Loaded.fromReader /\ Loaded.count = 0

RouteHome ==
    /\ cause # "panic" /\ ~boot.silent /\ ~Resumes
    /\ Route(Screen("home"), Loaded, due) /\ UNCHANGED dirty
RouteBack ==        \* Back is held
    /\ cause # "panic" /\ ~boot.silent /\ Resumes
    /\ Route(Screen("home"), Loaded, None) /\ UNCHANGED dirty

(* The guard is raised and saved before the book is opened. *)
GuardedByPath == [Loaded EXCEPT !.path = None]     \* a mutant of Guarded
Guarded == [Loaded EXCEPT !.path = None, !.count = @ + 1]
RouteReader ==
    /\ cause # "panic" /\ ~boot.silent /\ Resumes
    /\ Route(Opening(Loaded.path), Guarded, due)
    /\ dirty' = Guarded

-----------------------------------------------------------------------------

Init ==
    /\ FlashInit
    /\ flow = "down" /\ cause = None
    /\ card = None /\ dirty = None
    /\ rtc = [magic |-> FALSE, target |-> "home"] /\ boot = Unread
    /\ app = Fresh /\ stack = <<>> /\ hint = "home"
    /\ deepSleepInProgress = FALSE /\ touch \in BOOLEAN
    /\ due = None /\ crashes = 0

Next ==
    \/ StartUp \/ SetupBegins \/ NoCard \/ BackToSleep
    \/ RouteRecovery \/ RouteCrash \/ RouteSilent \/ RouteHome \/ RouteBack \/ RouteReader
    \/ GoHome \/ Browse \/ ReceiveShortcut \/ StartKOSync \/ ReturnToReader
    \/ \E b \in Books : OpenBook(b)
    \/ Push \/ Pop \/ SyncEnds \/ UsbEnds
    \/ OpenSucceeds \/ OpenFails \/ Saved
    \/ UpdateFirmware \/ UpdateRestarts
    \/ SleepBegins \/ SleepExits \/ SleepPreempted \/ SleepOvertaken \/ StartDeepSleep
    \/ WakeUp \/ Crash \/ PowerLoss

Spec == Init /\ [][Next]_vars

-----------------------------------------------------------------------------
(* What must never go wrong. *)

(* A restart ends on the screen it was asked for, and waking from sleep on the book the
   user fell asleep over, or on home. Excepted are a crash, a loss of power before the
   device slept, a key held at boot, a missing card and a book that does not load. *)
LandsWhereDue ==
    flow = "run" /\ due # None =>
        \/ Top = due
        \/ due.book # None /\ Top = Opening(due.book)

(* A book that crashes the device, or hangs it, does so at most twice before the device
   comes up on another screen: as the user or a restart opens it, and from the saved
   state. *)
NoBootLoop == crashes <= 2

(* A device that is going to sleep is not started again by the code, except to run the
   firmware it has just installed. *)
SleepWins ==
    [][(flow \in {"commit", "exited"} /\ flow' = "boot") =>
            cause' \in {"panic", "watchdog"} \/ stage = "done"]_vars

=============================================================================
