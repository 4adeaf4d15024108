---------------------------- MODULE DeviceProofs ----------------------------
(***************************************************************************)
(* Proofs about Device, for any books, images and blocks. Every behaviour  *)
(* of the device is one of FirmwareFlash, so what FirmwareFlashProofs      *)
(* shows of the update holds of the whole device, whatever the activities, *)
(* the sleep and the crashes around it do.                                 *)
(***************************************************************************)
EXTENDS Device, FirmwareFlashProofs

-----------------------------------------------------------------------------
(* The device as the update sees it. *)

LEMMA ReplacesFlash == ASSUME NEW new, Replaces(new) PROVE [FlashNext]_flashVars
BY Zenon DEF Replaces, FlashNext, Update

LEMMA SilentRestartFlash == ASSUME NEW target, SilentRestart(target) PROVE [FlashNext]_flashVars
BY Zenon DEF SilentRestart, ResetChip, FlashNext

LEMMA LeavesNetFlash == ASSUME LeavesNet PROVE [FlashNext]_flashVars
BY SilentRestartFlash, Zenon DEF LeavesNet

LEMMA LeaveFlash == ASSUME NEW new, Leave(new) PROVE [FlashNext]_flashVars
BY ReplacesFlash, LeavesNetFlash, Zenon DEF Leave

LEMMA PlainRestartFlash == ASSUME PlainRestart PROVE [FlashNext]_flashVars
BY Zenon DEF PlainRestart, FlashNext

LEMMA RouteFlash == ASSUME NEW new, NEW opened, NEW expected, Route(new, opened, expected)
                    PROVE  [FlashNext]_flashVars
BY Zenon DEF Route

(* Every step of the device is a step of the update, or leaves the flash alone. *)
LEMMA NextFlash == [Next]_vars => [FlashNext]_flashVars
<1> SUFFICES ASSUME [Next]_vars PROVE [FlashNext]_flashVars
  OBVIOUS
<1>1. CASE StartUp
  BY <1>1, Zenon DEF StartUp, FlashNext
<1>2. CASE SetupBegins \/ NoCard
  BY <1>2, Zenon DEF SetupBegins, NoCard
<1>3. CASE BackToSleep \/ StartDeepSleep \/ PowerLoss
  BY <1>3, Zenon DEF BackToSleep, StartDeepSleep, PowerLoss, ResetChip, FlashNext
<1>4. CASE RouteRecovery \/ RouteCrash \/ RouteSilent \/ RouteHome \/ RouteBack \/ RouteReader
  BY <1>4, RouteFlash, Zenon DEF RouteRecovery, RouteCrash, RouteSilent, RouteHome, RouteBack,
      RouteReader
<1>5. CASE GoHome \/ Browse \/ ReceiveShortcut \/ StartKOSync \/ ReturnToReader
  BY <1>5, LeaveFlash, Zenon DEF GoHome, Browse, ReceiveShortcut, StartKOSync, ReturnToReader
<1>6. CASE \E b \in Books : OpenBook(b)
  BY <1>6, LeaveFlash, Zenon DEF OpenBook
<1>7. CASE Push
  BY <1>7, Zenon DEF Push
<1>8. CASE Pop
  BY <1>8, LeavesNetFlash, Zenon DEF Pop, FlashNext, Update
<1>9. CASE SyncEnds \/ UsbEnds
  BY <1>9, SilentRestartFlash, Zenon DEF SyncEnds, UsbEnds
<1>10. CASE OpenSucceeds \/ OpenFails \/ Saved
  BY <1>10, Zenon DEF OpenSucceeds, OpenFails, Saved
<1>11. CASE UpdateFirmware
  BY <1>11, Zenon DEF UpdateFirmware, FlashNext
<1>12. CASE UpdateRestarts \/ SleepOvertaken
  BY <1>12, PlainRestartFlash, Zenon DEF UpdateRestarts, SleepOvertaken
<1>13. CASE SleepBegins \/ SleepPreempted \/ WakeUp
  BY <1>13, Zenon DEF SleepBegins, SleepPreempted, WakeUp
<1>14. CASE SleepExits
  BY <1>14, SilentRestartFlash, Zenon DEF SleepExits
<1>15. CASE Crash
  BY <1>15, Zenon DEF Crash, FlashNext
<1>16. CASE UNCHANGED vars
  BY <1>16, Zenon DEF vars
<1> QED
  BY <1>1, <1>2, <1>3, <1>4, <1>5, <1>6, <1>7, <1>8, <1>9, <1>10, <1>11, <1>12, <1>13,
     <1>14, <1>15, <1>16, Zenon DEF Next

(* The device behaves as FirmwareFlash says. *)
THEOREM DeviceFlashes == Spec => FlashSpec
<1>1. Init => FlashInit
  BY DEF Init
<1> QED
  BY <1>1, NextFlash, PTL DEF Spec, FlashSpec

(* However the device is used, otadata always selects a whole image. *)
THEOREM DeviceAlwaysBoots == Spec => []SelectedBoots
BY DeviceFlashes, AlwaysBoots, PTL

(* However the device is used, an update that reports success starts next. *)
THEOREM DeviceSwitchSafe == Spec => []SwitchTakes
BY DeviceFlashes, SwitchSafe, PTL

(* However the device is used, an image on trial has a whole one to fall back on. *)
THEOREM DeviceFallbackSafe == Spec => []FallbackBoots
BY DeviceFlashes, FallbackSafe, PTL

-----------------------------------------------------------------------------
(* Going to sleep. *)

(* From the commit to the deep sleep the latch is set. *)
Latched == flow \in {"commit", "exited"} => deepSleepInProgress = TRUE

LEMMA RunSteps ==
    ASSUME \/ GoHome \/ Browse \/ ReceiveShortcut \/ StartKOSync \/ ReturnToReader
           \/ \E b \in Books : OpenBook(b)
           \/ Push \/ Pop \/ SyncEnds \/ UsbEnds
           \/ OpenSucceeds \/ OpenFails \/ UpdateFirmware \/ UpdateRestarts \/ SleepBegins
    PROVE  flow = "run"
BY Zenon DEF GoHome, Browse, ReceiveShortcut, StartKOSync, ReturnToReader, OpenBook, Push, Pop,
    SyncEnds, UsbEnds, OpenSucceeds, OpenFails, UpdateFirmware, UpdateRestarts, SleepBegins,
    Ready, Awake

LEMMA LeaveFlow == ASSUME NEW new, Leave(new) PROVE flow' \in {flow, "boot"}
BY DEF Leave, LeavesNet, SilentRestart, Replaces

LEMMA LatchedStep == Latched /\ [Next]_vars => Latched'
<1> SUFFICES ASSUME Latched, [Next]_vars PROVE Latched'
  OBVIOUS
<1>1. CASE StartUp \/ Saved
  BY <1>1 DEF StartUp, Saved, deviceVars, Latched
<1>2. CASE SetupBegins \/ NoCard \/ BackToSleep
  BY <1>2 DEF SetupBegins, NoCard, BackToSleep, Latched
<1>3. CASE RouteRecovery \/ RouteCrash \/ RouteSilent \/ RouteHome \/ RouteBack \/ RouteReader
  <2>1. flow' = "run"
    BY <1>3, Zenon DEF RouteRecovery, RouteCrash, RouteSilent, RouteHome, RouteBack, RouteReader,
        Route
  <2> QED
    BY <2>1 DEF Latched
<1>4. CASE \/ GoHome \/ Browse \/ ReceiveShortcut \/ StartKOSync \/ ReturnToReader
           \/ \E b \in Books : OpenBook(b)
  <2>1. flow = "run"
    BY <1>4, RunSteps
  <2>2. flow' \in {flow, "boot"}
    BY <1>4, LeaveFlow, Zenon DEF GoHome, Browse, ReceiveShortcut, StartKOSync, ReturnToReader,
        OpenBook
  <2> QED
    BY <2>1, <2>2 DEF Latched
<1>5. CASE Push \/ Pop \/ SyncEnds \/ UsbEnds
  <2>1. flow = "run"
    BY <1>5, RunSteps
  <2>2. flow' \in {flow, "boot"}
    BY <1>5 DEF Push, Pop, LeavesNet, SyncEnds, UsbEnds, SilentRestart
  <2> QED
    BY <2>1, <2>2 DEF Latched
<1>6. CASE OpenSucceeds \/ OpenFails \/ UpdateFirmware \/ UpdateRestarts
  <2>1. flow = "run"
    BY <1>6, RunSteps
  <2>2. flow' \in {flow, "boot"}
    BY <1>6, Zenon DEF OpenSucceeds, OpenFails, UpdateFirmware, UpdateRestarts, PlainRestart
  <2> QED
    BY <2>1, <2>2 DEF Latched
<1>7. CASE SleepBegins
  BY <1>7 DEF SleepBegins, Latched
<1>8. CASE SleepExits
  <2>1. flow' = "boot" \/ UNCHANGED deepSleepInProgress
    BY <1>8, Zenon DEF SleepExits, SilentRestart
  <2>2. flow = "commit"
    BY <1>8, Zenon DEF SleepExits
  <2> QED
    BY <2>1, <2>2 DEF Latched
<1>9. CASE SleepPreempted
  BY <1>9 DEF SleepPreempted, Latched
<1>10. CASE SleepOvertaken \/ StartDeepSleep \/ WakeUp \/ Crash \/ PowerLoss
  <2>1. flow' \in {"boot", "asleep", "down"}
    BY <1>10, Zenon DEF SleepOvertaken, PlainRestart, StartDeepSleep, WakeUp, Crash, PowerLoss
  <2> QED
    BY <2>1 DEF Latched
<1>11. CASE UNCHANGED vars
  BY <1>11 DEF vars, deviceVars, Latched
<1> QED
  BY <1>1, <1>2, <1>3, <1>4, <1>5, <1>6, <1>7, <1>8, <1>9, <1>10, <1>11, Zenon DEF Next

(* With the latch set no activity that exits starts the device again: only a crash does, or
   the OTA update that is done. *)
LEMMA SleepWinsStep ==
    ASSUME Latched, [Next]_vars, flow \in {"commit", "exited"}, flow' = "boot"
    PROVE  cause' \in {"panic", "watchdog"} \/ stage = "done"
<1>1. CASE StartUp \/ Saved \/ SetupBegins \/ NoCard \/ BackToSleep
  BY <1>1 DEF StartUp, Saved, deviceVars, SetupBegins, NoCard, BackToSleep
<1>2. CASE RouteRecovery \/ RouteCrash \/ RouteSilent \/ RouteHome \/ RouteBack \/ RouteReader
  BY <1>2 DEF RouteRecovery, RouteCrash, RouteSilent, RouteHome, RouteBack, RouteReader, Route
<1>3. CASE \/ GoHome \/ Browse \/ ReceiveShortcut \/ StartKOSync \/ ReturnToReader
           \/ \E b \in Books : OpenBook(b)
           \/ Push \/ Pop \/ SyncEnds \/ UsbEnds
           \/ OpenSucceeds \/ OpenFails \/ UpdateFirmware \/ UpdateRestarts \/ SleepBegins
  BY <1>3, RunSteps
<1>4. CASE SleepExits
  <2>1. ~Restarts
    BY DEF Latched, Restarts
  <2>2. flow' = "exited"
    BY <1>4, <2>1, Zenon DEF SleepExits
  <2> QED
    BY <2>2
<1>5. CASE SleepOvertaken
  BY <1>5 DEF SleepOvertaken
<1>6. CASE SleepPreempted \/ StartDeepSleep \/ WakeUp \/ PowerLoss
  BY <1>6 DEF SleepPreempted, StartDeepSleep, WakeUp, PowerLoss
<1>7. CASE Crash
  BY <1>7 DEF Crash
<1>8. CASE UNCHANGED vars
  BY <1>8 DEF vars, deviceVars
<1> QED
  BY <1>1, <1>2, <1>3, <1>4, <1>5, <1>6, <1>7, <1>8, Zenon DEF Next

(* A device that is going to sleep is not started again by the code, but for a firmware that
   has just been installed. *)
THEOREM SleepSafe == Spec => SleepWins
<1>1. Init => Latched
  BY DEF Init, Latched
<1>2. Latched /\ [Next]_vars =>
        [(flow \in {"commit", "exited"} /\ flow' = "boot") =>
            cause' \in {"panic", "watchdog"} \/ stage = "done"]_vars
  BY SleepWinsStep
<1> QED
  BY <1>1, <1>2, LatchedStep, PTL DEF Spec, SleepWins

-----------------------------------------------------------------------------
(* The types of what Device adds to the flash. *)

DeviceTypes ==
    /\ flow \in Flows /\ cause \in Causes \cup {None}
    /\ card \in States \cup {None} /\ dirty \in States \cup {None}
    /\ rtc \in [magic : BOOLEAN, target : Targets] /\ boot \in [silent : BOOLEAN, target : Targets]
    /\ app \in States /\ stack \in Seq(Screens) /\ Len(stack) <= 3
    /\ hint \in Targets
    /\ deepSleepInProgress \in BOOLEAN /\ touch \in BOOLEAN
    /\ due \in Screens \cup {None} /\ crashes \in Nat

LEMMA TypesSplit == TypeOK <=> FlashTypeOK /\ DeviceTypes
BY Zenon DEF TypeOK, DeviceTypes

LEMMA FreshType == Fresh \in States
BY DEF Fresh, States

LEMMA ScreenTypes ==
    /\ \A n \in Names : Screen(n) \in Screens
    /\ \A b \in Books : /\ Reader(b) \in Screens /\ Opening(b) \in Screens
                        /\ [name |-> "kosync", book |-> b] \in Screens
BY DEF Screen, Reader, Opening, Screens

(* What is on the stack has a book exactly when it shows one. *)
LEMMA ScreenBooks ==
    ASSUME NEW s \in Screens
    PROVE  /\ s.name \in {"reader", "opening"} => s.book \in Books
           /\ s.name \notin {"reader", "opening", "kosync"} => s.book = None /\ s.name \in Names
           /\ s.book \in Books \cup {None} /\ s.name \in Names \cup {"reader", "opening"}
BY DEF Screens, Names

LEMMA SingleScreen == ASSUME NEW s \in Screens
             PROVE  <<s>> \in Seq(Screens) /\ Len(<<s>>) = 1 /\ <<s>>[1] = s
OBVIOUS

LEMMA EndsOfStack ==
    ASSUME NEW s \in Seq(Screens), s # <<>>
    PROVE  Len(s) \in Nat /\ Len(s) > 0 /\ s[Len(s)] \in Screens /\ s[1] \in Screens
OBVIOUS

LEMMA LoseRamTypes ==
    ASSUME DeviceTypes, LoseRam
    PROVE  /\ card' \in States \cup {None} /\ dirty' = None /\ app' = Fresh /\ app' \in States
           /\ stack' = <<>> /\ stack' \in Seq(Screens) /\ Len(stack') <= 3
           /\ hint' = "home" /\ hint' \in Targets /\ boot' = Unread
           /\ boot' \in [silent : BOOLEAN, target : Targets]
           /\ deepSleepInProgress' = FALSE /\ touch' \in BOOLEAN
<1>1. card' \in States \cup {None}
  BY DEF DeviceTypes, LoseRam
<1>2. Unread \in [silent : BOOLEAN, target : Targets]
  BY DEF Unread, Targets
<1>3. "home" \in Targets
  BY DEF Targets
<1>4. <<>> \in Seq(Screens) /\ Len(<<>>) <= 3
  OBVIOUS
<1> QED
  BY <1>1, <1>2, <1>3, <1>4, FreshType DEF DeviceTypes, LoseRam
-----------------------------------------------------------------------------
(* The inductive invariant behind TypeOK, LandsWhereDue and NoBootLoop. *)

(* The loop runs, or the device is on its way to sleep: there are activities. *)
Running == {"run", "commit", "exited"}
Lists == {"library", "dashboard"}
Children == {"menu", "receive", "sync", "ota", "firmware", "transfer"}
Bottom == stack[1].name

(* What stands on what, and the hint of the list a book's menu stands on. *)
StackShape ==
    /\ flow \in Running <=> stack # <<>>
    /\ \A i \in 2..Len(stack) :
        /\ stack[i].name \in Children
        /\ stack[i].name = "sync" => Bottom = "reader"
        /\ stack[i].name = "menu" <=> i = 2 /\ Bottom \in Lists
    /\ stack # <<>> => Bottom # "sync" /\ (Bottom = "kosync" => stack[1].book \in Books)
    /\ hint = IF Len(stack) > 1 /\ Bottom \in Lists THEN Bottom ELSE "home"

(* What is being written is what the app remembers; the book that is shown, or
   synchronised, is remembered and saved, and so is everything before the sleep. *)
StateKept ==
    /\ flow \notin Running => dirty = None
    /\ dirty # None => dirty = app
    /\ flow \in Running /\ Bottom \in {"reader", "kosync"} =>
          /\ app.path = stack[1].book
          /\ dirty = None => card = app
    /\ flow = "commit" =>
          /\ app.fromReader = (Bottom = "reader")
          /\ dirty = None /\ Bottom # "message" => card = app

(* The words in RTC memory are consumed once, after a restart of the code's own. *)
BootRecord ==
    /\ flow # "boot" => rtc.magic = FALSE
    /\ flow # "setup" => boot.silent = FALSE
    /\ rtc.magic = TRUE \/ boot.silent = TRUE =>
          crashes = 0 /\ cause \notin {"power", "usb", "button"}

(* setup() would open a book from this state. *)
Resuming(c) == c # None /\ c.path # None /\ c.fromReader = TRUE /\ c.count = 0

(* After one crash the book was opened with the guard up, and the guard is on the card
   by the time the book can crash the device again. *)
CrashBound ==
    /\ crashes <= 2
    /\ crashes = 2 => ~Resuming(card) /\ ~Resuming(dirty)
    /\ flow = "run" /\ Top.name \in {"reader", "opening"} /\ crashes > 0 =>
          /\ crashes = 1 /\ app.count = 1 /\ ~Resuming(dirty)
          /\ Top.name = "opening" => app.path = None
          /\ Top.name = "reader" \/ dirty = None => ~Resuming(card)
    /\ flow \in {"commit", "exited"} => crashes = 0

(* From card c setup() goes to the screen that is due. *)
LeadsTo(c, silent, target) ==
    /\ silent = TRUE /\ target = "reader" => c # None /\ c.path # None /\ due = Reader(c.path)
    /\ silent = TRUE /\ target # "reader" => due = Screen(target)
    /\ silent = FALSE /\ Resuming(c) => due = Reader(c.path)
    /\ silent = FALSE /\ ~Resuming(c) => due = Screen("home")

DueKept ==
    due # None =>
        /\ flow = "run" => \/ Top = due /\ Top.name # "opening"
                           \/ due.book # None /\ due = Reader(due.book) /\ Top = Opening(due.book)
        /\ flow # "commit"
        /\ flow = "exited" => LeadsTo(IF dirty = None THEN card ELSE dirty, FALSE, "home")
        /\ flow = "boot" => LeadsTo(card, rtc.magic, rtc.target)
        /\ flow = "setup" => LeadsTo(card, boot.silent, boot.target)
        /\ flow \in {"asleep", "down"} => LeadsTo(card, FALSE, "home")

DeviceIInv == DeviceTypes /\ StackShape /\ StateKept /\ BootRecord /\ CrashBound /\ DueKept

-----------------------------------------------------------------------------
(* The stack. *)

LEMMA Positive == \A n \in Nat : n > 0 => n = 1 \/ (n > 1 /\ n \in 2..n)
OBVIOUS

LEMMA OneMore ==
    \A n \in Nat : n > 0 => \A i \in 2..(n + 1) : i \in 2..n \/ (i = n + 1 /\ (i = 2 <=> n = 1))
OBVIOUS

LEMMA OnStack ==
    ASSUME DeviceTypes, StackShape, stack # <<>>
    PROVE  /\ \A n : n \notin Children => (IsOn(n) <=> Bottom = n)
           /\ isReaderActivity <=> Bottom = "reader"
           /\ Len(stack) \in Nat /\ Len(stack) > 0 /\ Len(stack) <= 3
           /\ stack[1] \in Screens /\ Top \in Screens
           /\ Top.name \in Children \/ Len(stack) = 1
<1>1. Len(stack) \in Nat /\ Len(stack) > 0 /\ stack[1] \in Screens /\ Top \in Screens
  <2>1. stack \in Seq(Screens)
    BY DEF DeviceTypes
  <2> QED
    BY <2>1, EndsOfStack, Zenon DEF Top
<1>2. \A i \in 1..Len(stack) : i = 1 \/ i \in 2..Len(stack)
  BY <1>1
<1>3. ASSUME NEW n, n \notin Children PROVE IsOn(n) <=> Bottom = n
  BY <1>1, <1>2, <1>3 DEF IsOn, Bottom, StackShape
<1>4. isReaderActivity <=> Bottom = "reader"
  BY <1>3 DEF isReaderActivity, Children
<1>5. Top.name \in Children \/ Len(stack) = 1
  <2>1. Len(stack) = 1 \/ Len(stack) \in 2..Len(stack)
    BY <1>1, Positive, Zenon
  <2>2. \A i \in 2..Len(stack) : stack[i].name \in Children
    BY DEF StackShape
  <2> QED
    BY <2>1, <2>2, Zenon DEF Top
<1>6. Len(stack) <= 3
  BY DEF DeviceTypes
<1> QED
  BY <1>1, <1>3, <1>4, <1>5, <1>6

(* A stack of one activity. *)
LEMMA SingleShape ==
    ASSUME NEW s \in Screens, stack' = <<s>>, flow' \in Running, hint' = "home", s.name # "sync",
           s.name = "kosync" => s.book \in Books
    PROVE  /\ StackShape' /\ stack' \in Seq(Screens) /\ Len(stack') <= 3
           /\ Top' = s /\ Bottom' = s.name /\ stack'[1] = s
<1>1. Len(stack') = 1 /\ stack'[1] = s /\ stack' # <<>> /\ stack' \in Seq(Screens)
  BY SingleScreen
<1>2. 2..Len(stack') = {}
  BY <1>1
<1> QED
  BY <1>1, <1>2 DEF StackShape, Top, Bottom

LEMMA EmptyShape ==
    ASSUME stack' = <<>>, hint' = "home", flow' \notin Running
    PROVE  StackShape'
<1>1. Len(stack') = 0 /\ 2..Len(stack') = {}
  OBVIOUS
<1> QED
  BY <1>1 DEF StackShape

-----------------------------------------------------------------------------
(* The steps that several actions share. *)

LEMMA ResetTypes ==
    ASSUME DeviceTypes, LoseRam, flow' \in Flows, cause' \in Causes \cup {None},
           rtc' \in [magic : BOOLEAN, target : Targets], due' \in Screens \cup {None},
           crashes' \in Nat
    PROVE  DeviceTypes'
BY LoseRamTypes, Zenon DEF DeviceTypes

LEMMA ExitType == ASSUME DeviceTypes
                  PROVE  ReaderExits \in States /\ ReaderExits.path = app.path /\ ReaderExits.count = 0
BY DEF DeviceTypes, ReaderExits, States

(* Leaving all activities for another one. *)
LEMMA ReplacesStep ==
    ASSUME DeviceIInv, flow = "run", dirty = None, NEW new \in Screens, Replaces(new),
           new.name \notin {"reader", "sync"},
           new.name = "kosync" => Bottom = "reader" /\ new.book = stack[1].book /\ new.book \in Books
    PROVE  DeviceIInv'
<1> USE DEF DeviceIInv
<1>1. stack # <<>> /\ (isReaderActivity <=> Bottom = "reader") /\ (IsOn("message") <=> Bottom = "message")
      /\ (\A n \in Lists : IsOn(n) <=> Bottom = n)
  BY OnStack DEF StackShape, Running, Children, Lists
<1>2. hint' = "home"
  BY <1>1 DEF Replaces, StackShape, Lists
<1>3. /\ StackShape' /\ stack' \in Seq(Screens) /\ Len(stack') <= 3
      /\ Top' = new /\ Bottom' = new.name /\ stack'[1] = new
  BY <1>2, SingleShape, Zenon DEF Replaces, Running
<1>4. UNCHANGED <<flow, cause, card, rtc, boot, deepSleepInProgress, touch>> /\ due' = None /\ crashes' = 0
  BY Zenon DEF Replaces, UserActs
<1>5. CASE Bottom = "reader"
  <2>1. app' = ReaderExits /\ dirty' = app' /\ dirty' # None
    BY <1>1, <1>5, ExitType, StatesAssumption DEF Replaces, Save
  <2>2. DeviceTypes'
    BY <1>2, <1>3, <1>4, <2>1, ExitType DEF DeviceTypes, Targets
  <2>3. StateKept'
    BY <1>3, <1>4, <1>5, <2>1, ExitType DEF StateKept, Running
  <2>4. BootRecord' /\ CrashBound' /\ DueKept'
    BY <1>4 DEF BootRecord, CrashBound, DueKept
  <2> QED
    BY <1>3, <2>2, <2>3, <2>4
<1>6. CASE Bottom # "reader"
  <2>1. app' = app /\ dirty' = None
    BY <1>1, <1>6, Zenon DEF Replaces
  <2>2. DeviceTypes'
    BY <1>2, <1>3, <1>4, <2>1 DEF DeviceTypes, Targets
  <2>3. StateKept'
    BY <1>3, <1>4, <1>6, <2>1 DEF StateKept, Running
  <2>4. BootRecord' /\ CrashBound' /\ DueKept'
    BY <1>4 DEF BootRecord, CrashBound, DueKept
  <2> QED
    BY <1>3, <2>2, <2>3, <2>4
<1> QED
  BY <1>5, <1>6

(* A restart by the code. *)
LEMMA SilentRestartStep ==
    ASSUME DeviceIInv, flow = "run", dirty = None, NEW target \in Targets, SilentRestart(target),
           IF target = "reader"
             THEN Bottom \in {"reader", "kosync"} /\ Expected(target) = Reader(stack[1].book)
             ELSE Expected(target) = Screen(target)
    PROVE  DeviceIInv'
<1> USE DEF DeviceIInv
<1>1. /\ rtc' = [magic |-> TRUE, target |-> target] /\ flow' = "boot" /\ cause' = "restart"
      /\ due' = Expected(target) /\ crashes' = 0 /\ LoseRam
  BY Zenon DEF SilentRestart
<1>2. card' = card /\ dirty' = None /\ app' = Fresh /\ stack' = <<>> /\ hint' = "home" /\ boot' = Unread
  BY <1>1 DEF LoseRam
<1>3. stack # <<>> /\ stack[1] \in Screens
  BY OnStack DEF StackShape, Running
<1>4. target = "reader" => /\ due' = Reader(stack[1].book) /\ stack[1].book \in Books
                           /\ card = app /\ app.path = stack[1].book
  <2> SUFFICES ASSUME target = "reader"
               PROVE  /\ due' = Reader(stack[1].book) /\ stack[1].book \in Books
                      /\ card = app /\ app.path = stack[1].book
    OBVIOUS
  <2>1. Bottom \in {"reader", "kosync"} /\ due' = Reader(stack[1].book)
    BY <1>1
  <2>2. stack[1].book \in Books
    BY <2>1, <1>3, ScreenBooks DEF StackShape, Bottom
  <2> QED
    BY <2>1, <2>2 DEF StateKept, Running
<1>5. due' \in Screens
  <2>1. target # "reader" => target \in Names
    BY DEF Targets, Names
  <2> QED
    BY <1>1, <1>4, <2>1, ScreenTypes
<1>6. DeviceTypes'
  <2>1. flow' \in Flows /\ cause' \in Causes /\ crashes' \in Nat
    BY <1>1 DEF Flows, Causes
  <2>2. rtc' \in [magic : BOOLEAN, target : Targets]
    BY <1>1
  <2> QED
    BY <1>1, <1>5, <2>1, <2>2, ResetTypes, Zenon
<1>7. StackShape'
  BY <1>1, <1>2, EmptyShape DEF Running
<1>8. StateKept' /\ BootRecord' /\ CrashBound'
  BY <1>1, <1>2 DEF StateKept, BootRecord, CrashBound, Running, Unread
<1>9. DueKept'
  <2>1. target = "reader" => card' # None /\ card'.path # None /\ due' = Reader(card'.path)
    BY <1>2, <1>4, BooksAssumption, StatesAssumption DEF DeviceTypes
  <2>2. target # "reader" => due' = Screen(target)
    BY <1>1
  <2>3. rtc'.magic = TRUE /\ rtc'.target = target
    BY <1>1
  <2>4. LeadsTo(card, rtc.magic, rtc.target)'
    BY <2>1, <2>2, <2>3, Zenon DEF LeadsTo
  <2> QED
    BY <1>1, <2>4 DEF DueKept
<1> QED
  BY <1>6, <1>7, <1>8, <1>9

(* A restart, a crash or a loss of power after which nothing is expected. *)
LEMMA NothingDue ==
    ASSUME DeviceIInv, LoseRam, flow' \in {"boot", "down"}, cause' \in Causes \cup {None},
           due' = None, rtc' \in [magic : BOOLEAN, target : Targets], rtc'.magic = FALSE,
           \/ crashes' = 0
           \/ flow # "run" /\ crashes' = crashes /\ (dirty = None \/ crashes = 0)
           \/ flow = "run" /\ crashes' = crashes + Crashed
    PROVE  DeviceIInv'
<1> USE DEF DeviceIInv
<1>1. flow \notin {"commit", "exited"} \/ crashes' = 0
  BY DEF CrashBound
<1>2. card' \in {card, None, dirty} /\ (dirty = None => card' = card)
  BY DEF LoseRam
<1>3. dirty' = None /\ stack' = <<>> /\ hint' = "home" /\ boot' = Unread /\ boot'.silent = FALSE
  BY LoseRamTypes DEF Unread
<1>4. Resuming(None) = FALSE
  BY DEF Resuming
<1>5. crashes' \in Nat /\ crashes' <= 2 /\ (crashes' = 2 => ~Resuming(card'))
  <2>1. CASE crashes' = 0
    BY <2>1
  <2>2. CASE flow # "run" /\ crashes' = crashes /\ (dirty = None \/ crashes = 0)
    BY <2>2, <1>2, <1>4 DEF CrashBound, DeviceTypes
  <2>3. CASE flow = "run" /\ crashes' = crashes + Crashed
    <3>1. CASE Crashed = 0
      BY <2>3, <3>1, <1>2, <1>4 DEF CrashBound, DeviceTypes
    <3>2. CASE Crashed = 1
      <4>1. Top.name = "reader" \/ (Top.name = "opening" /\ dirty = None)
        BY <3>2 DEF Crashed
      <4>2. crashes \in Nat /\ crashes' = crashes + 1
        BY <2>3, <3>2 DEF DeviceTypes
      <4>3. crashes = 0 \/ (crashes = 1 /\ ~Resuming(dirty) /\ ~Resuming(card))
        BY <2>3, <4>1, <4>2 DEF CrashBound
      <4> QED
        BY <4>2, <4>3, <1>2, <1>4
    <3> QED
      BY <3>1, <3>2 DEF Crashed
  <2> QED
    BY <2>1, <2>2, <2>3
<1>6. DeviceTypes'
  <2>1. flow' \in Flows
    BY DEF Flows
  <2> QED
    BY <1>5, <2>1, ResetTypes, Zenon
<1>7. StackShape'
  BY <1>3, EmptyShape DEF Running
<1>8. StateKept' /\ BootRecord' /\ DueKept'
  BY <1>3 DEF StateKept, BootRecord, DueKept, Running
<1>9. CrashBound'
  BY <1>3, <1>4, <1>5 DEF CrashBound
<1> QED
  BY <1>6, <1>7, <1>8, <1>9

(* The onExit() of a network activity asks for the screen the user left. *)
LEMMA LeavesNetStep == ASSUME DeviceIInv, flow = "run", dirty = None, LeavesNet PROVE DeviceIInv'
<1> USE DEF DeviceIInv
<1>1. stack # <<>>
  BY DEF StackShape, Running
<1>2. /\ \A n \in Lists : IsOn(n) <=> Bottom = n
      /\ Len(stack) > 0 /\ Len(stack) \in Nat /\ (Top.name \in Children \/ Len(stack) = 1)
  BY <1>1, OnStack DEF Lists, Children
<1>3. Len(stack) = 1 => Top = stack[1] /\ Bottom = Top.name
  BY DEF Top, Bottom
<1>4. Top.name \in Nets /\ SilentRestart(Target(Top.name))
  BY Zenon DEF LeavesNet
<1>5. CASE Top.name = "kosync"
  <2>1. Target(Top.name) = "reader" /\ Bottom = "kosync" /\ Expected("reader") = Reader(stack[1].book)
    BY <1>2, <1>3, <1>5 DEF Target, Expected, Children
  <2> QED
    BY <1>4, <2>1, SilentRestartStep DEF Targets
<1>6. CASE Top.name = "receive"
  <2>1. Bottom \in Lists => Len(stack) > 1
    <3>1. Len(stack) = 1 => Bottom = "receive"
      BY <1>3, <1>6, Zenon
    <3>2. Len(stack) = 1 \/ Len(stack) > 1
      BY <1>2, Positive, Zenon
    <3> QED
      BY <3>1, <3>2 DEF Lists
  <2>2. hint = IF Bottom \in Lists THEN Bottom ELSE "home"
    BY <2>1 DEF StackShape
  <2>3. Target(Top.name) = hint /\ hint # "reader" /\ hint \in Targets
    BY <1>6, <2>2 DEF Target, Lists, Targets
  <2>4. Expected(hint) = Screen(hint)
    BY <1>2, <1>6, <2>2, <2>3 DEF Expected, Lists
  <2> QED
    BY <1>4, <2>3, <2>4, SilentRestartStep
<1>7. CASE Top.name \in {"transfer", "ota"}
  <2>1. Target(Top.name) = "home" /\ Expected("home") = Screen("home")
    BY <1>7 DEF Target, Expected
  <2> QED
    BY <1>4, <2>1, SilentRestartStep DEF Targets
<1> QED
  BY <1>4, <1>5, <1>6, <1>7 DEF Nets

LEMMA LeaveStep ==
    ASSUME DeviceIInv, flow = "run", dirty = None, NEW new \in Screens, Leave(new),
           new.name \notin {"reader", "sync"},
           new.name = "kosync" => Bottom = "reader" /\ new.book = stack[1].book /\ new.book \in Books
    PROVE  DeviceIInv'
BY LeavesNetStep, ReplacesStep, Zenon DEF Leave

-----------------------------------------------------------------------------
(* The steps of the running device. *)

LEMMA ReadyRuns == ASSUME NEW names, Ready(names) PROVE flow = "run" /\ dirty = None /\ Top.name \in names
BY DEF Ready, Awake

(* Going from one screen to another. *)
LEMMA NavigateStep ==
    ASSUME DeviceIInv,
           \/ GoHome \/ Browse \/ ReceiveShortcut \/ StartKOSync \/ ReturnToReader
           \/ \E b \in Books : OpenBook(b)
    PROVE  DeviceIInv'
<1>1. \A n \in Names : Screen(n) \in Screens /\ Screen(n).name = n
  BY ScreenTypes DEF Screen
<1>2. \A b \in Books : Opening(b) \in Screens /\ Opening(b).name = "opening"
  BY ScreenTypes DEF Opening
<1>3. flow = "run" => stack # <<>> /\ Top \in Screens /\ (Top.name \in Children \/ Top = stack[1])
  <2>1. flow = "run" => stack # <<>>
    BY DEF DeviceIInv, StackShape, Running
  <2> QED
    BY <2>1, OnStack DEF DeviceIInv, Top
<1>4. CASE GoHome
  BY <1>1, <1>4, ReadyRuns, LeaveStep DEF GoHome, Names
<1>5. CASE Browse
  <2>1. PICK n \in {"library", "dashboard", "transfer", "usb"} : Leave(Screen(n))
    BY <1>5, Zenon DEF Browse
  <2>2. n \in Names /\ n \notin {"reader", "sync", "kosync"}
    BY DEF Names
  <2>3. flow = "run" /\ dirty = None
    BY <1>5, ReadyRuns, Zenon DEF Browse
  <2> QED
    BY <1>1, <2>1, <2>2, <2>3, LeaveStep
<1>6. CASE ReceiveShortcut
  BY <1>1, <1>6, ReadyRuns, LeaveStep DEF ReceiveShortcut, Names
<1>7. CASE StartKOSync
  <2>1. flow = "run" /\ dirty = None /\ Top.name = "reader"
    BY <1>7, ReadyRuns DEF StartKOSync
  <2>2. Top = stack[1] /\ Bottom = "reader" /\ Top.book \in Books
    BY <1>3, <2>1, ScreenBooks DEF Children, Bottom
  <2>3. [name |-> "kosync", book |-> Top.book] \in Screens
    BY <2>2, ScreenTypes
  <2>4. Leave([name |-> "kosync", book |-> Top.book])
    BY <1>7, Zenon DEF StartKOSync
  <2> QED
    BY <2>1, <2>2, <2>3, <2>4, LeaveStep
<1>8. CASE ReturnToReader
  <2>1. flow = "run" /\ dirty = None /\ Top.name = "kosync"
    BY <1>8, ReadyRuns DEF ReturnToReader
  <2>2. Top = stack[1] /\ Bottom = "kosync"
    BY <1>3, <2>1 DEF Children, Bottom
  <2>3. Top.book \in Books
    BY <1>3, <2>1, <2>2 DEF DeviceIInv, StackShape
  <2>4. Leave(Opening(Top.book))
    BY <1>8, Zenon DEF ReturnToReader
  <2> QED
    BY <1>2, <2>1, <2>3, <2>4, LeaveStep
<1>9. CASE \E b \in Books : OpenBook(b)
  <2>1. PICK b \in Books : OpenBook(b)
    BY <1>9
  <2>2. flow = "run" /\ dirty = None /\ Leave(Opening(b))
    BY <2>1, ReadyRuns, Zenon DEF OpenBook
  <2> QED
    BY <1>2, <2>2, LeaveStep
<1> QED
  BY <1>4, <1>5, <1>6, <1>7, <1>8, <1>9

(* The activities that restart the device by themselves. *)
LEMMA RestartStep == ASSUME DeviceIInv, SyncEnds \/ UsbEnds PROVE DeviceIInv'
<1>1. CASE UsbEnds
  <2>1. flow = "run" /\ dirty = None /\ Top.name = "usb"
    BY <1>1, ReadyRuns DEF UsbEnds
  <2>2. Expected("home") = Screen("home")
    BY <2>1 DEF Expected
  <2> QED
    BY <1>1, <2>1, <2>2, SilentRestartStep DEF UsbEnds, Targets
<1>2. CASE SyncEnds
  <2>1. flow = "run" /\ dirty = None /\ Top.name = "sync"
    BY <1>2, ReadyRuns DEF SyncEnds
  <2>2. PICK t \in {"home", "reader"} : SilentRestart(t)
    BY <1>2, Zenon DEF SyncEnds
  <2>3. CASE t = "home"
    <3>1. Expected("home") = Screen("home")
      BY <2>1 DEF Expected
    <3> QED
      BY <2>1, <2>2, <2>3, <3>1, SilentRestartStep DEF Targets
  <2>4. CASE t = "reader"
    <3>1. Expected("reader") = Reader(stack[1].book)
      BY <2>1 DEF Expected
    <3>2. Bottom = "reader"
      <4>1. stack # <<>> /\ Bottom # "sync"
        BY <2>1 DEF DeviceIInv, StackShape, Running
      <4>2. Len(stack) \in Nat /\ Len(stack) > 0
        BY <4>1, OnStack DEF DeviceIInv
      <4>3. Len(stack) \in 2..Len(stack)
        BY <2>1, <4>1, <4>2, Positive, Zenon DEF Top, Bottom
      <4> QED
        BY <2>1, <4>3, Zenon DEF DeviceIInv, StackShape, Top
    <3> QED
      BY <2>1, <2>2, <2>4, <3>1, <3>2, SilentRestartStep DEF Targets
  <2> QED
    BY <2>2, <2>3, <2>4
<1> QED
  BY <1>1, <1>2

(* A child is put on top. *)
LEMMA AppendFacts ==
    ASSUME NEW s \in Seq(Screens), NEW e \in Screens
    PROVE  /\ Append(s, e) \in Seq(Screens) /\ Len(Append(s, e)) = Len(s) + 1
           /\ \A i \in 1..Len(s) : Append(s, e)[i] = s[i]
           /\ Append(s, e)[Len(s) + 1] = e
OBVIOUS

LEMMA PushStep == ASSUME DeviceIInv, Push PROVE DeviceIInv'
<1> USE DEF DeviceIInv
<1>1. flow = "run" /\ dirty = None /\ Len(stack) < 3
  BY Zenon DEF Push, Awake
<1>2. PICK n \in Names :
        /\ n \in (CASE Top.name \in {"library", "dashboard"} -> {"menu"}
                    [] Top.name = "menu" -> {"receive"}
                    [] Top.name = "reader" -> {"receive", "sync"}
                    [] Top.name = "home" -> {"ota", "firmware", "transfer"}
                    [] OTHER -> {})
        /\ stack' = Append(stack, Screen(n))
        /\ hint' = IF n = "menu" THEN Top.name ELSE hint
  BY Zenon DEF Push
<1>3. /\ UNCHANGED <<flow, cause, card, dirty, rtc, boot, app, deepSleepInProgress, touch>>
      /\ due' = None /\ crashes' = 0
  BY Zenon DEF Push, UserActs
<1>4. /\ stack # <<>> /\ stack \in Seq(Screens) /\ Len(stack) \in Nat /\ Len(stack) > 0
      /\ (Top.name \in Children \/ Len(stack) = 1)
  <2>1. stack # <<>>
    BY <1>1 DEF StackShape, Running
  <2> QED
    BY <2>1, OnStack DEF DeviceTypes
<1>5. Screen(n) \in Screens /\ Screen(n).name = n
  BY ScreenTypes DEF Screen
<1>6. /\ n \in Children /\ (n = "menu" <=> Top.name \in Lists) /\ (n = "sync" => Top.name = "reader")
  BY <1>2 DEF Children, Lists
<1>7. Len(stack) = 1 => Top = stack[1]
  BY DEF Top
<1>8. /\ stack' \in Seq(Screens) /\ Len(stack') = Len(stack) + 1 /\ stack'[Len(stack) + 1] = Screen(n)
      /\ \A i \in 1..Len(stack) : stack'[i] = stack[i]
  BY <1>2, <1>4, <1>5, AppendFacts, Zenon
<1>9. stack'[1] = stack[1] /\ Bottom' = Bottom
  BY <1>4, <1>8 DEF Bottom
<1>10. n = "menu" <=> Len(stack) = 1 /\ Bottom \in Lists
  <2>1. Top.name \in Lists <=> Len(stack) = 1 /\ Bottom \in Lists
    <3>1. CASE Len(stack) = 1
      BY <1>7, <3>1 DEF Bottom
    <3>2. CASE Len(stack) # 1
      BY <1>4, <3>2 DEF Children, Lists
    <3> QED
      BY <3>1, <3>2
  <2> QED
    BY <1>6, <2>1
<1>11. \A i \in 2..Len(stack') :
        /\ stack'[i].name \in Children
        /\ stack'[i].name = "sync" => Bottom = "reader"
        /\ stack'[i].name = "menu" <=> i = 2 /\ Bottom \in Lists
  <2> SUFFICES ASSUME NEW i \in 2..Len(stack')
               PROVE  /\ stack'[i].name \in Children
                      /\ stack'[i].name = "sync" => Bottom = "reader"
                      /\ stack'[i].name = "menu" <=> i = 2 /\ Bottom \in Lists
    OBVIOUS
  <2>1. i \in 2..Len(stack) \/ (i = Len(stack) + 1 /\ (i = 2 <=> Len(stack) = 1))
    BY <1>4, <1>8, OneMore, Zenon
  <2>2. CASE i \in 2..Len(stack)
    <3>1. stack'[i] = stack[i]
      BY <1>8, <2>2
    <3> QED
      BY <2>2, <3>1, Zenon DEF StackShape
  <2>3. CASE i = Len(stack) + 1 /\ (i = 2 <=> Len(stack) = 1)
    <3>1. stack'[i].name = n
      BY <1>5, <1>8, <2>3, Zenon
    <3>2. n = "sync" => Bottom = "reader"
      BY <1>4, <1>6, <1>7 DEF Bottom, Children
    <3> QED
      BY <1>6, <1>10, <2>3, <3>1, <3>2, Zenon
  <2> QED
    BY <2>1, <2>2, <2>3
<1>12. hint' = IF Bottom \in Lists THEN Bottom ELSE "home"
  <2>1. CASE n = "menu"
    BY <1>2, <1>7, <1>10, <2>1 DEF Bottom
  <2>2. CASE n # "menu"
    <3>1. hint' = hint /\ ~(Len(stack) = 1 /\ Bottom \in Lists)
      BY <1>2, <1>10, <2>2
    <3>2. Len(stack) > 1 \/ Len(stack) = 1
      BY <1>4, Positive, Zenon
    <3> QED
      BY <3>1, <3>2, Zenon DEF StackShape
  <2> QED
    BY <2>1, <2>2
<1>13. StackShape'
  <2>1. Len(stack') > 1 /\ stack' # <<>>
    BY <1>4, <1>8
  <2> QED
    BY <1>3, <1>4, <1>9, <1>11, <1>12, <2>1, Zenon DEF StackShape
<1>14. DeviceTypes'
  <2>1. Len(stack') <= 3 /\ hint' \in Targets
    BY <1>1, <1>4, <1>8, <1>12 DEF Lists, Targets
  <2> QED
    BY <1>3, <1>8, <2>1 DEF DeviceTypes
<1>15. StateKept'
  BY <1>3, <1>9 DEF StateKept
<1>16. BootRecord' /\ CrashBound' /\ DueKept'
  BY <1>1, <1>3 DEF BootRecord, CrashBound, DueKept
<1> QED
  BY <1>13, <1>14, <1>15, <1>16

(* A child finishes. *)
LEMMA SubSeqFacts ==
    ASSUME NEW s \in Seq(Screens), Len(s) > 1
    PROVE  LET t == SubSeq(s, 1, Len(s) - 1) IN
           /\ t \in Seq(Screens) /\ Len(t) = Len(s) - 1
           /\ \A i \in 1..(Len(s) - 1) : t[i] = s[i]
OBVIOUS

LEMMA OneLess ==
    \A n \in Nat : n > 1 => /\ n - 1 \in Nat /\ n - 1 > 0 /\ 1 \in 1..(n - 1) /\ n \in 2..n
                            /\ (n - 1 > 1 <=> n # 2)
                            /\ \A i \in 2..(n - 1) : i \in 2..n /\ i \in 1..(n - 1)
OBVIOUS

LEMMA PopStep == ASSUME DeviceIInv, Pop PROVE DeviceIInv'
<1> USE DEF DeviceIInv
<1>1. flow = "run" /\ dirty = None
  BY ReadyRuns, Zenon DEF Pop
<1>2. ASSUME LeavesNet PROVE DeviceIInv'
  BY <1>1, <1>2, LeavesNetStep
<1>3. ASSUME ~LeavesNet PROVE DeviceIInv'
  <2>1. /\ stack' = SubSeq(stack, 1, Len(stack) - 1)
        /\ hint' = IF Top.name = "menu" THEN "home" ELSE hint
        /\ UNCHANGED <<flow, cause, card, dirty, rtc, boot, app, deepSleepInProgress, touch>>
        /\ due' = None /\ crashes' = 0
    BY <1>3, Zenon DEF Pop, UserActs
  <2>2. stack \in Seq(Screens) /\ Len(stack) > 1
    BY Zenon DEF DeviceTypes, Pop
  <2>3. Len(stack) \in Nat /\ Len(stack) <= 3 /\ stack # <<>>
    <3>1. stack # <<>>
      BY <1>1 DEF StackShape, Running
    <3> QED
      BY <3>1, OnStack
  <2>4. /\ stack' \in Seq(Screens) /\ Len(stack') = Len(stack) - 1
        /\ \A i \in 1..(Len(stack) - 1) : stack'[i] = stack[i]
    BY <2>1, <2>2, SubSeqFacts, Zenon
  <2>5. stack'[1] = stack[1] /\ Bottom' = Bottom /\ Len(stack') > 0 /\ Len(stack') <= 3
    <3>1. stack'[1] = stack[1]
      BY <2>2, <2>3, <2>4, OneLess, Zenon
    <3>2. \A n \in Nat : n > 1 /\ n <= 3 => n - 1 > 0 /\ n - 1 <= 3
      OBVIOUS
    <3> QED
      BY <2>2, <2>3, <2>4, <3>1, <3>2, Zenon DEF Bottom
  <2>6. stack' # <<>>
    <3>1. Len(<<>>) = 0 /\ ~(0 > 0)
      OBVIOUS
    <3> QED
      BY <2>5, <3>1, Zenon
  <2>7. \A i \in 2..Len(stack') :
          /\ stack'[i].name \in Children
          /\ stack'[i].name = "sync" => Bottom = "reader"
          /\ stack'[i].name = "menu" <=> i = 2 /\ Bottom \in Lists
    BY <2>2, <2>3, <2>4, OneLess, Zenon DEF StackShape
  <2>8. Top.name = "menu" <=> Len(stack) = 2 /\ Bottom \in Lists
    BY <2>2, <2>3, OneLess, Zenon DEF StackShape, Top
  <2>9. hint' = IF Len(stack') > 1 /\ Bottom \in Lists THEN Bottom ELSE "home"
    <3>1. Len(stack') > 1 <=> Len(stack) # 2
      BY <2>2, <2>3, <2>4, OneLess, Zenon
    <3>2. hint = IF Bottom \in Lists THEN Bottom ELSE "home"
      BY <2>2, Zenon DEF StackShape
    <3> QED
      BY <2>1, <2>8, <3>1, <3>2
  <2>10. StackShape'
    <3>1. flow' \in Running
      BY <1>1, <2>1 DEF Running
    <3> QED
      BY <2>3, <2>5, <2>6, <2>7, <2>9, <3>1, Zenon DEF StackShape
  <2>11. DeviceTypes'
    <3>1. hint' \in Targets
      BY <2>1 DEF DeviceTypes, Targets
    <3> QED
      BY <2>1, <2>4, <2>5, <3>1 DEF DeviceTypes
  <2>12. StateKept'
    BY <2>1, <2>5 DEF StateKept
  <2>13. BootRecord' /\ CrashBound' /\ DueKept'
    BY <1>1, <2>1 DEF BootRecord, CrashBound, DueKept
  <2> QED
    BY <2>10, <2>11, <2>12, <2>13
<1> QED
  BY <1>2, <1>3

(* ReaderActivity::onEnter() *)
LEMMA OpenStep == ASSUME DeviceIInv, OpenSucceeds \/ OpenFails PROVE DeviceIInv'
<1> USE DEF DeviceIInv
<1>1. flow = "run" /\ dirty = None /\ Top.name = "opening"
  BY ReadyRuns DEF OpenSucceeds, OpenFails
<1>2. stack # <<>>
  BY <1>1 DEF StackShape, Running
<1>3. Top = stack[1] /\ Top \in Screens /\ ~IsOn("message") /\ hint = "home" /\ Bottom = "opening"
  <2>1. Len(stack) = 1 /\ Top \in Screens
    BY <1>1, <1>2, OnStack DEF Children
  <2>2. Top = stack[1] /\ Bottom = "opening"
    BY <1>1, <2>1 DEF Top, Bottom
  <2>3. ~IsOn("message")
    BY <1>2, <2>2, OnStack DEF Children
  <2> QED
    BY <2>1, <2>2, <2>3 DEF StackShape
<1>4. Top.book \in Books
  BY <1>1, <1>3, ScreenBooks
<1>5. CASE OpenSucceeds
  <2>1. /\ app' = [app EXCEPT !.path = Top.book] /\ dirty' = app' /\ stack' = <<Reader(Top.book)>>
        /\ UNCHANGED <<flow, cause, card, rtc, boot, hint, deepSleepInProgress, touch, due, crashes>>
    BY <1>3, <1>5, Zenon DEF OpenSucceeds, Save
  <2>2. /\ app' \in States /\ app'.path = Top.book /\ app'.count = app.count /\ dirty' # None
    BY <1>4, <2>1, StatesAssumption DEF DeviceTypes, States
  <2>3. Reader(Top.book) \in Screens /\ Reader(Top.book).name = "reader" /\ Reader(Top.book).book = Top.book
    BY <1>4, ScreenTypes DEF Reader
  <2>4. /\ StackShape' /\ stack' \in Seq(Screens) /\ Len(stack') <= 3
        /\ Top' = Reader(Top.book) /\ Bottom' = "reader" /\ stack'[1] = Reader(Top.book)
    BY <1>1, <1>3, <2>1, <2>3, SingleShape DEF Running
  <2>5. DeviceTypes'
    BY <2>1, <2>2, <2>4 DEF DeviceTypes
  <2>6. StateKept'
    BY <1>1, <2>1, <2>2, <2>3, <2>4 DEF StateKept, Running
  <2>7. BootRecord'
    BY <2>1 DEF BootRecord
  <2>8. CrashBound'
    <3>1. crashes > 0 => ~Resuming(card) /\ crashes = 1 /\ app.count = 1
      BY <1>1 DEF CrashBound
    <3>2. crashes > 0 => ~Resuming(app')
      BY <2>2, <3>1 DEF Resuming
    <3> QED
      BY <1>1, <2>1, <2>2, <2>3, <2>4, <3>1, <3>2 DEF CrashBound, DeviceTypes
  <2>9. DueKept'
    <3>1. due # None => due = Reader(Top.book)
      BY <1>1 DEF DueKept, Opening
    <3> QED
      BY <1>1, <2>1, <2>3, <2>4, <3>1 DEF DueKept
  <2> QED
    BY <2>4, <2>5, <2>6, <2>7, <2>8, <2>9
<1>6. CASE OpenFails
  <2>1. /\ app' = ReaderExits /\ dirty' = app' /\ stack' = <<Screen("home")>> /\ due' = None
        /\ UNCHANGED <<flow, cause, card, rtc, boot, hint, deepSleepInProgress, touch, crashes>>
    BY <1>3, <1>6, Zenon DEF OpenFails, Save
  <2>2. Screen("home") \in Screens /\ Screen("home").name = "home"
    BY ScreenTypes DEF Screen, Names
  <2>3. /\ StackShape' /\ stack' \in Seq(Screens) /\ Len(stack') <= 3
        /\ Top' = Screen("home") /\ Bottom' = "home"
    BY <1>1, <1>3, <2>1, <2>2, SingleShape DEF Running
  <2>4. DeviceTypes'
    BY <2>1, <2>3, ExitType DEF DeviceTypes
  <2>5. StateKept'
    BY <1>1, <2>1, <2>3 DEF StateKept, Running
  <2>6. BootRecord' /\ DueKept'
    BY <2>1 DEF BootRecord, DueKept
  <2>7. CrashBound'
    BY <1>1, <2>1, <2>2, <2>3 DEF CrashBound
  <2> QED
    BY <2>3, <2>4, <2>5, <2>6, <2>7
<1> QED
  BY <1>5, <1>6

(* The write of the state file ends. *)
LEMMA SavedStep == ASSUME DeviceIInv, Saved PROVE DeviceIInv'
<1> USE DEF DeviceIInv
<1>1. /\ dirty # None /\ card' = dirty /\ dirty' = None
      /\ UNCHANGED <<flow, cause, rtc, boot, app, stack, hint, deepSleepInProgress, touch, due, crashes>>
  BY Zenon DEF Saved
<1>2. flow \in Running /\ dirty = app
  BY <1>1 DEF StateKept
<1>3. Resuming(None) = FALSE
  BY DEF Resuming
<1>4. DeviceTypes' /\ StackShape' /\ BootRecord'
  BY <1>1 DEF DeviceTypes, StackShape, BootRecord, Bottom
<1>5. StateKept'
  BY <1>1, <1>2 DEF StateKept, Bottom
<1>6. CrashBound'
  BY <1>1, <1>3 DEF CrashBound, Top
<1>7. DueKept'
  <2>1. LeadsTo(dirty, FALSE, "home") => (IF dirty' = None THEN LeadsTo(card, FALSE, "home")' ELSE TRUE)
    BY <1>1 DEF LeadsTo, Resuming
  <2> QED
    BY <1>1, <1>2, <2>1 DEF DueKept, Running, Top
<1> QED
  BY <1>4, <1>5, <1>6, <1>7

-----------------------------------------------------------------------------
(* Updating, sleeping, waking, crashing. *)

LEMMA UpdateStep == ASSUME DeviceIInv, UpdateFirmware PROVE DeviceIInv'
<1> USE DEF DeviceIInv
<1>1. /\ flow = "run" /\ dirty = None /\ due' = None /\ crashes' = 0
      /\ UNCHANGED <<flow, cause, card, dirty, rtc, boot, app, stack, hint, deepSleepInProgress, touch>>
  BY Zenon DEF UpdateFirmware, UserActs
<1>2. DeviceTypes' /\ StackShape' /\ BootRecord'
  BY <1>1 DEF DeviceTypes, StackShape, BootRecord, Bottom
<1>3. StateKept' /\ CrashBound' /\ DueKept'
  BY <1>1 DEF StateKept, CrashBound, DueKept, Bottom
<1> QED
  BY <1>2, <1>3

LEMMA PlainRestartStep == ASSUME DeviceIInv, UpdateRestarts \/ SleepOvertaken PROVE DeviceIInv'
<1>1. PlainRestart /\ flow \in {"run", "commit"}
  BY Zenon DEF UpdateRestarts, SleepOvertaken
<1>2. LoseRam /\ flow' = "boot" /\ cause' = "restart" /\ due' = None /\ crashes' = 0 /\ rtc' = rtc
  BY <1>1, Zenon DEF PlainRestart
<1>3. rtc.magic = FALSE /\ rtc \in [magic : BOOLEAN, target : Targets]
  BY <1>1 DEF DeviceIInv, BootRecord, DeviceTypes
<1>4. "restart" \in Causes
  BY DEF Causes
<1> QED
  BY <1>2, <1>3, <1>4, NothingDue

LEMMA SleepBeginsStep == ASSUME DeviceIInv, SleepBegins PROVE DeviceIInv'
<1> USE DEF DeviceIInv
<1>1. /\ flow = "run" /\ dirty = None /\ flow' = "commit" /\ deepSleepInProgress' = TRUE
      /\ due' = None /\ crashes' = 0
      /\ UNCHANGED <<cause, card, rtc, boot, stack, hint, touch>>
  BY Zenon DEF SleepBegins, UserActs
<1>2. stack # <<>>
  BY <1>1 DEF StackShape, Running
<1>3. /\ app' = [app EXCEPT !.fromReader = isReaderActivity]
      /\ dirty' = IF IsOn("message") THEN None ELSE app'
  BY Zenon DEF SleepBegins, Save
<1>4. /\ isReaderActivity = (Bottom = "reader") /\ (IsOn("message") <=> Bottom = "message")
  BY <1>2, OnStack, Zenon DEF Children, isReaderActivity, IsOn
<1>5. app' \in States /\ app'.path = app.path /\ app'.fromReader = (Bottom = "reader")
  BY <1>3, <1>4 DEF DeviceTypes, States
<1>6. DeviceTypes'
  BY <1>1, <1>3, <1>5 DEF DeviceTypes, Flows
<1>7. StackShape' /\ BootRecord'
  BY <1>1 DEF StackShape, BootRecord, Bottom, Running
<1>8. StateKept'
  BY <1>1, <1>3, <1>4, <1>5, StatesAssumption DEF StateKept, Bottom, Running
<1>9. CrashBound' /\ DueKept'
  BY <1>1 DEF CrashBound, DueKept
<1> QED
  BY <1>6, <1>7, <1>8, <1>9

LEMMA SleepExitsStep == ASSUME DeviceIInv, Latched, SleepExits PROVE DeviceIInv'
<1> USE DEF DeviceIInv
<1>1. flow = "commit" /\ dirty = None /\ crashes = 0 /\ ~Restarts
  BY DEF SleepExits, CrashBound, Latched, Restarts
<1>2. /\ app' = IF isReaderActivity THEN ReaderExits ELSE app
      /\ IF isReaderActivity THEN Save(app') ELSE UNCHANGED dirty
      /\ due' = CASE isReaderActivity -> Reader(stack[1].book)
                  [] IsOn("message") -> None
                  [] OTHER -> Screen("home")
      /\ flow' = "exited"
      /\ UNCHANGED <<cause, card, rtc, boot, stack, hint, deepSleepInProgress, touch, crashes>>
  BY <1>1, Zenon DEF SleepExits
<1>3. stack # <<>>
  BY <1>1 DEF StackShape, Running
<1>4. /\ isReaderActivity <=> Bottom = "reader"
      /\ IsOn("message") <=> Bottom = "message"
      /\ stack[1] \in Screens
  BY <1>3, OnStack DEF Children
<1>5. StackShape' /\ BootRecord' /\ CrashBound' 
  BY <1>1, <1>2 DEF StackShape, BootRecord, CrashBound, Bottom, Running
<1>6. CASE Bottom = "reader"
  <2>1. stack[1].book \in Books
    BY <1>4, <1>6, ScreenBooks DEF Bottom
  <2>2. app' = ReaderExits /\ dirty' = app' /\ due' = Reader(stack[1].book)
    BY <1>2, <1>4, <1>6 DEF Save
  <2>3. app' \in States /\ app'.path = stack[1].book /\ app'.fromReader = TRUE /\ app'.count = 0
    BY <1>1, <1>6, <2>2 DEF StateKept, Running, ReaderExits, DeviceTypes, States
  <2>4. DeviceTypes'
    BY <1>2, <2>1, <2>2, <2>3, ScreenTypes DEF DeviceTypes, Flows
  <2>5. StateKept'
    BY <1>2, <2>2, <2>3, StatesAssumption DEF StateKept, Bottom, Running
  <2>6. Resuming(dirty')
    BY <2>1, <2>2, <2>3, BooksAssumption, StatesAssumption DEF Resuming
  <2>7. LeadsTo(dirty, FALSE, "home")'
    BY <2>2, <2>3, <2>6 DEF LeadsTo
  <2>8. DueKept'
    BY <1>2, <2>2, <2>3, <2>7, StatesAssumption DEF DueKept
  <2> QED
    BY <1>5, <2>4, <2>5, <2>8
<1>7. CASE Bottom # "reader"
  <2>1. app' = app /\ dirty' = None /\ due' = IF Bottom = "message" THEN None ELSE Screen("home")
    BY <1>1, <1>2, <1>4, <1>7
  <2>2. DeviceTypes'
    BY <1>2, <2>1, ScreenTypes DEF DeviceTypes, Flows, Names
  <2>3. StateKept'
    BY <1>1, <1>2, <1>7, <2>1 DEF StateKept, Bottom, Running
  <2>4. Bottom # "message" => ~Resuming(card)
    BY <1>1, <1>7 DEF StateKept, Resuming
  <2>5. due' # None => LeadsTo(card, FALSE, "home")'
    BY <1>2, <2>1, <2>4 DEF LeadsTo, Resuming
  <2>6. DueKept'
    BY <1>2, <2>1, <2>5 DEF DueKept
  <2> QED
    BY <1>5, <2>2, <2>3, <2>6
<1> QED
  BY <1>6, <1>7

LEMMA SleepPreemptedStep == ASSUME DeviceIInv, SleepPreempted PROVE DeviceIInv'
<1> USE DEF DeviceIInv
<1>1. /\ flow = "commit" /\ dirty = None /\ flow' = "exited"
      /\ UNCHANGED <<cause, card, dirty, rtc, boot, app, stack, hint, deepSleepInProgress, touch, due,
                     crashes>>
  BY Zenon DEF SleepPreempted
<1>2. due = None /\ crashes = 0
  BY <1>1 DEF DueKept, CrashBound
<1>3. DeviceTypes' /\ StackShape' /\ BootRecord'
  BY <1>1 DEF DeviceTypes, StackShape, BootRecord, Bottom, Flows, Running
<1>4. StateKept' /\ CrashBound' /\ DueKept'
  BY <1>1, <1>2 DEF StateKept, CrashBound, DueKept, Bottom, Running
<1> QED
  BY <1>3, <1>4

(* A reset that keeps what is on the card, what is due and how often the device crashed. *)
LEMMA QuietReset ==
    ASSUME DeviceIInv, LoseRam, dirty = None, rtc' \in [magic : BOOLEAN, target : Targets],
           flow' \in {"asleep", "down", "boot"}, cause' \in Causes \cup {None},
           crashes' = crashes, due' = due,
           flow' # "boot" => rtc'.magic = FALSE,
           rtc'.magic = TRUE => crashes = 0 /\ cause' \notin {"power", "usb", "button"},
           due # None => LeadsTo(card, rtc'.magic, rtc'.target)
    PROVE  DeviceIInv'
<1> USE DEF DeviceIInv
<1>1. /\ card' = card /\ dirty' = None /\ stack' = <<>> /\ hint' = "home" /\ boot'.silent = FALSE
  BY DEF LoseRam, Unread
<1>2. DeviceTypes'
  <2>1. flow' \in Flows /\ crashes' \in Nat /\ due' \in Screens \cup {None}
    BY DEF Flows, DeviceTypes
  <2> QED
    BY <2>1, ResetTypes, Zenon
<1>3. StackShape'
  BY <1>1, EmptyShape DEF Running
<1>4. StateKept' /\ BootRecord'
  BY <1>1 DEF StateKept, BootRecord, Running
<1>5. CrashBound'
  BY <1>1 DEF CrashBound, Resuming
<1>6. DueKept'
  <2>1. due # None => LeadsTo(card, rtc.magic, rtc.target)'
    BY <1>1 DEF LeadsTo, Resuming
  <2>2. due # None /\ flow' # "boot" => LeadsTo(card, FALSE, "home")'
    BY <2>1 DEF LeadsTo
  <2> QED
    BY <2>1, <2>2 DEF DueKept
<1> QED
  BY <1>2, <1>3, <1>4, <1>5, <1>6

LEMMA AsleepStep == ASSUME DeviceIInv, StartDeepSleep \/ BackToSleep PROVE DeviceIInv'
<1> USE DEF DeviceIInv
<1>1. /\ LoseRam /\ flow' = "asleep" /\ rtc' = rtc /\ due' = due /\ crashes' = crashes
      /\ cause' \in {cause, None}
  BY Zenon DEF StartDeepSleep, BackToSleep
<1>2. dirty = None /\ rtc.magic = FALSE
  BY DEF StartDeepSleep, BackToSleep, StateKept, BootRecord, Running
<1>3. due # None => LeadsTo(card, FALSE, "home")
  <2>1. CASE StartDeepSleep
    BY <1>2, <2>1 DEF StartDeepSleep, DueKept
  <2>2. CASE BackToSleep
    <3>1. flow = "setup" /\ boot.silent = FALSE
      BY <2>2 DEF BackToSleep, BootRecord, DeviceTypes
    <3> QED
      BY <3>1 DEF DueKept, LeadsTo
  <2> QED
    BY <2>1, <2>2
<1>4. due # None => LeadsTo(card, rtc'.magic, rtc'.target)
  BY <1>1, <1>2, <1>3 DEF LeadsTo
<1>5. rtc' \in [magic : BOOLEAN, target : Targets] /\ cause' \in Causes \cup {None}
  BY <1>1 DEF DeviceTypes
<1> QED
  BY <1>1, <1>2, <1>4, <1>5, QuietReset

LEMMA WakeUpStep == ASSUME DeviceIInv, WakeUp PROVE DeviceIInv'
<1> USE DEF DeviceIInv
<1>1. /\ flow \in {"down", "asleep"} /\ flow' = "boot" /\ cause' \in {"button", "power", "usb"}
      /\ UNCHANGED <<card, dirty, rtc, boot, app, stack, hint, deepSleepInProgress, touch, due, crashes>>
  BY DEF WakeUp
<1>2. rtc.magic = FALSE /\ boot.silent = FALSE /\ dirty = None
  BY <1>1 DEF BootRecord, StateKept, Running
<1>3. DeviceTypes' /\ StackShape'
  BY <1>1 DEF DeviceTypes, StackShape, Flows, Causes, Running, Bottom
<1>4. StateKept' /\ BootRecord' /\ CrashBound'
  BY <1>1, <1>2 DEF StateKept, BootRecord, CrashBound, Running
<1>5. DueKept'
  <2>1. due # None => LeadsTo(card, rtc.magic, rtc.target)
    BY <1>1, <1>2 DEF DueKept, LeadsTo
  <2> QED
    BY <1>1, <2>1 DEF DueKept, LeadsTo, Resuming
<1> QED
  BY <1>3, <1>4, <1>5

LEMMA CrashedOnce == Crashed \in {0, 1} /\ (flow # "run" => Crashed = 0)
BY DEF Crashed

LEMMA CrashStep == ASSUME DeviceIInv, Crash PROVE DeviceIInv'
<1> USE DEF DeviceIInv
<1>1. /\ LoseRam /\ flow' = "boot" /\ rtc' = rtc /\ cause' \in {"panic", "watchdog"}
      /\ due' = (IF flow = "boot" THEN due ELSE None) /\ crashes' = crashes + Crashed
  BY Zenon DEF Crash
<1>2. rtc' \in [magic : BOOLEAN, target : Targets] /\ cause' \in Causes /\ crashes \in Nat
  BY <1>1 DEF DeviceTypes, Causes
<1>3. CASE flow = "boot"
  <2>1. crashes' = crashes
    BY <1>1, <1>2, <1>3, CrashedOnce
  <2>2. dirty = None
    BY <1>3 DEF StateKept, Running
  <2>3. due # None => LeadsTo(card, rtc.magic, rtc.target)
    BY <1>3 DEF DueKept
  <2>4. rtc.magic = TRUE => crashes = 0
    BY DEF BootRecord
  <2> QED
    BY <1>1, <1>2, <1>3, <2>1, <2>2, <2>3, <2>4, QuietReset
<1>4. CASE flow # "boot"
  <2>1. rtc'.magic = FALSE /\ due' = None
    BY <1>1, <1>4 DEF BootRecord
  <2>2. CASE flow = "run"
    BY <1>1, <1>2, <2>1, <2>2, NothingDue
  <2>3. CASE flow # "run"
    <3>1. crashes' = crashes
      BY <1>1, <1>2, <2>3, CrashedOnce
    <3>2. dirty = None \/ crashes = 0
      BY <2>3 DEF StateKept, CrashBound, Running
    <3> QED
      BY <1>1, <1>2, <2>1, <2>3, <3>1, <3>2, NothingDue
  <2> QED
    BY <2>2, <2>3
<1> QED
  BY <1>3, <1>4

LEMMA PowerLossStep == ASSUME DeviceIInv, PowerLoss PROVE DeviceIInv'
<1> USE DEF DeviceIInv
<1>1. /\ LoseRam /\ flow' = "down" /\ cause' = None /\ crashes' = crashes + Crashed
      /\ due' = (IF flow = "asleep" THEN due ELSE None)
  BY Zenon DEF PowerLoss
<1>2. PICK t \in Targets : rtc' = [magic |-> FALSE, target |-> t]
  BY Zenon DEF PowerLoss
<1>3. rtc' \in [magic : BOOLEAN, target : Targets] /\ rtc'.magic = FALSE /\ crashes \in Nat
  BY <1>2 DEF DeviceTypes
<1>4. CASE flow = "asleep"
  <2>1. crashes' = crashes /\ due' = due
    BY <1>1, <1>3, <1>4, CrashedOnce
  <2>2. dirty = None
    BY <1>4 DEF StateKept, Running
  <2>3. due # None => LeadsTo(card, rtc'.magic, rtc'.target)
    BY <1>3, <1>4 DEF DueKept, LeadsTo
  <2> QED
    BY <1>1, <1>3, <2>1, <2>2, <2>3, QuietReset
<1>5. CASE flow = "run"
  <2>1. due' = None
    BY <1>1, <1>5
  <2> QED
    BY <1>1, <1>3, <1>5, <2>1, NothingDue
<1>6. CASE flow \notin {"asleep", "run"}
  <2>1. crashes' = crashes /\ due' = None
    BY <1>1, <1>3, <1>6, CrashedOnce
  <2>2. dirty = None \/ crashes = 0
    BY <1>6 DEF StateKept, CrashBound, Running
  <2> QED
    BY <1>1, <1>3, <1>6, <2>1, <2>2, NothingDue
<1> QED
  BY <1>4, <1>5, <1>6

-----------------------------------------------------------------------------
(* Booting. *)

LEMMA BootStep == ASSUME DeviceIInv, StartUp \/ SetupBegins PROVE DeviceIInv'
<1> USE DEF DeviceIInv
<1>1. CASE StartUp
  <2>1. UNCHANGED <<flow, cause, card, dirty, rtc, boot, app, stack, hint, deepSleepInProgress, touch,
                    due, crashes>>
    BY <1>1, Zenon DEF StartUp, deviceVars
  <2>2. DeviceTypes' /\ StackShape' /\ StateKept' /\ BootRecord'
    BY <2>1 DEF DeviceTypes, StackShape, StateKept, BootRecord, Bottom
  <2>3. CrashBound' /\ DueKept'
    BY <2>1 DEF CrashBound, DueKept, LeadsTo, Resuming, Top
  <2> QED
    BY <2>2, <2>3
<1>2. CASE SetupBegins
  <2>1. /\ flow = "boot" /\ flow' = "setup" /\ rtc' = [magic |-> FALSE, target |-> "home"]
        /\ boot' = [silent |-> rtc.magic, target |-> IF rtc.magic THEN rtc.target ELSE "home"]
        /\ UNCHANGED <<cause, card, dirty, app, stack, hint, deepSleepInProgress, touch, due, crashes>>
    BY <1>2, Zenon DEF SetupBegins
  <2>2. /\ boot'.silent = rtc.magic /\ (rtc.magic = TRUE => boot'.target = rtc.target)
        /\ boot' \in [silent : BOOLEAN, target : Targets]
        /\ rtc' \in [magic : BOOLEAN, target : Targets] /\ rtc'.magic = FALSE
    <3>1. rtc.magic \in BOOLEAN /\ rtc.target \in Targets /\ "home" \in Targets
      BY DEF DeviceTypes, Targets
    <3> QED
      BY <2>1, <3>1
  <2>3. DeviceTypes'
    BY <2>1, <2>2 DEF DeviceTypes, Flows
  <2>4. StackShape' /\ StateKept' /\ CrashBound'
    BY <2>1 DEF StackShape, StateKept, CrashBound, Bottom, Running
  <2>5. BootRecord'
    BY <2>1, <2>2 DEF BootRecord
  <2>6. DueKept'
    <3>1. due # None => LeadsTo(card, rtc.magic, rtc.target)
      BY <2>1 DEF DueKept
    <3>2. due # None => LeadsTo(card, boot'.silent, boot'.target)
      BY <2>2, <3>1 DEF LeadsTo
    <3> QED
      BY <2>1, <3>2 DEF DueKept, LeadsTo, Resuming
  <2> QED
    BY <2>3, <2>4, <2>5, <2>6
<1> QED
  BY <1>1, <1>2

LEMMA SetupState ==
    ASSUME DeviceIInv, flow = "setup"
    PROVE  hint = "home" /\ dirty = None /\ rtc.magic = FALSE
<1>1. stack = <<>>
  BY DEF DeviceIInv, StackShape, Running
<1>2. ~(Len(stack) > 1)
  BY <1>1
<1> QED
  BY <1>2 DEF DeviceIInv, StackShape, StateKept, BootRecord, Running

LEMMA NoCardStep == ASSUME DeviceIInv, NoCard PROVE DeviceIInv'
<1> USE DEF DeviceIInv
<1>1. /\ flow = "setup" /\ flow' = "run" /\ stack' = <<Screen("message")>> /\ due' = None
      /\ cause' = None /\ boot' = Unread
      /\ UNCHANGED <<card, dirty, rtc, app, hint, deepSleepInProgress, touch, crashes>>
  BY Zenon DEF NoCard
<1>2. hint = "home" /\ dirty = None /\ rtc.magic = FALSE
  BY <1>1, SetupState
<1>3. Screen("message") \in Screens /\ Screen("message").name = "message"
  BY ScreenTypes DEF Screen, Names
<1>4. /\ StackShape' /\ stack' \in Seq(Screens) /\ Len(stack') <= 3
      /\ Top' = Screen("message") /\ Bottom' = "message"
  BY <1>1, <1>2, <1>3, SingleShape DEF Running
<1>5. Unread \in [silent : BOOLEAN, target : Targets] /\ Unread.silent = FALSE
  BY DEF Unread, Targets
<1>6. DeviceTypes'
  BY <1>1, <1>4, <1>5 DEF DeviceTypes, Flows
<1>7. StateKept' /\ BootRecord' /\ DueKept'
  BY <1>1, <1>2, <1>4, <1>5 DEF StateKept, BootRecord, DueKept, Running
<1>8. CrashBound'
  BY <1>1, <1>3, <1>4 DEF CrashBound
<1> QED
  BY <1>4, <1>6, <1>7, <1>8

(* The first screen after setup(). *)
LEMMA RouteTypes ==
    ASSUME DeviceIInv, flow = "setup", NEW new \in Screens, NEW opened \in States, NEW expected,
           expected \in {due, None}, new.name \notin {"reader", "sync", "kosync"},
           Route(new, opened, expected), dirty' \in {None, opened}
    PROVE  DeviceTypes' /\ StackShape' /\ StateKept' /\ BootRecord' /\ Top' = new
<1> USE DEF DeviceIInv
<1>1. /\ flow' = "run" /\ stack' = <<new>> /\ due' = expected /\ app' = opened
      /\ cause' = None /\ boot' = Unread
      /\ UNCHANGED <<card, rtc, hint, crashes, deepSleepInProgress, touch>>
  BY Zenon DEF Route
<1>2. hint = "home" /\ dirty = None /\ rtc.magic = FALSE
  BY SetupState
<1>3. /\ StackShape' /\ stack' \in Seq(Screens) /\ Len(stack') <= 3
      /\ Top' = new /\ Bottom' = new.name
  BY <1>1, <1>2, SingleShape DEF Running
<1>4. Unread \in [silent : BOOLEAN, target : Targets] /\ Unread.silent = FALSE
  BY DEF Unread, Targets
<1>5. DeviceTypes'
  BY <1>1, <1>3, <1>4 DEF DeviceTypes, Flows
<1>6. StateKept' /\ BootRecord'
  BY <1>1, <1>2, <1>3, <1>4 DEF StateKept, BootRecord, Running
<1> QED
  BY <1>3, <1>5, <1>6

LEMMA LoadedState ==
    ASSUME DeviceIInv
    PROVE  /\ Loaded \in States /\ (Resumes <=> Resuming(card))
           /\ (Loaded.path # None => card # None /\ Loaded.path = card.path /\ Loaded.path \in Books)
           /\ (card # None /\ card.path # None => Loaded = card)
BY FreshType DEF DeviceIInv, DeviceTypes, Loaded, Resumes, Resuming, Fresh, States

LEMMA GuardType ==
    ASSUME NEW c \in States, NEW n \in 0..1
    PROVE  LET g == [c EXCEPT !.path = None, !.count = n] IN
           g \in States /\ g.path = None /\ g.count = n
<1>1. [c EXCEPT !.path = None, !.count = n] \in States
  BY DEF States
<1>2. /\ [c EXCEPT !.path = None, !.count = n].path = None
      /\ [c EXCEPT !.path = None, !.count = n].count = n
  BY DEF States
<1> QED
  BY <1>1, <1>2

(* To a screen without a book. *)
LEMMA RouteScreenStep ==
    ASSUME DeviceIInv, flow = "setup", NEW n \in Names \ {"sync", "kosync"}, NEW expected,
           Route(Screen(n), Loaded, expected), dirty' = dirty,
           expected = None \/ (expected = due /\ (due # None => due = Screen(n)))
    PROVE  DeviceIInv'
<1>1. Screen(n) \in Screens /\ Screen(n).name = n /\ n \notin {"reader", "opening", "sync", "kosync"}
  BY ScreenTypes DEF Screen, Names
<1>2. DeviceTypes' /\ StackShape' /\ StateKept' /\ BootRecord' /\ Top' = Screen(n)
  BY <1>1, SetupState, LoadedState, RouteTypes
<1>3. flow' = "run" /\ due' = expected /\ card' = card /\ crashes' = crashes
  BY Zenon DEF Route
<1>4. CrashBound'
  BY <1>1, <1>2, <1>3 DEF DeviceIInv, CrashBound, Resuming
<1>5. DueKept'
  BY <1>1, <1>2, <1>3 DEF DueKept
<1> QED
  BY <1>2, <1>4, <1>5 DEF DeviceIInv

(* To a book. *)
LEMMA RouteBookStep ==
    ASSUME DeviceIInv, flow = "setup", Loaded.path # None, NEW opened \in States,
           Route(Opening(Loaded.path), opened, due),
           due # None => due = Reader(Loaded.path),
           \/ dirty' = None /\ crashes = 0
           \/ dirty' = opened /\ crashes <= 1 /\ opened.path = None /\ opened.count = 1
    PROVE  DeviceIInv'
<1>1. /\ Opening(Loaded.path) \in Screens /\ Opening(Loaded.path).name = "opening"
      /\ Opening(Loaded.path).book = Loaded.path /\ Reader(Loaded.path).book = Loaded.path
  BY LoadedState, ScreenTypes DEF Opening, Reader
<1>2. /\ DeviceTypes' /\ StackShape' /\ StateKept' /\ BootRecord'
      /\ Top' = Opening(Loaded.path)
  BY <1>1, RouteTypes
<1>3. flow' = "run" /\ due' = due /\ card' = card /\ crashes' = crashes /\ app' = opened
  BY Zenon DEF Route
<1>4. CrashBound'
  <2>1. crashes \in Nat
    BY DEF DeviceIInv, DeviceTypes
  <2>2. Resuming(None) = FALSE /\ (opened.path = None => ~Resuming(opened))
    BY DEF Resuming
  <2>3. CASE dirty' = None /\ crashes = 0
    BY <1>3, <2>3 DEF CrashBound
  <2>4. CASE dirty' = opened /\ crashes <= 1 /\ opened.path = None /\ opened.count = 1
    <3>1. opened # None
      BY StatesAssumption
    <3>2. crashes # 2 /\ (crashes > 0 => crashes = 1)
      BY <2>1, <2>4
    <3> QED
      BY <1>1, <1>2, <1>3, <2>1, <2>2, <2>4, <3>1, <3>2 DEF CrashBound
  <2> QED
    BY <2>3, <2>4
<1>5. DueKept'
  BY <1>1, <1>2, <1>3 DEF DueKept
<1> QED
  BY <1>2, <1>4, <1>5 DEF DeviceIInv

LEMMA RouteStep ==
    ASSUME DeviceIInv,
           RouteRecovery \/ RouteCrash \/ RouteSilent \/ RouteHome \/ RouteBack \/ RouteReader
    PROVE  DeviceIInv'
<1>1. flow = "setup"
  BY Zenon DEF RouteRecovery, RouteCrash, RouteSilent, RouteHome, RouteBack, RouteReader, Route
<1>2. due # None => LeadsTo(card, boot.silent, boot.target)
  BY <1>1 DEF DeviceIInv, DueKept
<1>3. boot.silent \in BOOLEAN /\ boot.target \in Targets /\ (boot.silent = TRUE => crashes = 0)
  BY DEF DeviceIInv, DeviceTypes, BootRecord
<1>4. {"home", "firmware", "crash", "dashboard", "library"} \subseteq Names \ {"sync", "kosync"}
  BY DEF Names
<1>5. CASE RouteRecovery \/ RouteCrash \/ RouteBack
  <2>1. PICK n \in {"home", "firmware", "crash"} : Route(Screen(n), Loaded, None) /\ dirty' = dirty
    BY <1>5, SetupState, <1>1, Zenon DEF RouteRecovery, RouteCrash, RouteBack, Route
  <2> QED
    BY <1>1, <1>4, <2>1, RouteScreenStep
<1>6. CASE RouteHome
  <2>1. Route(Screen("home"), Loaded, due) /\ ~boot.silent /\ ~Resumes
    BY <1>6, Zenon DEF RouteHome
  <2>2. due # None => due = Screen("home")
    BY <1>2, <1>3, <2>1, LoadedState DEF LeadsTo
  <2>3. dirty' = dirty
    BY <1>6, Zenon DEF RouteHome
  <2> QED
    BY <1>1, <1>4, <2>1, <2>2, <2>3, RouteScreenStep
<1>7. CASE RouteSilent
  <2>1. Route(SilentScreen, Loaded, due) /\ boot.silent = TRUE /\ dirty' = dirty
    BY <1>3, <1>7, Zenon DEF RouteSilent
  <2>2. dirty = None
    BY <1>1, SetupState
  <2>3. CASE boot.target = "reader" /\ Loaded.path # None
    <3>1. SilentScreen = Opening(Loaded.path)
      BY <2>3 DEF SilentScreen
    <3>2. due # None => due = Reader(Loaded.path)
      BY <1>2, <2>1, <2>3, LoadedState DEF LeadsTo
    <3> QED
      BY <1>1, <1>3, <2>1, <2>2, <2>3, <3>1, <3>2, LoadedState, RouteBookStep
  <2>4. CASE boot.target # "reader"
    <3>1. SilentScreen = Screen(boot.target) /\ boot.target \in {"home", "dashboard", "library"}
      BY <1>3, <2>4 DEF SilentScreen, Targets
    <3>2. due # None => due = Screen(boot.target)
      BY <1>2, <2>1, <2>4 DEF LeadsTo
    <3> QED
      BY <1>1, <1>4, <2>1, <3>1, <3>2, RouteScreenStep
  <2>5. CASE boot.target = "reader" /\ Loaded.path = None
    <3>1. SilentScreen = Screen("home")
      BY <2>5 DEF SilentScreen
    <3>2. due = None
      BY <1>2, <2>1, <2>5, LoadedState DEF LeadsTo
    <3> QED
      BY <1>1, <1>4, <2>1, <3>1, <3>2, RouteScreenStep
  <2> QED
    BY <2>3, <2>4, <2>5
<1>8. CASE RouteReader
  <2>1. /\ Route(Opening(Loaded.path), Guarded, due) /\ ~boot.silent /\ Resumes /\ dirty' = Guarded
    BY <1>8, Zenon DEF RouteReader
  <2>2. Resuming(card) /\ Loaded.path # None /\ Loaded = card /\ Loaded \in States /\ Loaded.count = 0
    BY <2>1, LoadedState DEF Resumes, Resuming
  <2>3. due # None => due = Reader(Loaded.path)
    BY <1>2, <1>3, <2>1, <2>2 DEF LeadsTo
  <2>4. Guarded \in States /\ Guarded.path = None /\ Guarded.count = 1
    <3>1. Loaded.count + 1 = 1 /\ 1 \in 0..1
      BY <2>2
    <3>2. Guarded = [Loaded EXCEPT !.path = None, !.count = 1]
      BY <3>1, Zenon DEF Guarded
    <3> QED
      BY <2>2, <3>1, <3>2, GuardType, Zenon
  <2>5. crashes <= 1
    <3>1. crashes \in Nat /\ crashes <= 2 /\ crashes # 2
      BY <2>2 DEF DeviceIInv, DeviceTypes, CrashBound
    <3> QED
      BY <3>1
  <2> QED
    BY <1>1, <2>1, <2>2, <2>3, <2>4, <2>5, RouteBookStep
<1> QED
  BY <1>5, <1>6, <1>7, <1>8

-----------------------------------------------------------------------------
(* The theorems. *)

LEMMA DeviceInit == Init => DeviceIInv
<1> SUFFICES ASSUME Init PROVE DeviceIInv
  OBVIOUS
<1>1. <<>> \in Seq(Screens) /\ Len(<<>>) = 0 /\ 2..0 = {}
  OBVIOUS
<1>2. DeviceTypes
  <2>1. rtc \in [magic : BOOLEAN, target : Targets] /\ boot \in [silent : BOOLEAN, target : Targets]
    BY DEF Init, Unread, Targets
  <2>2. stack \in Seq(Screens) /\ Len(stack) <= 3
    BY <1>1 DEF Init
  <2> QED
    BY <2>1, <2>2, FreshType DEF Init, DeviceTypes, Flows, Targets
<1>3. StackShape
  BY <1>1 DEF Init, StackShape, Running
<1>4. StateKept /\ BootRecord /\ CrashBound /\ DueKept
  BY DEF Init, StateKept, BootRecord, CrashBound, DueKept, Running, Unread, Fresh
<1> QED
  BY <1>2, <1>3, <1>4 DEF DeviceIInv

LEMMA DeviceStep == DeviceIInv /\ Latched /\ [Next]_vars => DeviceIInv'
<1> SUFFICES ASSUME DeviceIInv, Latched, [Next]_vars PROVE DeviceIInv'
  OBVIOUS
<1>1. CASE UNCHANGED vars
  <2>1. UNCHANGED <<flow, cause, card, dirty, rtc, boot, app, stack, hint, deepSleepInProgress, touch,
                    due, crashes>>
    BY <1>1, Zenon DEF vars, deviceVars
  <2>2. DeviceTypes' /\ StackShape' /\ StateKept' /\ BootRecord'
    BY <2>1 DEF DeviceIInv, DeviceTypes, StackShape, StateKept, BootRecord, Bottom
  <2>3. CrashBound' /\ DueKept'
    BY <2>1 DEF DeviceIInv, CrashBound, DueKept, LeadsTo, Resuming, Top
  <2> QED
    BY <2>2, <2>3 DEF DeviceIInv
<1>2. CASE Next
  BY <1>2, BootStep, NoCardStep, AsleepStep, RouteStep, NavigateStep, PushStep, PopStep, RestartStep,
     OpenStep, SavedStep, UpdateStep, PlainRestartStep, SleepBeginsStep, SleepExitsStep,
     SleepPreemptedStep, WakeUpStep, CrashStep, PowerLossStep, Zenon DEF Next
<1> QED
  BY <1>1, <1>2

LEMMA DeviceInvariant == Spec => []DeviceIInv
<1>1. Init => Latched
  BY DEF Init, Latched
<1> QED
  BY <1>1, DeviceInit, DeviceStep, LatchedStep, PTL DEF Spec

(* The device keeps to the types of its state, the update included. *)
THEOREM DeviceTypeCorrect == Spec => []TypeOK
<1>1. FlashTypeOK /\ DeviceIInv => TypeOK
  BY TypesSplit DEF DeviceIInv
<1>2. FlashSpec => []FlashTypeOK
  BY FlashTypeCorrect
<1> QED
  BY <1>1, <1>2, DeviceFlashes, DeviceInvariant, PTL

(* A restart, or a sleep, brings the user back to where they left, as LandsWhereDue says: by
   the words in RTC memory, or by the state that was saved before them. *)
THEOREM LandsSafe == Spec => []LandsWhereDue
<1>1. DeviceIInv => LandsWhereDue
  BY DEF DeviceIInv, DueKept, LandsWhereDue
<1> QED
  BY <1>1, DeviceInvariant, PTL

(* However it is used and reset, the device is crashed at most twice by a book that nobody
   touched since it opened. *)
THEOREM BootLoopSafe == Spec => []NoBootLoop
<1>1. DeviceIInv => NoBootLoop
  BY DEF DeviceIInv, CrashBound, NoBootLoop
<1> QED
  BY <1>1, DeviceInvariant, PTL

=============================================================================
