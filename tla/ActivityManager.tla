--------------------------- MODULE ActivityManager ---------------------------
(***************************************************************************)
(* src/src/activities/ActivityManager.{h,cpp}: the owner of the screens    *)
(* ("activities") of the firmware, and the two FreeRTOS tasks that meet in *)
(* it.                                                                     *)
(*                                                                         *)
(*   main task    Arduino setup() and loop(): runs the code of the current *)
(*                activity and carries out the navigation it asked for     *)
(*   render task  renderTaskLoop(): waits for a task notification, takes   *)
(*                renderingMutex and draws the current activity            *)
(*                                                                         *)
(* An element of Activities is an activity OBJECT; destroying it frees the *)
(* element for another object. Each task is a program counter (mainPc,     *)
(* renderPc) and the steps are cut where the other task can come between:  *)
(* at the mutex, at a task notification, at the critical sections and at   *)
(* every access to a variable both tasks use.                              *)
(*                                                                         *)
(* ulTaskNotifyTake(pdTRUE, ...) clears the whole count, so a notification *)
(* count is a Boolean here.                                                *)
(***************************************************************************)
EXTENDS Naturals, Sequences

CONSTANTS
    Activities,      \* activity objects (their storage)
    None,            \* the null pointer
    LaunchKinds,     \* kinds of activity that activity code launches
    MaxOps           \* BOUND: calls of activity code into the manager per loop()

(* What an activity is, as far as the manager can tell: its isHomeActivity(),
   requiresExclusiveStorageLoop() and handleHomeGesture() overrides and its
   name. "menu" overrides handleHomeGesture() with finish(); "panel" is the
   frontlight panel, which does so too; "boot" is the splash. *)
Kinds == {"boot", "home", "app", "menu", "panel", "usb", "sleep"}

ASSUME ActivitiesAssumption == None \notin Activities
ASSUME KindsAssumption == LaunchKinds \subseteq Kinds
ASSUME MaxOpsAssumption == MaxOps \in Nat

VARIABLES
    currentActivity,     \* unique_ptr currentActivity
    stackActivities,     \* vector stackActivities
    resultHandler,       \* Activity::resultHandler: the child it waits for
    pendingActivity,     \* unique_ptr pendingActivity
    pendingAction,       \* enum PendingAction
    kind,                \* what each object is; "destroyed" before and after its life
    renderingMutex,      \* holder of the FreeRTOS mutex
    renderNotified,      \* notification count of the render task is not 0
    mainNotified,        \* notification count of the main task is not 0
    waitingTaskHandle,   \* TRUE: the main task; FALSE: nullptr
    requestedUpdate,     \* atomic<bool> requestedUpdate
    mainPc, mainWait,    \* main task, and its progress in requestUpdateAndWait()
    renderPc,
    renderTarget,        \* the object render() is running on
    goingToSleep,        \* loop() was called by goToSleep()
    inverted,            \* display.setInverted()
    ops,                 \* calls left to activity code in this loop()
    unseen               \* history: what changed since the last render() began

ownVars    == <<currentActivity, stackActivities, resultHandler>>
pendVars   == <<pendingActivity, pendingAction, kind>>
waitVars   == <<mainNotified, waitingTaskHandle, mainWait>>
renderVars == <<renderPc, renderTarget>>
sceneVars  == <<goingToSleep, inverted, unseen>>
navVars     == <<ownVars, pendVars>>
requestVars == <<renderNotified, requestedUpdate>>
syncVars    == <<renderingMutex, requestVars, waitVars, renderVars>>
vars == <<navVars, syncVars, mainPc, sceneVars, ops>>

Pointer == Activities \cup {None}

(* onEnter(), loop() and result handlers are activity code: the main task runs
   them without the lock. A counter that ends in "Setup" returns to setup(). *)
InitPcs     == {"init", "initSetup"}
ActivityPcs == {"enter", "enterSetup", "loop", "exclusive", "handler"}
MainPcs     == ActivityPcs \cup InitPcs \cup
               {"setup", "out", "loopTop", "drain", "popping", "launching", "goHome",
                "finish", "sleeping"}
RenderPcs   == {"idle", "wantLock", "render", "epilogue", "wake", "release"}

TypeOK ==
    /\ currentActivity \in Pointer
    /\ stackActivities \in Seq(Activities)
    /\ resultHandler \in [Activities -> Pointer]
    /\ pendingActivity \in Pointer
    /\ pendingAction \in {"None", "Push", "Pop", "Replace"}
    /\ kind \in [Activities -> Kinds \cup {"destroyed"}]
    /\ renderingMutex \in {"free", "main", "render"}
    /\ renderNotified \in BOOLEAN
    /\ requestedUpdate \in BOOLEAN
    /\ mainNotified \in BOOLEAN
    /\ waitingTaskHandle \in BOOLEAN
    /\ mainWait \in {"no", "registered", "asleep"}
    /\ mainPc \in MainPcs
    /\ renderPc \in RenderPcs
    /\ renderTarget \in Pointer
    /\ goingToSleep \in BOOLEAN
    /\ inverted \in BOOLEAN
    /\ unseen \subseteq {"locked", "unlocked", "uncovered"}
    /\ ops \in 0..MaxOps

Init ==
    /\ currentActivity = None /\ stackActivities = <<>>
    /\ resultHandler = [a \in Activities |-> None]
    /\ pendingActivity = None /\ pendingAction = "None"
    /\ kind = [a \in Activities |-> "destroyed"]
    /\ renderingMutex = "free"
    /\ renderNotified = FALSE /\ requestedUpdate = FALSE
    /\ mainNotified = FALSE /\ waitingTaskHandle = FALSE /\ mainWait = "no"
    /\ mainPc = "setup"
    /\ renderPc = "idle" /\ renderTarget = None
    /\ goingToSleep = FALSE /\ inverted = FALSE /\ unseen = {}
    /\ ops = MaxOps

-----------------------------------------------------------------------------
(* Helpers. *)

Dead == {a \in Activities : kind[a] = "destroyed"}

(* kind after make_unique<...Activity>() created a. *)
With(f, a, k) == [f EXCEPT ![a] = k]
(* kind after the owners of the objects in S were reset() or assigned to. *)
Without(f, S) == [a \in Activities |-> IF a \in S THEN "destroyed" ELSE f[a]]
(* resultHandler lives in the object and goes with it. *)
HandlersWithout(S) == [a \in Activities |-> IF a \in S THEN None ELSE resultHandler[a]]

(* The main task runs activity code, is not blocked in requestUpdateAndWait()
   and may still make a call. The splash and the sleep screen only draw. *)
Calling(pcs) == /\ mainPc \in pcs /\ mainWait = "no" /\ ops > 0
                /\ kind[currentActivity] \notin {"boot", "sleep"}
Spend == ops' = ops - 1

(* requestUpdate(): a notification now, or deferred to the end of loop(). *)
RequestUpdate(immediate) ==
    IF immediate
    THEN renderNotified' = TRUE /\ UNCHANGED requestedUpdate
    ELSE requestedUpdate' = TRUE /\ UNCHANGED renderNotified

(* The drain loop leaves the critical region and goes on at program counter pc. *)
UnlockAnd(pc) == renderingMutex' = "free" /\ mainPc' = pc

(* loop() returns to main.cpp, or to goToSleep(). *)
LoopReturns == mainPc' = IF goingToSleep THEN "sleeping" ELSE "out"

-----------------------------------------------------------------------------
(* Navigation requests: they only record what the end of loop() carries out. *)

(* replaceActivity() while there is a current activity. An assignment to
   pendingActivity destroys the activity that was already pending. *)
DeferReplace(a, k) ==
    /\ a \in Dead
    /\ kind' = With(Without(kind, {pendingActivity}), a, k)
    /\ pendingActivity' = a
    /\ pendingAction' = "Replace"

PushActivity(a, k) ==
    /\ a \in Dead
    /\ kind' = With(Without(kind, {pendingActivity}), a, k)
    /\ pendingActivity' = a
    /\ pendingAction' = "Push"

(* Mutant: the pending activity is not reset. *)
PopActivityKeepsPending ==
    /\ pendingAction' = "Pop"
    /\ UNCHANGED <<pendingActivity, kind>>

(* popActivity(), the body of finish(). *)
PopActivity ==
    /\ kind' = Without(kind, {pendingActivity})
    /\ pendingActivity' = None
    /\ pendingAction' = "Pop"

(* replaceActivity() with no current activity: the launch is immediate and
   nothing is locked; onEnter() comes next, at program counter next. *)
LaunchNow(a, k, next) ==
    /\ a \in Dead
    /\ currentActivity' = a
    /\ kind' = With(kind, a, k)
    /\ mainPc' = next
    /\ UNCHANGED <<stackActivities, resultHandler, pendingActivity, pendingAction>>

-----------------------------------------------------------------------------
(* What activity code does, in onEnter(), loop() or a result handler. *)

(* RenderLock lock; ... *)
TakeLock ==
    /\ Calling(ActivityPcs) /\ Spend
    /\ renderingMutex = "free"
    /\ renderingMutex' = "main"
    /\ UNCHANGED <<navVars, requestVars, waitVars, mainPc, renderVars, sceneVars>>

(* ... state that render() reads is written, and the lock goes out of scope or
   is unlock()ed. *)
WriteAndUnlock ==
    /\ mainPc \in ActivityPcs
    /\ renderingMutex = "main"
    /\ renderingMutex' = "free"
    /\ unseen' = unseen \cup {"locked"}
    /\ UNCHANGED <<navVars, requestVars, waitVars, mainPc, renderVars, goingToSleep, inverted, ops>>

(* State written without the lock, as AO3SyncActivity does. *)
WriteUnlocked ==
    /\ Calling(ActivityPcs) /\ Spend
    /\ unseen' = unseen \cup {"unlocked"}
    /\ UNCHANGED <<navVars, syncVars, mainPc, goingToSleep, inverted>>

RequestFromActivity ==
    /\ Calling(ActivityPcs) /\ Spend
    /\ \E immediate \in BOOLEAN : RequestUpdate(immediate)
    /\ UNCHANGED <<navVars, renderingMutex, waitVars, mainPc, renderVars, sceneVars>>

(* The USB and frontlight activities do not open others. *)
Navigating(pcs) == Calling(pcs) /\ kind[currentActivity] \notin {"usb", "panel"}

(* startActivityForResult(): the handler for the child is recorded in the caller
   and the child is pushed. *)
StartActivityForResult ==
    /\ Navigating({"loop", "handler", "enter"}) /\ Spend
    /\ \E a \in Dead, k \in LaunchKinds :
         /\ PushActivity(a, k)
         /\ resultHandler' = [resultHandler EXCEPT ![currentActivity] = a]
    /\ UNCHANGED <<currentActivity, stackActivities, syncVars, mainPc, sceneVars>>

(* finish(). A reader whose book is missing calls it from onEnter(), also when
   setup() launched it. *)
Finish ==
    /\ Calling(ActivityPcs \ {"exclusive"}) /\ Spend
    /\ kind[currentActivity] # "usb"
    /\ PopActivity
    /\ UNCHANGED <<ownVars, syncVars, mainPc, sceneVars>>

(* goHome() and the other goTo...() wrappers of replaceActivity(). *)
GoTo ==
    /\ Navigating({"loop", "handler", "enter"}) /\ Spend
    /\ \E a \in Dead, k \in LaunchKinds \cup {"home"} : DeferReplace(a, k)
    /\ UNCHANGED <<ownVars, syncVars, mainPc, sceneVars>>

(* requestUpdateAndWait(). The critical section registers the caller; of its three
   asserts, two are the caller's duty and are guards here: the main task is not
   the render task and holds no lock. WaitAsserts shows that the third, that
   nobody is waiting already, never fires. *)
WaitRegister ==
    /\ renderingMutex # "main"
    /\ waitingTaskHandle' = TRUE
    /\ mainWait' = "registered"
    /\ UNCHANGED <<navVars, renderingMutex, requestVars, mainNotified, mainPc, renderVars,
                   sceneVars>>

WaitFromActivity == Calling(ActivityPcs) /\ Spend /\ WaitRegister

(* Mutant: no notification while a render is under way. *)
WaitNotifyUnlessBusy ==
    /\ mainWait = "registered"
    /\ renderNotified' = (renderNotified \/ renderPc = "idle")
    /\ mainWait' = "asleep"
    /\ UNCHANGED <<navVars, renderingMutex, mainNotified, waitingTaskHandle, requestedUpdate,
                   mainPc, renderVars, sceneVars, ops>>

(* xTaskNotify(renderTaskHandle, ...) *)
WaitNotify ==
    /\ mainWait = "registered"
    /\ renderNotified' = TRUE
    /\ mainWait' = "asleep"
    /\ UNCHANGED <<navVars, renderingMutex, mainNotified, waitingTaskHandle, requestedUpdate,
                   mainPc, renderVars, sceneVars, ops>>

(* ulTaskNotifyTake(pdTRUE, portMAX_DELAY) returns. *)
WaitReturn ==
    /\ mainWait = "asleep"
    /\ mainNotified
    /\ mainNotified' = FALSE
    /\ mainWait' = "no"
    /\ UNCHANGED <<navVars, renderingMutex, requestVars, waitingTaskHandle, mainPc, renderVars,
                   sceneVars, ops>>

(* The first statements of onEnter() set up the state render() reads, and hold no
   lock; SleepActivity forces the normal polarity here and draws by itself. *)
OnEnter ==
    /\ mainPc \in InitPcs
    /\ mainPc' = IF mainPc = "init" THEN "enter" ELSE "enterSetup"
    /\ unseen' = unseen \cup {"unlocked"}
    /\ inverted' = (inverted /\ kind[currentActivity] # "sleep")
    /\ UNCHANGED <<navVars, syncVars, goingToSleep, ops>>

-----------------------------------------------------------------------------
(* main.cpp, setup(): the first activity is launched at once; the target that
   follows the splash is deferred; a silent restart shows no splash and waits for
   the first paint. *)

SetupLaunch ==
    /\ mainPc = "setup"
    /\ currentActivity = None
    /\ \E a \in Dead, k \in {"boot", "app", "home"} : LaunchNow(a, k, "initSetup")
    /\ UNCHANGED <<syncVars, sceneVars, ops>>

SetupReplace ==
    /\ mainPc = "setup"
    /\ currentActivity # None /\ kind[currentActivity] = "boot"
    /\ pendingAction = "None"
    /\ \E a \in Dead, k \in {"app", "home"} : DeferReplace(a, k)
    /\ UNCHANGED <<ownVars, syncVars, mainPc, sceneVars, ops>>

SetupWait == currentActivity # None /\ Calling({"setup"}) /\ Spend /\ WaitRegister

SetupReturn ==
    /\ mainPc = "setup" /\ mainWait = "no"
    /\ currentActivity # None
    /\ kind[currentActivity] = "boot" => pendingAction = "Replace"
    /\ mainPc' = "out"
    /\ UNCHANGED <<navVars, syncVars, sceneVars, ops>>

(* main.cpp, loop(): what it does around activityManager.loop(). Nothing but
   that call happens while the current activity owns the raw storage. *)

RequiresExclusiveStorageLoop == kind[currentActivity] = "usb"

(* A USB plug event asks for a repaint. *)
UsbStateChanged ==
    /\ mainPc = "out" /\ ~RequiresExclusiveStorageLoop
    /\ RequestUpdate(FALSE)
    /\ UNCHANGED <<navVars, renderingMutex, waitVars, mainPc, renderVars, sceneVars, ops>>

(* The power button shortcut to Ao3ReceiveActivity. *)
Shortcut ==
    /\ mainPc = "out" /\ ~RequiresExclusiveStorageLoop
    /\ \E a \in Dead : DeferReplace(a, "app")
    /\ UNCHANGED <<ownVars, syncVars, mainPc, sceneVars, ops>>

BeginLoop ==
    /\ mainPc = "out"
    /\ mainPc' = "loopTop"
    /\ ops' = MaxOps
    /\ UNCHANGED <<navVars, syncVars, sceneVars>>

(* enterDeepSleep(): goToSleep() replaces the current activity by SleepActivity
   and calls loop() itself; the wake that follows the sleep is a chip reset. *)
GoToSleep ==
    /\ mainPc = "out" /\ ~RequiresExclusiveStorageLoop
    /\ \E a \in Dead : DeferReplace(a, "sleep")
    /\ goingToSleep' = TRUE
    /\ mainPc' = "loopTop"
    /\ ops' = MaxOps
    /\ UNCHANGED <<ownVars, syncVars, inverted, unseen>>

(* Deep sleep, or ESP.restart() by activity code; onExit() may restart under the
   lock. *)
Restart ==
    /\ mainPc \in ActivityPcs \cup {"popping", "launching", "sleeping"}
    /\ mainWait = "no"
    /\ currentActivity' = None /\ stackActivities' = <<>>
    /\ resultHandler' = HandlersWithout(Activities)
    /\ pendingActivity' = None /\ pendingAction' = "None"
    /\ kind' = Without(kind, Activities)
    /\ renderingMutex' = "free"
    /\ renderNotified' = FALSE /\ requestedUpdate' = FALSE
    /\ mainNotified' = FALSE /\ waitingTaskHandle' = FALSE /\ mainWait' = "no"
    /\ mainPc' = "setup"
    /\ renderPc' = "idle" /\ renderTarget' = None
    /\ goingToSleep' = FALSE /\ inverted' = FALSE /\ unseen' = {}
    /\ ops' = MaxOps

-----------------------------------------------------------------------------
(* ActivityManager::loop(), up to the drain loop. *)

(* Mutant: the early branch for an exclusive activity is missing. *)
LoopTopOfAny == mainPc = "loopTop"

LoopTop == mainPc = "loopTop" /\ ~RequiresExclusiveStorageLoop

Unchanged_Loop == UNCHANGED <<ownVars, syncVars, sceneVars, ops>>

(* consumeSuppressedRelease() *)
Suppressed ==
    /\ mainPc = "loopTop"
    /\ LoopReturns
    /\ UNCHANGED pendVars /\ Unchanged_Loop

RunExclusive ==
    /\ mainPc = "loopTop" /\ RequiresExclusiveStorageLoop
    /\ mainPc' = "exclusive"
    /\ UNCHANGED pendVars /\ Unchanged_Loop

HomeGesture ==
    /\ LoopTop
    /\ kind[currentActivity] # "home"
    /\ \/ kind[currentActivity] \in {"menu", "panel"} /\ PopActivity
       \/ kind[currentActivity] \notin {"menu", "panel"} /\ \E a \in Dead : DeferReplace(a, "home")
    /\ LoopReturns
    /\ Unchanged_Loop

PanelGesture ==
    /\ LoopTop
    /\ kind[currentActivity] # "panel"
    /\ \E a \in Dead : PushActivity(a, "panel")
    /\ LoopReturns
    /\ Unchanged_Loop

RunLoop ==
    /\ LoopTop
    /\ mainPc' = "loop"
    /\ UNCHANGED pendVars /\ Unchanged_Loop

-----------------------------------------------------------------------------
(* Activity code returns. *)

Returning(pc) == mainPc = pc /\ mainWait = "no" /\ renderingMutex # "main"

Unchanged_Return == UNCHANGED <<navVars, renderingMutex, waitVars, renderVars, sceneVars, ops>>

(* requestedUpdate.exchange(false) and the notification. *)
FlushRequestedUpdate ==
    /\ requestedUpdate' = FALSE
    /\ renderNotified' = (renderNotified \/ requestedUpdate)

ReturnFromActivity ==
    /\ \/ \E pc \in {"loop", "enter"} : Returning(pc) /\ mainPc' = "drain"
       \/ Returning("enterSetup") /\ mainPc' = "setup"
    /\ UNCHANGED <<requestVars>> /\ Unchanged_Return

ReturnFromExclusive ==
    /\ Returning("exclusive")
    /\ FlushRequestedUpdate
    /\ LoopReturns
    /\ Unchanged_Return

(* Mutant: the popped activity is not drawn again after its handler ran. *)
ReturnFromHandlerQuietly ==
    /\ Returning("handler")
    /\ mainPc' = "drain"
    /\ UNCHANGED <<requestVars>> /\ Unchanged_Return

ReturnFromHandler ==
    /\ Returning("handler")
    /\ mainPc' = "drain"
    /\ requestedUpdate' = (requestedUpdate \/ pendingAction = "None")
    /\ UNCHANGED renderNotified /\ Unchanged_Return

-----------------------------------------------------------------------------
(* The drain loop: while (pendingAction != None). *)

Unchanged_Drain == UNCHANGED <<renderNotified, waitVars, renderVars, goingToSleep, inverted, ops>>

DrainDone ==
    /\ mainPc = "drain" /\ pendingAction = "None"
    /\ mainPc' = "finish"
    /\ UNCHANGED <<navVars, renderingMutex, requestedUpdate, unseen>> /\ Unchanged_Drain

(* RenderLock lock; in the two branches. *)
PopLock ==
    /\ mainPc = "drain" /\ pendingAction = "Pop"
    /\ renderingMutex = "free" /\ renderingMutex' = "main"
    /\ mainPc' = "popping"
    /\ UNCHANGED <<navVars, requestedUpdate, unseen>> /\ Unchanged_Drain

(* Mutant: the outgoing activity is destroyed without the lock. *)
LaunchUnlocked ==
    /\ mainPc = "drain" /\ pendingAction \in {"Push", "Replace"} /\ pendingActivity # None
    /\ renderingMutex' = "main"
    /\ mainPc' = "launching"
    /\ UNCHANGED <<navVars, requestedUpdate, unseen>> /\ Unchanged_Drain

LaunchLock ==
    /\ mainPc = "drain" /\ pendingAction \in {"Push", "Replace"} /\ pendingActivity # None
    /\ renderingMutex = "free" /\ renderingMutex' = "main"
    /\ mainPc' = "launching"
    /\ UNCHANGED <<navVars, requestedUpdate, unseen>> /\ Unchanged_Drain

(* exitActivity(): onExit() and reset(). *)
ExitActivities(S) ==
    /\ kind' = Without(kind, S)
    /\ resultHandler' = HandlersWithout(S)

(* Pop of the last activity; what it wrote needs no drawing any more. *)
PopLast ==
    /\ mainPc = "popping" /\ stackActivities = <<>>
    /\ ExitActivities({currentActivity})
    /\ currentActivity' = None
    /\ pendingAction' = "None"
    /\ UnlockAnd("goHome")
    /\ unseen' = {}
    /\ UNCHANGED <<stackActivities, pendingActivity, requestedUpdate>> /\ Unchanged_Drain

GoHomeNow ==
    /\ mainPc = "goHome"
    /\ \E a \in Dead : LaunchNow(a, "home", "init")
    /\ UNCHANGED <<syncVars, sceneVars, ops>>

(* Pop to the activity below; the handler it may have is taken out first. *)
Parent == stackActivities[Len(stackActivities)]

PopToParent(handler) ==
    /\ mainPc = "popping" /\ stackActivities # <<>>
    /\ kind' = Without(kind, {currentActivity})
    /\ resultHandler' = [HandlersWithout({currentActivity}) EXCEPT ![Parent] = handler]
    /\ currentActivity' = Parent
    /\ stackActivities' = SubSeq(stackActivities, 1, Len(stackActivities) - 1)
    /\ pendingAction' = "None"
    /\ unseen' = unseen \cup {"locked", "uncovered"}
    /\ UNCHANGED pendingActivity /\ Unchanged_Drain

PopSilently ==
    /\ PopToParent(None)
    /\ resultHandler[Parent] = None
    /\ requestedUpdate' = TRUE
    /\ UnlockAnd("drain")

(* Mutant: the handler is called but not cleared. *)
PopKeepingHandler ==
    /\ PopToParent(resultHandler[Parent])
    /\ resultHandler[Parent] # None
    /\ UnlockAnd("handler")
    /\ UNCHANGED requestedUpdate

PopToHandler ==
    /\ PopToParent(None)
    /\ resultHandler[Parent] # None
    /\ UnlockAnd("handler")
    /\ UNCHANGED requestedUpdate

(* Mutant: the current activity is exited on both branches, and its null pointer put
   on the stack. *)
LaunchPendingExitsFirst ==
    /\ mainPc = "launching"
    /\ \/ /\ pendingAction = "Replace"
          /\ ExitActivities({currentActivity} \cup {stackActivities[i] : i \in DOMAIN stackActivities})
          /\ stackActivities' = <<>>
       \/ /\ pendingAction = "Push"
          /\ ExitActivities({currentActivity})
          /\ stackActivities' = Append(stackActivities, None)
    /\ currentActivity' = pendingActivity
    /\ pendingActivity' = None
    /\ pendingAction' = "None"
    /\ UnlockAnd("init")
    /\ unseen' = (unseen \ {"uncovered"}) \cup {"locked"}
    /\ UNCHANGED requestedUpdate /\ Unchanged_Drain

(* Push, or Replace, of the pending activity. *)
LaunchPending ==
    /\ mainPc = "launching"
    /\ \/ /\ pendingAction = "Replace"
          /\ ExitActivities({currentActivity} \cup {stackActivities[i] : i \in DOMAIN stackActivities})
          /\ stackActivities' = <<>>
       \/ /\ pendingAction = "Push"
          /\ stackActivities' = Append(stackActivities, currentActivity)
          /\ UNCHANGED <<kind, resultHandler>>
    /\ currentActivity' = pendingActivity
    /\ pendingActivity' = None
    /\ pendingAction' = "None"
    /\ UnlockAnd("init")
    /\ unseen' = (unseen \ {"uncovered"}) \cup {"locked"}
    /\ UNCHANGED requestedUpdate /\ Unchanged_Drain

(* Mutant: the request is consumed but the render task is not told. *)
FinishWithoutNotification ==
    /\ mainPc = "finish"
    /\ requestedUpdate' = FALSE
    /\ LoopReturns
    /\ UNCHANGED renderNotified
    /\ UNCHANGED <<navVars, renderingMutex, waitVars, renderVars, sceneVars, ops>>

FinishLoop ==
    /\ mainPc = "finish"
    /\ FlushRequestedUpdate
    /\ LoopReturns
    /\ UNCHANGED <<navVars, renderingMutex, waitVars, renderVars, sceneVars, ops>>

-----------------------------------------------------------------------------
(* renderTaskLoop() *)

RenderRest == UNCHANGED <<navVars, mainPc, mainWait, goingToSleep, ops>>

(* ulTaskNotifyTake(pdTRUE, portMAX_DELAY) returns. *)
RenderWakes ==
    /\ renderPc = "idle" /\ renderNotified
    /\ renderNotified' = FALSE
    /\ renderPc' = "wantLock"
    /\ UNCHANGED <<renderingMutex, requestedUpdate, mainNotified, waitingTaskHandle,
                   renderTarget, inverted, unseen>>
    /\ RenderRest

(* RenderLock lock; and, if there is an activity, its render() begins. With night
   mode on, the polarity is set just before. *)
RenderLocks ==
    /\ renderPc = "wantLock"
    /\ renderingMutex = "free" /\ renderingMutex' = "render"
    /\ renderTarget' = currentActivity
    /\ \/ /\ currentActivity = None
          /\ renderPc' = "epilogue"
          /\ UNCHANGED <<inverted, unseen>>
       \/ /\ currentActivity # None
          /\ renderPc' = "render"
          /\ inverted' = TRUE
          /\ unseen' = {}
    /\ UNCHANGED <<requestVars, mainNotified, waitingTaskHandle>>
    /\ RenderRest

(* EpubReaderActivity and HomeActivity ask for another update from render(). *)
RenderRequestsUpdate ==
    /\ renderPc = "render"
    /\ kind[renderTarget] \in {"app", "home"}
    /\ RequestUpdate(FALSE)
    /\ UNCHANGED <<renderingMutex, mainNotified, waitingTaskHandle, renderVars, inverted, unseen>>
    /\ RenderRest

(* Mutant: render() takes the lock by value and gives it back when it returns. *)
RenderReturnsUnlocked ==
    /\ renderPc = "render"
    /\ renderPc' = "epilogue"
    /\ renderingMutex' = "free"
    /\ renderTarget' = None
    /\ UNCHANGED <<requestVars, mainNotified, waitingTaskHandle, inverted, unseen>>
    /\ RenderRest

RenderReturns ==
    /\ renderPc = "render"
    /\ renderPc' = "epilogue"
    /\ renderTarget' = None
    /\ UNCHANGED <<renderingMutex, requestVars, mainNotified, waitingTaskHandle, inverted, unseen>>
    /\ RenderRest

(* Mutant: the handle of the waiter is read and not cleared. *)
RenderKeepsWaiter ==
    /\ renderPc = "epilogue"
    /\ renderPc' = IF waitingTaskHandle THEN "wake" ELSE "release"
    /\ UNCHANGED <<renderingMutex, requestVars, mainNotified, waitingTaskHandle, renderTarget,
                   inverted, unseen>>
    /\ RenderRest

(* The critical section that takes the handle of the waiter. *)
RenderTakesWaiter ==
    /\ renderPc = "epilogue"
    /\ renderPc' = IF waitingTaskHandle THEN "wake" ELSE "release"
    /\ waitingTaskHandle' = FALSE
    /\ UNCHANGED <<renderingMutex, requestVars, mainNotified, renderTarget, inverted, unseen>>
    /\ RenderRest

RenderNotifiesWaiter ==
    /\ renderPc = "wake"
    /\ mainNotified' = TRUE
    /\ renderPc' = "release"
    /\ UNCHANGED <<renderingMutex, requestVars, waitingTaskHandle, renderTarget, inverted, unseen>>
    /\ RenderRest

(* ~RenderLock() at the end of the loop body. *)
RenderUnlocks ==
    /\ renderPc = "release"
    /\ renderPc' = "idle"
    /\ renderingMutex' = "free"
    /\ UNCHANGED <<requestVars, mainNotified, waitingTaskHandle, renderTarget, inverted, unseen>>
    /\ RenderRest

-----------------------------------------------------------------------------
(* What activity code and the user may do, and what the main task must go on to do. *)
ActivityChoice ==
    \/ TakeLock \/ WriteUnlocked \/ RequestFromActivity
    \/ StartActivityForResult \/ Finish \/ GoTo \/ WaitFromActivity

Environment ==
    \/ SetupReplace \/ SetupWait \/ UsbStateChanged \/ Shortcut \/ GoToSleep \/ Restart
    \/ Suppressed \/ HomeGesture \/ PanelGesture

RunActivity == RunLoop \/ RunExclusive

MainProgress ==
    \/ SetupLaunch \/ SetupReturn \/ BeginLoop \/ RunActivity
    \/ OnEnter \/ WriteAndUnlock \/ WaitNotify \/ WaitReturn
    \/ ReturnFromActivity \/ ReturnFromExclusive \/ ReturnFromHandler
    \/ DrainDone \/ PopLock \/ PopLast \/ GoHomeNow \/ PopSilently \/ PopToHandler
    \/ LaunchLock \/ LaunchPending \/ FinishLoop

RenderTask ==
    \/ RenderWakes \/ RenderLocks \/ RenderRequestsUpdate \/ RenderReturns
    \/ RenderTakesWaiter \/ RenderNotifiesWaiter \/ RenderUnlocks

Next == ActivityChoice \/ Environment \/ MainProgress \/ RenderTask

Spec == Init /\ [][Next]_vars

(* Both tasks have the same priority and are scheduled in turn; render() returns.
   The render task gets the lock although loop() may take it again and again:
   main.cpp delays or yields in every iteration, with the lock free. Gestures
   and suppressed releases are the user's and do not fill every iteration. *)
RenderProgress ==
    \/ RenderWakes \/ RenderReturns
    \/ RenderTakesWaiter \/ RenderNotifiesWaiter \/ RenderUnlocks

Fairness ==
    /\ WF_vars(MainProgress)
    /\ WF_vars(RenderProgress)
    /\ SF_vars(RenderLocks)
    /\ SF_vars(RunActivity)

FairSpec == Spec /\ Fairness

-----------------------------------------------------------------------------
(* Safety. *)

(* render() runs on an object that is alive and is still the current activity, whatever
   navigation the main task carries out meanwhile (the TOCTOU comment in
   renderTaskLoop()). *)
RenderTargetAlive ==
    renderPc = "render" => /\ renderTarget = currentActivity
                           /\ renderTarget # None
                           /\ kind[renderTarget] # "destroyed"

(* A pending Push or Replace always has its activity and a pending Pop has one to
   pop: otherwise `while (pendingAction != None)` of loop() would spin for ever, or
   take the branch marked "Should never happen in practice". *)
PendingConsistent ==
    /\ pendingActivity # None <=> pendingAction \in {"Push", "Replace"}
    /\ pendingAction # "None" => currentActivity # None

(* A covered activity waits for a result of the activity directly above it or of
   none, so no handler receives the result of another child; and whoever is given
   its loop() waits for none. *)
HandlerMatchesChild ==
    /\ \A i \in DOMAIN stackActivities :
         resultHandler[stackActivities[i]] \in
             {None, IF i = Len(stackActivities) THEN currentActivity ELSE stackActivities[i + 1]}
    /\ mainPc = "loopTop" => resultHandler[currentActivity] = None

(* The asserts of requestUpdateAndWait(): when the main task comes to wait, no wait
   is registered; and no late notification is left that would end its wait at
   once. *)
WaitAsserts == mainWait = "no" => ~waitingTaskHandle /\ ~mainNotified

(* A task blocked in requestUpdateAndWait() has its wake-up underway: sent, about
   to be sent, or owed by a render that will come to its epilogue. *)
NoLostWakeup ==
    mainWait = "asleep" =>
        \/ mainNotified
        \/ renderPc = "wake"
        \/ waitingTaskHandle /\ (renderNotified \/ renderPc \in {"wantLock", "render", "epilogue"})

(* requestUpdateAndWait() returns only after a render that began after every write
   made under the lock: a render in flight is not taken for the one awaited. *)
WaitShowsLockedWrites == [][WaitReturn => "locked" \notin unseen]_vars

(* Once an activity owns the raw storage, nothing but a restart replaces it. *)
UsbNeverLeft ==
    [][ (currentActivity # None /\ RequiresExclusiveStorageLoop
          /\ currentActivity' # currentActivity) => mainPc' = "setup" ]_vars

-----------------------------------------------------------------------------
(* The inductive invariant behind them (proved in ActivityManagerProofs). *)

OnStack == {stackActivities[i] : i \in DOMAIN stackActivities}

(* Every living object has one owner, as unique_ptr has it. *)
OneOwner ==
    /\ currentActivity # None => kind[currentActivity] # "destroyed" /\ currentActivity \notin OnStack
    /\ pendingActivity # None =>
         /\ kind[pendingActivity] # "destroyed"
         /\ pendingActivity # currentActivity /\ pendingActivity \notin OnStack
    /\ \A i \in DOMAIN stackActivities :
         /\ kind[stackActivities[i]] # "destroyed"
         /\ \A j \in DOMAIN stackActivities : stackActivities[i] = stackActivities[j] => i = j

(* Who may be where while the mutex is held, or while the main task waits. *)
LockDiscipline ==
    /\ renderingMutex = "render" <=> renderPc \in {"render", "epilogue", "wake", "release"}
    /\ mainPc \in {"popping", "launching"} => renderingMutex = "main"
    /\ mainWait # "no" => renderingMutex # "main" /\ mainPc \in ActivityPcs \cup {"setup"}

(* What loop() has established at each program counter. *)
MainWhere ==
    /\ mainPc \notin {"setup", "goHome"} => currentActivity # None
    /\ mainPc = "goHome" => currentActivity = None
    /\ currentActivity = None => stackActivities = <<>> /\ mainWait = "no"
    /\ mainPc = "popping" => pendingAction = "Pop"
    /\ mainPc = "launching" => pendingAction \in {"Push", "Replace"}

(* The wake-up of a waiting main task is in exactly one place. *)
OneWakeUp ==
    /\ ~(waitingTaskHandle /\ renderPc = "wake")
    /\ ~(waitingTaskHandle /\ mainNotified)
    /\ ~(mainNotified /\ renderPc = "wake")
    /\ mainWait = "no" <=> ~waitingTaskHandle /\ ~mainNotified /\ renderPc # "wake"

(* While render() or its epilogue holds the lock, and until the waiter it served
   goes on, everything written under the lock has been drawn. *)
LockedWritesDrawn ==
    /\ currentActivity = None => "locked" \notin unseen
    /\ renderingMutex = "render" \/ mainNotified => "locked" \notin unseen

(* A handler is registered only by a call that also leaves a request behind. *)
HandlerWithRequest ==
    /\ \A a \in Dead \cup ({pendingActivity} \ {None}) : resultHandler[a] = None
    /\ (currentActivity # None /\ resultHandler[currentActivity] # None) =>
         /\ mainPc \in {"loop", "handler", "enter", "drain", "popping", "launching"}
         /\ pendingAction # "None"
         /\ pendingAction = "Push" => pendingActivity = resultHandler[currentActivity]

(* No navigation is pending while the raw storage is handed out. *)
UsbQuiet ==
    (currentActivity # None /\ RequiresExclusiveStorageLoop) => pendingAction = "None"

IInv ==
    /\ TypeOK
    /\ OneOwner /\ LockDiscipline /\ MainWhere /\ OneWakeUp /\ LockedWritesDrawn
    /\ HandlerWithRequest /\ UsbQuiet
    /\ RenderTargetAlive /\ PendingConsistent /\ HandlerMatchesChild /\ NoLostWakeup

-----------------------------------------------------------------------------
(* Liveness, under FairSpec. *)

(* requestUpdateAndWait() returns. *)
WaitReturns == mainWait # "no" ~> mainWait = "no"

(* What an activity wrote under the lock before requestUpdate() is drawn, unless
   the activity leaves the screen, or the device goes to sleep, first. *)
RequestedIsDrawn ==
    \A a \in Activities :
        (requestedUpdate /\ "locked" \in unseen /\ currentActivity = a)
            ~> ("locked" \notin unseen \/ currentActivity # a \/ goingToSleep)

(* An activity uncovered by a pop is drawn again although it asks for nothing
   itself, unless it leaves the screen, or the device goes to sleep, first. *)
UncoveredIsDrawn ==
    \A a \in Activities :
        ("uncovered" \in unseen /\ currentActivity = a)
            ~> ("uncovered" \notin unseen \/ currentActivity # a \/ goingToSleep)

-----------------------------------------------------------------------------
(* What comments and documents say, and the code does not do; each is refuted by a
   run of its own. *)

(* ActivityManager.h:116, "Trigger a render and block until it completes.": when the
   wait ends, a render that began after the call has shown everything. *)
WaitShowsAllWrites == [][WaitReturn => unseen = {}]_vars

(* ActivityManager.cpp:295, "sleep screen must be rendered immediately, the caller
   will go to sleep right after this returns". *)
SleepScreenShown == mainPc = "sleeping" => kind[currentActivity] = "sleep"

(* SleepActivity.cpp, "Sleep screens always use normal polarity.", while it draws. *)
SleepPolarity ==
    (mainPc \in {"enter", "sleeping"} /\ kind[currentActivity] = "sleep") => ~inverted

=============================================================================
