----------------------- MODULE ActivityManagerProofs -----------------------
(***************************************************************************)
(* Proofs about ActivityManager, for any set of activity objects, any set  *)
(* of kinds to launch and any bound on calls.                              *)
(*                                                                         *)
(* IInv is inductive: one lemma per conjunct has a step for every action   *)
(* that writes a variable of that conjunct, and one for each group of      *)
(* actions that write none. The theorems at the end follow from it.        *)
(***************************************************************************)
EXTENDS ActivityManager, TLAPS

USE ActivitiesAssumption, KindsAssumption, MaxOpsAssumption

(* The initial state satisfies the inductive invariant. *)
LEMMA InitIInv == Init => IInv
<1> SUFFICES ASSUME Init PROVE IInv
  OBVIOUS
<1>1. TypeOK
  <2>1. /\ renderNotified \in BOOLEAN /\ requestedUpdate \in BOOLEAN
        /\ mainNotified \in BOOLEAN /\ waitingTaskHandle \in BOOLEAN
        /\ goingToSleep \in BOOLEAN /\ inverted \in BOOLEAN
    BY Zenon DEF Init
  <2> QED
    BY <2>1 DEF Init, TypeOK, Pointer, MainPcs, RenderPcs
<1>2. OneOwner /\ LockDiscipline /\ MainWhere /\ OneWakeUp /\ LockedWritesDrawn
  BY DEF Init, OneOwner, OnStack, LockDiscipline, MainWhere, OneWakeUp, LockedWritesDrawn
<1>3. HandlerWithRequest /\ UsbQuiet
  BY DEF Init, HandlerWithRequest, Dead, UsbQuiet
<1>4. RenderTargetAlive /\ PendingConsistent /\ HandlerMatchesChild /\ NoLostWakeup
  BY DEF Init, RenderTargetAlive, PendingConsistent, HandlerMatchesChild, NoLostWakeup
<1> QED
  BY <1>1, <1>2, <1>3, <1>4 DEF IInv

(* Every step keeps every variable in its type. *)
LEMMA TypeOKStep == IInv /\ [Next]_vars => TypeOK'
<1> SUFFICES ASSUME IInv, [Next]_vars PROVE TypeOK'
  OBVIOUS
<1>0. TypeOK /\ OneOwner /\ MainWhere
  BY DEF IInv
<1>1. CASE TakeLock
  BY <1>0, <1>1 DEF TakeLock, Calling, ActivityPcs, Spend, navVars, ownVars, pendVars,
      requestVars, waitVars, renderVars, sceneVars, TypeOK, Pointer, Kinds, MainPcs,
      InitPcs, RenderPcs, OneOwner, OnStack, MainWhere
<1>2. CASE WriteUnlocked
  BY <1>0, <1>2 DEF WriteUnlocked, Calling, ActivityPcs, Spend, navVars, ownVars, pendVars,
      syncVars, requestVars, waitVars, renderVars, TypeOK, Pointer, Kinds, MainPcs, InitPcs,
      RenderPcs, OneOwner, OnStack, MainWhere
<1>3. CASE RequestFromActivity
  <2>1. CASE RequestUpdate(TRUE)
    BY <1>0, <1>3, <2>1 DEF RequestFromActivity, Calling, ActivityPcs, Spend, RequestUpdate,
        navVars, ownVars, pendVars, waitVars, renderVars, sceneVars, TypeOK, Pointer, Kinds,
        MainPcs, InitPcs, RenderPcs
  <2>2. CASE RequestUpdate(FALSE)
    BY <1>0, <1>3, <2>2 DEF RequestFromActivity, Calling, ActivityPcs, Spend, RequestUpdate,
        navVars, ownVars, pendVars, waitVars, renderVars, sceneVars, TypeOK, Pointer, Kinds,
        MainPcs, InitPcs, RenderPcs
  <2> QED
    BY <1>3, <2>1, <2>2 DEF RequestFromActivity
<1>4. CASE StartActivityForResult
  BY <1>0, <1>4 DEF StartActivityForResult, Navigating, Calling, Spend, Dead, PushActivity,
      With, Without, syncVars, requestVars, waitVars, renderVars, sceneVars, TypeOK,
      Pointer, Kinds, MainPcs, ActivityPcs, InitPcs, RenderPcs, OneOwner, OnStack, MainWhere
<1>5. CASE Finish
  BY <1>0, <1>5 DEF Finish, Calling, ActivityPcs, Spend, PopActivity, Without, ownVars,
      syncVars, requestVars, waitVars, renderVars, sceneVars, TypeOK, Pointer, Kinds,
      MainPcs, InitPcs, RenderPcs, OneOwner, OnStack, MainWhere
<1>6. CASE GoTo
  BY <1>0, <1>6 DEF GoTo, Navigating, Calling, Spend, Dead, DeferReplace, With, Without,
      ownVars, syncVars, requestVars, waitVars, renderVars, sceneVars, TypeOK, Pointer,
      Kinds, MainPcs, ActivityPcs, InitPcs, RenderPcs, OneOwner, OnStack, MainWhere
<1>7. CASE WaitFromActivity
  BY <1>0, <1>7 DEF WaitFromActivity, Calling, ActivityPcs, Spend, WaitRegister, navVars,
      ownVars, pendVars, requestVars, renderVars, sceneVars, TypeOK, Pointer, Kinds,
      MainPcs, InitPcs, RenderPcs, OneOwner, OnStack, MainWhere
<1>8. CASE SetupWait
  BY <1>0, <1>8 DEF SetupWait, Calling, Spend, WaitRegister, navVars, ownVars, pendVars,
      requestVars, renderVars, sceneVars, TypeOK, Pointer, Kinds, MainPcs, ActivityPcs,
      InitPcs, RenderPcs, OneOwner, OnStack, MainWhere
<1>9. CASE SetupReplace
  BY <1>0, <1>9 DEF SetupReplace, Dead, DeferReplace, With, Without, ownVars, syncVars,
      requestVars, waitVars, renderVars, sceneVars, TypeOK, Pointer, Kinds, MainPcs,
      ActivityPcs, InitPcs, RenderPcs, OneOwner, OnStack, MainWhere
<1>10. CASE Shortcut
  BY <1>0, <1>10 DEF Shortcut, RequiresExclusiveStorageLoop, Dead, DeferReplace, With,
      Without, ownVars, syncVars, requestVars, waitVars, renderVars, sceneVars, TypeOK,
      Pointer, Kinds, MainPcs, ActivityPcs, InitPcs, RenderPcs, OneOwner, OnStack, MainWhere
<1>11. CASE UsbStateChanged
  BY <1>0, <1>11 DEF UsbStateChanged, RequiresExclusiveStorageLoop, RequestUpdate, navVars,
      ownVars, pendVars, waitVars, renderVars, sceneVars, TypeOK, Pointer, Kinds, MainPcs,
      ActivityPcs, InitPcs, RenderPcs, OneOwner, OnStack, MainWhere
<1>12. CASE RenderRequestsUpdate
  BY <1>0, <1>12 DEF RenderRequestsUpdate, RequestUpdate, renderVars, RenderRest, navVars,
      ownVars, pendVars, TypeOK, Pointer, Kinds, MainPcs, ActivityPcs, InitPcs, RenderPcs,
      OneOwner, OnStack, MainWhere
<1>13. CASE GoToSleep
  BY <1>0, <1>13 DEF GoToSleep, RequiresExclusiveStorageLoop, Dead, DeferReplace, With,
      Without, ownVars, syncVars, requestVars, waitVars, renderVars, TypeOK, Pointer, Kinds,
      MainPcs, ActivityPcs, InitPcs, RenderPcs, OneOwner, OnStack, MainWhere
<1>14. CASE Restart
  <2>1. renderNotified' \in BOOLEAN /\ requestedUpdate' \in BOOLEAN /\ mainNotified' \in
      BOOLEAN /\ waitingTaskHandle' \in BOOLEAN /\ goingToSleep' \in BOOLEAN /\ inverted'
      \in BOOLEAN
    BY <1>14, Zenon DEF Restart
  <2> QED
    BY <1>0, <1>14, <2>1 DEF Restart, ActivityPcs, HandlersWithout, Without, TypeOK, Pointer,
        Kinds, MainPcs, InitPcs, RenderPcs
<1>15. CASE Suppressed
  BY <1>0, <1>15 DEF Suppressed, LoopReturns, pendVars, Unchanged_Loop, ownVars, syncVars,
      requestVars, waitVars, renderVars, sceneVars, TypeOK, Pointer, Kinds, MainPcs,
      ActivityPcs, InitPcs, RenderPcs, OneOwner, OnStack, MainWhere
<1>16. CASE SetupReturn
  BY <1>0, <1>16 DEF SetupReturn, navVars, ownVars, pendVars, syncVars, requestVars,
      waitVars, renderVars, sceneVars, TypeOK, Pointer, Kinds, MainPcs, ActivityPcs,
      InitPcs, RenderPcs, OneOwner, OnStack, MainWhere
<1>17. CASE RunLoop
  BY <1>0, <1>17 DEF RunLoop, LoopTop, RequiresExclusiveStorageLoop, pendVars,
      Unchanged_Loop, ownVars, syncVars, requestVars, waitVars, renderVars, sceneVars,
      TypeOK, Pointer, Kinds, MainPcs, ActivityPcs, InitPcs, RenderPcs, OneOwner, OnStack,
      MainWhere
<1>18. CASE RunExclusive
  BY <1>0, <1>18 DEF RunExclusive, RequiresExclusiveStorageLoop, pendVars, Unchanged_Loop,
      ownVars, syncVars, requestVars, waitVars, renderVars, sceneVars, TypeOK, Pointer,
      Kinds, MainPcs, ActivityPcs, InitPcs, RenderPcs, OneOwner, OnStack, MainWhere
<1>19. CASE ReturnFromActivity
  BY <1>0, <1>19 DEF ReturnFromActivity, Returning, requestVars, Unchanged_Return, navVars,
      ownVars, pendVars, waitVars, renderVars, sceneVars, TypeOK, Pointer, Kinds, MainPcs,
      ActivityPcs, InitPcs, RenderPcs, OneOwner, OnStack, MainWhere
<1>20. CASE DrainDone
  BY <1>0, <1>20 DEF DrainDone, navVars, ownVars, pendVars, Unchanged_Drain, waitVars,
      renderVars, TypeOK, Pointer, Kinds, MainPcs, ActivityPcs, InitPcs, RenderPcs,
      OneOwner, OnStack, MainWhere
<1>21. CASE HomeGesture
  <2>1. CASE PopActivity
    BY <1>0, <1>21, <2>1 DEF HomeGesture, LoopTop, RequiresExclusiveStorageLoop, PopActivity,
        Without, Dead, DeferReplace, With, LoopReturns, Unchanged_Loop, ownVars, syncVars,
        requestVars, waitVars, renderVars, sceneVars, TypeOK, Pointer, Kinds, MainPcs,
        ActivityPcs, InitPcs, RenderPcs
  <2>2. CASE \E a \in Dead : DeferReplace(a, "home")
    BY <1>0, <1>21, <2>2 DEF HomeGesture, LoopTop, RequiresExclusiveStorageLoop, PopActivity,
        Without, Dead, DeferReplace, With, LoopReturns, Unchanged_Loop, ownVars, syncVars,
        requestVars, waitVars, renderVars, sceneVars, TypeOK, Pointer, Kinds, MainPcs,
        ActivityPcs, InitPcs, RenderPcs
  <2> QED
    BY <1>21, <2>1, <2>2 DEF HomeGesture
<1>22. CASE PanelGesture
  BY <1>0, <1>22 DEF PanelGesture, LoopTop, RequiresExclusiveStorageLoop, Dead,
      PushActivity, With, Without, LoopReturns, Unchanged_Loop, ownVars, syncVars,
      requestVars, waitVars, renderVars, sceneVars, TypeOK, Pointer, Kinds, MainPcs,
      ActivityPcs, InitPcs, RenderPcs, OneOwner, OnStack, MainWhere
<1>23. CASE SetupLaunch
  BY <1>0, <1>23 DEF SetupLaunch, Dead, LaunchNow, With, syncVars, requestVars, waitVars,
      renderVars, sceneVars, TypeOK, Pointer, Kinds, MainPcs, ActivityPcs, InitPcs,
      RenderPcs, OneOwner, OnStack, MainWhere
<1>24. CASE GoHomeNow
  BY <1>0, <1>24 DEF GoHomeNow, Dead, LaunchNow, With, syncVars, requestVars, waitVars,
      renderVars, sceneVars, TypeOK, Pointer, Kinds, MainPcs, ActivityPcs, InitPcs,
      RenderPcs, OneOwner, OnStack, MainWhere
<1>25. CASE BeginLoop
  BY <1>0, <1>25 DEF BeginLoop, navVars, ownVars, pendVars, syncVars, requestVars, waitVars,
      renderVars, sceneVars, TypeOK, Pointer, Kinds, MainPcs, ActivityPcs, InitPcs,
      RenderPcs, OneOwner, OnStack, MainWhere
<1>26. CASE OnEnter
  BY <1>0, <1>26 DEF OnEnter, InitPcs, navVars, ownVars, pendVars, syncVars, requestVars,
      waitVars, renderVars, TypeOK, Pointer, Kinds, MainPcs, ActivityPcs, RenderPcs,
      OneOwner, OnStack, MainWhere
<1>27. CASE WriteAndUnlock
  BY <1>0, <1>27 DEF WriteAndUnlock, ActivityPcs, navVars, ownVars, pendVars, requestVars,
      waitVars, renderVars, TypeOK, Pointer, Kinds, MainPcs, InitPcs, RenderPcs, OneOwner,
      OnStack, MainWhere
<1>28. CASE WaitNotify
  BY <1>0, <1>28 DEF WaitNotify, navVars, ownVars, pendVars, renderVars, sceneVars, TypeOK,
      Pointer, Kinds, MainPcs, ActivityPcs, InitPcs, RenderPcs, OneOwner, OnStack, MainWhere
<1>29. CASE WaitReturn
  <2>1. mainNotified' \in BOOLEAN
    BY <1>29, Zenon DEF WaitReturn
  <2> QED
    BY <1>0, <1>29, <2>1 DEF WaitReturn, navVars, ownVars, pendVars, requestVars, renderVars,
        sceneVars, TypeOK, Pointer, Kinds, MainPcs, ActivityPcs, InitPcs, RenderPcs
<1>30. CASE ReturnFromExclusive
  <2>1. requestedUpdate' \in BOOLEAN
    BY <1>30, Zenon DEF ReturnFromExclusive, FlushRequestedUpdate
  <2> QED
    BY <1>0, <1>30, <2>1 DEF ReturnFromExclusive, Returning, FlushRequestedUpdate,
        LoopReturns, Unchanged_Return, navVars, ownVars, pendVars, waitVars, renderVars,
        sceneVars, TypeOK, Pointer, Kinds, MainPcs, ActivityPcs, InitPcs, RenderPcs
<1>31. CASE ReturnFromHandler
  BY <1>0, <1>31 DEF ReturnFromHandler, Returning, Unchanged_Return, navVars, ownVars,
      pendVars, waitVars, renderVars, sceneVars, TypeOK, Pointer, Kinds, MainPcs,
      ActivityPcs, InitPcs, RenderPcs, OneOwner, OnStack, MainWhere
<1>32. CASE PopLock
  BY <1>0, <1>32 DEF PopLock, navVars, ownVars, pendVars, Unchanged_Drain, waitVars,
      renderVars, TypeOK, Pointer, Kinds, MainPcs, ActivityPcs, InitPcs, RenderPcs,
      OneOwner, OnStack, MainWhere
<1>33. CASE LaunchLock
  BY <1>0, <1>33 DEF LaunchLock, navVars, ownVars, pendVars, Unchanged_Drain, waitVars,
      renderVars, TypeOK, Pointer, Kinds, MainPcs, ActivityPcs, InitPcs, RenderPcs,
      OneOwner, OnStack, MainWhere
<1>34. CASE PopLast
  BY <1>0, <1>34 DEF PopLast, ExitActivities, Without, HandlersWithout, UnlockAnd,
      Unchanged_Drain, waitVars, renderVars, TypeOK, Pointer, Kinds, MainPcs, ActivityPcs,
      InitPcs, RenderPcs, OneOwner, OnStack, MainWhere
<1>35. CASE PopSilently
  BY <1>0, <1>35 DEF PopSilently, PopToParent, Without, HandlersWithout, Parent,
      Unchanged_Drain, waitVars, renderVars, UnlockAnd, TypeOK, Pointer, Kinds, MainPcs,
      ActivityPcs, InitPcs, RenderPcs, OneOwner, OnStack, MainWhere
<1>36. CASE PopToHandler
  BY <1>0, <1>36 DEF PopToHandler, PopToParent, Without, HandlersWithout, Parent,
      Unchanged_Drain, waitVars, renderVars, UnlockAnd, TypeOK, Pointer, Kinds, MainPcs,
      ActivityPcs, InitPcs, RenderPcs, OneOwner, OnStack, MainWhere
<1>37. CASE LaunchPending
  <2>1. CASE pendingAction = "Replace"
    BY <1>0, <1>37, <2>1 DEF LaunchPending, ExitActivities, Without, HandlersWithout,
        UnlockAnd, Unchanged_Drain, waitVars, renderVars, TypeOK, Pointer, Kinds, MainPcs,
        ActivityPcs, InitPcs, RenderPcs, MainWhere
  <2>2. CASE pendingAction = "Push"
    BY <1>0, <1>37, <2>2 DEF LaunchPending, ExitActivities, Without, HandlersWithout,
        UnlockAnd, Unchanged_Drain, waitVars, renderVars, TypeOK, Pointer, Kinds, MainPcs,
        ActivityPcs, InitPcs, RenderPcs, MainWhere
  <2> QED
    BY <1>37, <2>1, <2>2 DEF LaunchPending
<1>38. CASE FinishLoop
  <2>1. requestedUpdate' \in BOOLEAN
    BY <1>38, Zenon DEF FinishLoop, FlushRequestedUpdate
  <2> QED
    BY <1>0, <1>38, <2>1 DEF FinishLoop, FlushRequestedUpdate, LoopReturns, navVars, ownVars,
        pendVars, waitVars, renderVars, sceneVars, TypeOK, Pointer, Kinds, MainPcs,
        ActivityPcs, InitPcs, RenderPcs
<1>39. CASE RenderWakes
  <2>1. renderNotified' \in BOOLEAN
    BY <1>39, Zenon DEF RenderWakes
  <2> QED
    BY <1>0, <1>39, <2>1 DEF RenderWakes, RenderRest, navVars, ownVars, pendVars, TypeOK,
        Pointer, Kinds, MainPcs, ActivityPcs, InitPcs, RenderPcs
<1>40. CASE RenderLocks
  <2>1. inverted' \in BOOLEAN
    BY <1>0, <1>40, Zenon DEF RenderLocks, TypeOK
  <2>2. unseen' \subseteq {"locked", "unlocked", "uncovered"}
    BY <1>0, <1>40 DEF RenderLocks, TypeOK
  <2>3. renderPc' \in RenderPcs
    BY <1>0, <1>40 DEF RenderLocks, TypeOK, RenderPcs
  <2>4. renderTarget' \in Pointer /\ renderingMutex' \in {"free", "main", "render"}
    BY <1>0, <1>40 DEF RenderLocks, TypeOK
  <2>5. /\ renderNotified' \in BOOLEAN /\ requestedUpdate' \in BOOLEAN
        /\ mainNotified' \in BOOLEAN /\ waitingTaskHandle' \in BOOLEAN
    BY <1>0, <1>40 DEF RenderLocks, TypeOK, requestVars
  <2> QED
    BY <1>0, <1>40, <2>1, <2>2, <2>3, <2>4, <2>5
        DEF RenderLocks, RenderRest, navVars, ownVars, pendVars, requestVars, TypeOK
<1>41. CASE RenderReturns
  BY <1>0, <1>41 DEF RenderReturns, requestVars, RenderRest, navVars, ownVars, pendVars,
      TypeOK, Pointer, Kinds, MainPcs, ActivityPcs, InitPcs, RenderPcs, OneOwner, OnStack,
      MainWhere
<1>42. CASE RenderTakesWaiter
  <2>1. waitingTaskHandle' \in BOOLEAN
    BY <1>42, Zenon DEF RenderTakesWaiter
  <2> QED
    BY <1>0, <1>42, <2>1 DEF RenderTakesWaiter, requestVars, RenderRest, navVars, ownVars,
        pendVars, TypeOK, Pointer, Kinds, MainPcs, ActivityPcs, InitPcs, RenderPcs
<1>43. CASE RenderNotifiesWaiter
  BY <1>0, <1>43 DEF RenderNotifiesWaiter, requestVars, RenderRest, navVars, ownVars,
      pendVars, TypeOK, Pointer, Kinds, MainPcs, ActivityPcs, InitPcs, RenderPcs, OneOwner,
      OnStack, MainWhere
<1>44. CASE RenderUnlocks
  BY <1>0, <1>44 DEF RenderUnlocks, requestVars, RenderRest, navVars, ownVars, pendVars,
      TypeOK, Pointer, Kinds, MainPcs, ActivityPcs, InitPcs, RenderPcs, OneOwner, OnStack,
      MainWhere
<1>45. CASE UNCHANGED vars
  BY <1>0, <1>45 DEF vars, navVars, syncVars, ownVars, pendVars, requestVars, waitVars,
      renderVars, sceneVars, TypeOK, Pointer, Kinds, MainPcs, ActivityPcs, InitPcs,
      RenderPcs
<1> QED
  BY <1>1, <1>2, <1>3, <1>4, <1>5, <1>6, <1>7, <1>8, <1>9, <1>10, <1>11, <1>12, <1>13,
      <1>14, <1>15, <1>16, <1>17, <1>18, <1>19, <1>20, <1>21, <1>22, <1>23, <1>24, <1>25,
      <1>26, <1>27, <1>28, <1>29, <1>30, <1>31, <1>32, <1>33, <1>34, <1>35, <1>36, <1>37,
      <1>38, <1>39, <1>40, <1>41, <1>42, <1>43, <1>44, <1>45 DEF Next, ActivityChoice,
      Environment, MainProgress, RunActivity, RenderTask

(* Every step leaves each living object with one owner: a fresh object was not owned,
   and an assignment to a unique_ptr destroys what it owned. *)
LEMMA OneOwnerStep == IInv /\ [Next]_vars => OneOwner'
<1> SUFFICES ASSUME IInv, [Next]_vars PROVE OneOwner'
  OBVIOUS
<1>0. TypeOK /\ OneOwner /\ MainWhere /\ PendingConsistent
  BY DEF IInv
<1>1. CASE StartActivityForResult
  BY <1>0, <1>1 DEF StartActivityForResult, Navigating, Calling, Spend, Dead, PushActivity,
      With, Without, syncVars, requestVars, waitVars, renderVars, sceneVars, TypeOK,
      Pointer, OneOwner, OnStack, MainWhere, PendingConsistent, Kinds
<1>2. CASE Finish
  BY <1>0, <1>2 DEF Finish, Calling, ActivityPcs, Spend, PopActivity, Without, ownVars,
      syncVars, requestVars, waitVars, renderVars, sceneVars, TypeOK, Pointer, OneOwner,
      OnStack, MainWhere, PendingConsistent
<1>3. CASE GoTo
  BY <1>0, <1>3 DEF GoTo, Navigating, Calling, Spend, Dead, DeferReplace, With, Without,
      ownVars, syncVars, requestVars, waitVars, renderVars, sceneVars, TypeOK, Pointer,
      OneOwner, OnStack, MainWhere, PendingConsistent, Kinds
<1>4. CASE SetupReplace
  BY <1>0, <1>4 DEF SetupReplace, Dead, DeferReplace, With, Without, ownVars, syncVars,
      requestVars, waitVars, renderVars, sceneVars, TypeOK, Pointer, OneOwner, OnStack,
      MainWhere, PendingConsistent
<1>5. CASE Shortcut
  BY <1>0, <1>5 DEF Shortcut, RequiresExclusiveStorageLoop, Dead, DeferReplace, With,
      Without, ownVars, syncVars, requestVars, waitVars, renderVars, sceneVars, TypeOK,
      Pointer, OneOwner, OnStack, MainWhere, PendingConsistent
<1>6. CASE GoToSleep
  BY <1>0, <1>6 DEF GoToSleep, RequiresExclusiveStorageLoop, Dead, DeferReplace, With,
      Without, ownVars, syncVars, requestVars, waitVars, renderVars, TypeOK, Pointer,
      OneOwner, OnStack, MainWhere, PendingConsistent
<1>7. CASE Restart
  BY <1>0, <1>7 DEF Restart, ActivityPcs, HandlersWithout, Without, TypeOK, Pointer,
      OneOwner, OnStack, MainWhere, PendingConsistent
<1>8. CASE LaunchPending
  BY <1>0, <1>8 DEF LaunchPending, ExitActivities, Without, HandlersWithout, UnlockAnd,
      Unchanged_Drain, waitVars, renderVars, TypeOK, Pointer, OneOwner, OnStack, MainWhere,
      PendingConsistent
<1>9. CASE HomeGesture
  <2>1. CASE PopActivity
    BY <1>0, <1>9, <2>1 DEF HomeGesture, LoopTop, RequiresExclusiveStorageLoop, PopActivity,
        Without, Dead, DeferReplace, With, LoopReturns, Unchanged_Loop, ownVars, syncVars,
        requestVars, waitVars, renderVars, sceneVars, TypeOK, Pointer, OneOwner, OnStack,
        MainWhere, PendingConsistent
  <2>2. CASE \E a \in Dead : DeferReplace(a, "home")
    BY <1>0, <1>9, <2>2 DEF HomeGesture, LoopTop, RequiresExclusiveStorageLoop, PopActivity,
        Without, Dead, DeferReplace, With, LoopReturns, Unchanged_Loop, ownVars, syncVars,
        requestVars, waitVars, renderVars, sceneVars, TypeOK, Pointer, OneOwner, OnStack,
        MainWhere, PendingConsistent
  <2> QED
    BY <1>9, <2>1, <2>2 DEF HomeGesture
<1>10. CASE PanelGesture
  BY <1>0, <1>10 DEF PanelGesture, LoopTop, RequiresExclusiveStorageLoop, Dead,
      PushActivity, With, Without, LoopReturns, Unchanged_Loop, ownVars, syncVars,
      requestVars, waitVars, renderVars, sceneVars, TypeOK, Pointer, OneOwner, OnStack,
      MainWhere, PendingConsistent
<1>11. CASE SetupLaunch \/ PopLast \/ GoHomeNow
  BY <1>0, <1>11 DEF SetupLaunch, Dead, LaunchNow, With, syncVars, requestVars, waitVars,
      renderVars, sceneVars, PopLast, ExitActivities, Without, HandlersWithout, UnlockAnd,
      Unchanged_Drain, GoHomeNow, TypeOK, Pointer, OneOwner, OnStack, MainWhere,
      PendingConsistent
<1>12. CASE PopSilently
  BY <1>0, <1>12 DEF PopSilently, PopToParent, Without, HandlersWithout, Parent,
      Unchanged_Drain, waitVars, renderVars, UnlockAnd, TypeOK, Pointer, OneOwner, OnStack,
      MainWhere, PendingConsistent
<1>13. CASE PopToHandler
  BY <1>0, <1>13 DEF PopToHandler, PopToParent, Without, HandlersWithout, Parent,
      Unchanged_Drain, waitVars, renderVars, UnlockAnd, TypeOK, Pointer, OneOwner, OnStack,
      MainWhere, PendingConsistent
<1>14. CASE TakeLock \/ WriteUnlocked \/ RequestFromActivity \/ WaitFromActivity \/
    SetupWait \/ UsbStateChanged \/ Suppressed \/ SetupReturn \/ BeginLoop \/ RunLoop \/
    RunExclusive \/ OnEnter \/ WriteAndUnlock \/ WaitNotify \/ WaitReturn \/
    ReturnFromActivity
  BY <1>0, <1>14 DEF TakeLock, Calling, ActivityPcs, Spend, navVars, ownVars, pendVars,
      requestVars, waitVars, renderVars, sceneVars, WriteUnlocked, syncVars,
      RequestFromActivity, RequestUpdate, WaitFromActivity, WaitRegister, SetupWait,
      UsbStateChanged, RequiresExclusiveStorageLoop, Suppressed, LoopReturns,
      Unchanged_Loop, SetupReturn, BeginLoop, RunLoop, LoopTop, RunExclusive, OnEnter,
      InitPcs, WriteAndUnlock, WaitNotify, WaitReturn, ReturnFromActivity, Returning,
      Unchanged_Return, OneOwner, OnStack
<1>15. CASE ReturnFromExclusive \/ ReturnFromHandler \/ DrainDone \/ PopLock \/ LaunchLock
    \/ FinishLoop \/ RenderWakes \/ RenderLocks \/ RenderRequestsUpdate \/ RenderReturns \/
    RenderTakesWaiter \/ RenderNotifiesWaiter \/ RenderUnlocks
  BY <1>0, <1>15 DEF ReturnFromExclusive, Returning, FlushRequestedUpdate, LoopReturns,
      Unchanged_Return, navVars, ownVars, pendVars, waitVars, renderVars, sceneVars,
      ReturnFromHandler, DrainDone, Unchanged_Drain, PopLock, LaunchLock, FinishLoop,
      RenderWakes, RenderRest, RenderLocks, requestVars, RenderRequestsUpdate,
      RequestUpdate, RenderReturns, RenderTakesWaiter, RenderNotifiesWaiter, RenderUnlocks,
      OneOwner, OnStack
<1>16. CASE UNCHANGED vars
  BY <1>0, <1>16 DEF vars, navVars, syncVars, ownVars, pendVars, requestVars, waitVars,
      renderVars, sceneVars, OneOwner, OnStack
<1> QED
  BY <1>1, <1>2, <1>3, <1>4, <1>5, <1>6, <1>7, <1>8, <1>9, <1>10, <1>11, <1>12, <1>13,
      <1>14, <1>15, <1>16 DEF Next, ActivityChoice, Environment, MainProgress, RunActivity,
      RenderTask

(* The mutex changes hands only where RenderLock is constructed and destroyed. *)
LEMMA LockDisciplineStep == IInv /\ [Next]_vars => LockDiscipline'
<1> SUFFICES ASSUME IInv, [Next]_vars PROVE LockDiscipline'
  OBVIOUS
<1>0. LockDiscipline /\ MainWhere
  BY DEF IInv
<1>1. CASE TakeLock \/ WriteAndUnlock
  BY <1>0, <1>1 DEF TakeLock, Calling, ActivityPcs, Spend, navVars, ownVars, pendVars,
      requestVars, waitVars, renderVars, sceneVars, WriteAndUnlock, LockDiscipline,
      MainWhere
<1>2. CASE WaitFromActivity \/ SetupWait \/ WaitNotify \/ WaitReturn
  BY <1>0, <1>2 DEF WaitFromActivity, Calling, ActivityPcs, Spend, WaitRegister, navVars,
      ownVars, pendVars, requestVars, renderVars, sceneVars, SetupWait, WaitNotify,
      WaitReturn, LockDiscipline, MainWhere
<1>3. CASE GoToSleep \/ Suppressed \/ HomeGesture \/ PanelGesture \/ SetupLaunch \/
    SetupReturn
  BY <1>0, <1>3 DEF GoToSleep, RequiresExclusiveStorageLoop, Dead, DeferReplace, With,
      Without, ownVars, syncVars, requestVars, waitVars, renderVars, Suppressed,
      LoopReturns, pendVars, Unchanged_Loop, sceneVars, HomeGesture, LoopTop, PopActivity,
      PanelGesture, PushActivity, SetupLaunch, LaunchNow, SetupReturn, navVars,
      LockDiscipline, ActivityPcs, MainWhere
<1>4. CASE Restart
  BY <1>0, <1>4 DEF Restart, ActivityPcs, HandlersWithout, Without, LockDiscipline,
      MainWhere
<1>5. CASE BeginLoop \/ RunLoop \/ RunExclusive \/ OnEnter \/ ReturnFromActivity \/
    ReturnFromExclusive
  BY <1>0, <1>5 DEF BeginLoop, navVars, ownVars, pendVars, syncVars, requestVars, waitVars,
      renderVars, sceneVars, RunLoop, LoopTop, RequiresExclusiveStorageLoop, Unchanged_Loop,
      RunExclusive, OnEnter, InitPcs, ReturnFromActivity, Returning, Unchanged_Return,
      ReturnFromExclusive, FlushRequestedUpdate, LoopReturns, LockDiscipline, ActivityPcs,
      MainWhere
<1>6. CASE ReturnFromHandler \/ DrainDone \/ GoHomeNow \/ FinishLoop
  BY <1>0, <1>6 DEF ReturnFromHandler, Returning, Unchanged_Return, navVars, ownVars,
      pendVars, waitVars, renderVars, sceneVars, DrainDone, Unchanged_Drain, GoHomeNow,
      Dead, LaunchNow, With, syncVars, requestVars, FinishLoop, FlushRequestedUpdate,
      LoopReturns, LockDiscipline, ActivityPcs, MainWhere
<1>7. CASE PopLock \/ PopLast \/ PopSilently \/ PopToHandler \/ LaunchLock \/ LaunchPending
  BY <1>0, <1>7 DEF PopLock, navVars, ownVars, pendVars, Unchanged_Drain, waitVars,
      renderVars, PopLast, ExitActivities, Without, HandlersWithout, UnlockAnd, PopSilently,
      PopToParent, Parent, PopToHandler, LaunchLock, LaunchPending, LockDiscipline,
      ActivityPcs, MainWhere
<1>8. CASE RenderWakes \/ RenderReturns \/ RenderTakesWaiter \/ RenderNotifiesWaiter
  BY <1>0, <1>8 DEF RenderWakes, RenderRest, navVars, ownVars, pendVars, RenderReturns,
      requestVars, RenderTakesWaiter, RenderNotifiesWaiter, LockDiscipline, ActivityPcs,
      MainWhere
<1>9. CASE RenderLocks \/ RenderUnlocks
  BY <1>0, <1>9 DEF RenderLocks, requestVars, RenderRest, navVars, ownVars, pendVars,
      RenderUnlocks, LockDiscipline, ActivityPcs, MainWhere
<1>10. CASE WriteUnlocked \/ RequestFromActivity \/ StartActivityForResult \/ Finish \/ GoTo
    \/ SetupReplace \/ UsbStateChanged \/ Shortcut \/ RenderRequestsUpdate
  BY <1>0, <1>10 DEF WriteUnlocked, Calling, ActivityPcs, Spend, navVars, ownVars, pendVars,
      syncVars, requestVars, waitVars, renderVars, RequestFromActivity, RequestUpdate,
      sceneVars, StartActivityForResult, Navigating, Dead, PushActivity, With, Without,
      Finish, PopActivity, GoTo, DeferReplace, SetupReplace, UsbStateChanged,
      RequiresExclusiveStorageLoop, Shortcut, RenderRequestsUpdate, RenderRest,
      LockDiscipline
<1>11. CASE UNCHANGED vars
  BY <1>0, <1>11 DEF vars, navVars, syncVars, ownVars, pendVars, requestVars, waitVars,
      renderVars, sceneVars, LockDiscipline, ActivityPcs
<1> QED
  BY <1>1, <1>2, <1>3, <1>4, <1>5, <1>6, <1>7, <1>8, <1>9, <1>10, <1>11 DEF Next,
      ActivityChoice, Environment, MainProgress, RunActivity, RenderTask

(* Each program counter of the main task is reached only in the situation the code
   expects there. *)
LEMMA MainWhereStep == IInv /\ [Next]_vars => MainWhere'
<1> SUFFICES ASSUME IInv, [Next]_vars PROVE MainWhere'
  OBVIOUS
<1>0. TypeOK /\ LockDiscipline /\ MainWhere /\ PendingConsistent
  BY DEF IInv
<1>1. CASE StartActivityForResult \/ Finish \/ GoTo \/ SetupReplace \/ Shortcut
  BY <1>0, <1>1 DEF StartActivityForResult, Navigating, Calling, Spend, Dead, PushActivity,
      With, Without, syncVars, requestVars, waitVars, renderVars, sceneVars, Finish,
      ActivityPcs, PopActivity, ownVars, GoTo, DeferReplace, SetupReplace, Shortcut,
      RequiresExclusiveStorageLoop, TypeOK, Pointer, LockDiscipline, MainWhere,
      PendingConsistent
<1>2. CASE WaitFromActivity \/ SetupWait \/ WaitNotify \/ WaitReturn
  BY <1>0, <1>2 DEF WaitFromActivity, Calling, ActivityPcs, Spend, WaitRegister, navVars,
      ownVars, pendVars, requestVars, renderVars, sceneVars, SetupWait, WaitNotify,
      WaitReturn, TypeOK, Pointer, LockDiscipline, MainWhere, PendingConsistent
<1>3. CASE GoToSleep \/ HomeGesture \/ PanelGesture
  BY <1>0, <1>3 DEF GoToSleep, RequiresExclusiveStorageLoop, Dead, DeferReplace, With,
      Without, ownVars, syncVars, requestVars, waitVars, renderVars, HomeGesture, LoopTop,
      PopActivity, LoopReturns, Unchanged_Loop, sceneVars, PanelGesture, PushActivity,
      TypeOK, Pointer, LockDiscipline, ActivityPcs, MainWhere, PendingConsistent
<1>4. CASE Restart
  BY <1>0, <1>4 DEF Restart, ActivityPcs, HandlersWithout, Without, TypeOK, Pointer,
      LockDiscipline, MainWhere, PendingConsistent
<1>5. CASE Suppressed \/ SetupReturn \/ BeginLoop \/ RunLoop \/ RunExclusive \/ OnEnter
  BY <1>0, <1>5 DEF Suppressed, LoopReturns, pendVars, Unchanged_Loop, ownVars, syncVars,
      requestVars, waitVars, renderVars, sceneVars, SetupReturn, navVars, BeginLoop,
      RunLoop, LoopTop, RequiresExclusiveStorageLoop, RunExclusive, OnEnter, InitPcs,
      TypeOK, Pointer, LockDiscipline, ActivityPcs, MainWhere, PendingConsistent
<1>6. CASE SetupLaunch \/ GoHomeNow
  BY <1>0, <1>6 DEF SetupLaunch, Dead, LaunchNow, With, syncVars, requestVars, waitVars,
      renderVars, sceneVars, GoHomeNow, TypeOK, Pointer, LockDiscipline, ActivityPcs,
      MainWhere, PendingConsistent
<1>7. CASE ReturnFromActivity \/ ReturnFromExclusive \/ ReturnFromHandler \/ DrainDone \/
    PopLock \/ LaunchLock
  BY <1>0, <1>7 DEF ReturnFromActivity, Returning, requestVars, Unchanged_Return, navVars,
      ownVars, pendVars, waitVars, renderVars, sceneVars, ReturnFromExclusive,
      FlushRequestedUpdate, LoopReturns, ReturnFromHandler, DrainDone, Unchanged_Drain,
      PopLock, LaunchLock, TypeOK, Pointer, LockDiscipline, ActivityPcs, MainWhere,
      PendingConsistent
<1>8. CASE PopLast
  BY <1>0, <1>8 DEF PopLast, ExitActivities, Without, HandlersWithout, UnlockAnd,
      Unchanged_Drain, waitVars, renderVars, TypeOK, Pointer, LockDiscipline, ActivityPcs,
      MainWhere, PendingConsistent
<1>9. CASE PopSilently \/ PopToHandler \/ LaunchPending
  BY <1>0, <1>9 DEF PopSilently, PopToParent, Without, HandlersWithout, Parent,
      Unchanged_Drain, waitVars, renderVars, UnlockAnd, PopToHandler, LaunchPending,
      ExitActivities, TypeOK, Pointer, LockDiscipline, ActivityPcs, MainWhere,
      PendingConsistent
<1>10. CASE FinishLoop
  BY <1>0, <1>10 DEF FinishLoop, FlushRequestedUpdate, LoopReturns, navVars, ownVars,
      pendVars, waitVars, renderVars, sceneVars, TypeOK, Pointer, LockDiscipline,
      ActivityPcs, MainWhere, PendingConsistent
<1>11. CASE TakeLock \/ WriteUnlocked \/ RequestFromActivity \/ UsbStateChanged \/
    WriteAndUnlock \/ RenderWakes \/ RenderLocks \/ RenderRequestsUpdate \/ RenderReturns \/
    RenderTakesWaiter \/ RenderNotifiesWaiter \/ RenderUnlocks
  BY <1>0, <1>11 DEF TakeLock, Calling, ActivityPcs, Spend, navVars, ownVars, pendVars,
      requestVars, waitVars, renderVars, sceneVars, WriteUnlocked, syncVars,
      RequestFromActivity, RequestUpdate, UsbStateChanged, RequiresExclusiveStorageLoop,
      WriteAndUnlock, RenderWakes, RenderRest, RenderLocks, RenderRequestsUpdate,
      RenderReturns, RenderTakesWaiter, RenderNotifiesWaiter, RenderUnlocks, MainWhere
<1>12. CASE UNCHANGED vars
  BY <1>0, <1>12 DEF vars, navVars, syncVars, ownVars, pendVars, requestVars, waitVars,
      renderVars, sceneVars, MainWhere
<1> QED
  BY <1>1, <1>2, <1>3, <1>4, <1>5, <1>6, <1>7, <1>8, <1>9, <1>10, <1>11, <1>12 DEF Next,
      ActivityChoice, Environment, MainProgress, RunActivity, RenderTask

(* The handle of the waiter, the notification about to be sent and the one that was
   sent exclude each other. *)
LEMMA OneWakeUpStep == IInv /\ [Next]_vars => OneWakeUp'
<1> SUFFICES ASSUME IInv, [Next]_vars PROVE OneWakeUp'
  OBVIOUS
<1>0. TypeOK /\ LockDiscipline /\ OneWakeUp
  BY DEF IInv
<1>1. CASE WaitFromActivity \/ SetupWait
  BY <1>0, <1>1 DEF WaitFromActivity, Calling, ActivityPcs, Spend, WaitRegister, navVars,
      ownVars, pendVars, requestVars, renderVars, sceneVars, SetupWait, TypeOK, Pointer,
      LockDiscipline, OneWakeUp
<1>2. CASE Restart
  BY <1>0, <1>2 DEF Restart, ActivityPcs, HandlersWithout, Without, TypeOK, Pointer,
      LockDiscipline, OneWakeUp
<1>3. CASE WaitNotify
  BY <1>0, <1>3 DEF WaitNotify, navVars, ownVars, pendVars, renderVars, sceneVars, TypeOK,
      Pointer, LockDiscipline, ActivityPcs, OneWakeUp
<1>4. CASE WaitReturn
  BY <1>0, <1>4 DEF WaitReturn, navVars, ownVars, pendVars, requestVars, renderVars,
      sceneVars, TypeOK, Pointer, LockDiscipline, ActivityPcs, OneWakeUp
<1>5. CASE RenderWakes \/ RenderLocks \/ RenderReturns \/ RenderUnlocks
  BY <1>0, <1>5 DEF RenderWakes, RenderRest, navVars, ownVars, pendVars, RenderLocks,
      requestVars, RenderReturns, RenderUnlocks, TypeOK, Pointer, LockDiscipline,
      ActivityPcs, OneWakeUp
<1>6. CASE RenderTakesWaiter
  BY <1>0, <1>6 DEF RenderTakesWaiter, requestVars, RenderRest, navVars, ownVars, pendVars,
      TypeOK, Pointer, LockDiscipline, ActivityPcs, OneWakeUp
<1>7. CASE RenderNotifiesWaiter
  BY <1>0, <1>7 DEF RenderNotifiesWaiter, requestVars, RenderRest, navVars, ownVars,
      pendVars, TypeOK, Pointer, LockDiscipline, ActivityPcs, OneWakeUp
<1>8. CASE TakeLock \/ WriteUnlocked \/ RequestFromActivity \/ StartActivityForResult \/
    Finish \/ GoTo \/ SetupReplace \/ UsbStateChanged \/ Shortcut \/ GoToSleep \/ Suppressed
    \/ HomeGesture \/ PanelGesture \/ SetupLaunch \/ SetupReturn \/ BeginLoop
  BY <1>0, <1>8 DEF TakeLock, Calling, ActivityPcs, Spend, navVars, ownVars, pendVars,
      requestVars, waitVars, renderVars, sceneVars, WriteUnlocked, syncVars,
      RequestFromActivity, RequestUpdate, StartActivityForResult, Navigating, Dead,
      PushActivity, With, Without, Finish, PopActivity, GoTo, DeferReplace, SetupReplace,
      UsbStateChanged, RequiresExclusiveStorageLoop, Shortcut, GoToSleep, Suppressed,
      LoopReturns, Unchanged_Loop, HomeGesture, LoopTop, PanelGesture, SetupLaunch,
      LaunchNow, SetupReturn, BeginLoop, OneWakeUp
<1>9. CASE RunLoop \/ RunExclusive \/ OnEnter \/ WriteAndUnlock \/ ReturnFromActivity \/
    ReturnFromExclusive \/ ReturnFromHandler \/ DrainDone \/ PopLock \/ PopLast \/ GoHomeNow
    \/ PopSilently \/ PopToHandler \/ LaunchLock \/ LaunchPending \/ FinishLoop
  BY <1>0, <1>9 DEF RunLoop, LoopTop, RequiresExclusiveStorageLoop, pendVars,
      Unchanged_Loop, ownVars, syncVars, requestVars, waitVars, renderVars, sceneVars,
      RunExclusive, OnEnter, InitPcs, navVars, WriteAndUnlock, ActivityPcs,
      ReturnFromActivity, Returning, Unchanged_Return, ReturnFromExclusive,
      FlushRequestedUpdate, LoopReturns, ReturnFromHandler, DrainDone, Unchanged_Drain,
      PopLock, PopLast, ExitActivities, Without, HandlersWithout, UnlockAnd, GoHomeNow,
      Dead, LaunchNow, With, PopSilently, PopToParent, Parent, PopToHandler, LaunchLock,
      LaunchPending, FinishLoop, OneWakeUp
<1>10. CASE RenderRequestsUpdate
  BY <1>0, <1>10 DEF RenderRequestsUpdate, RequestUpdate, renderVars, RenderRest, navVars,
      ownVars, pendVars, OneWakeUp
<1>11. CASE UNCHANGED vars
  BY <1>0, <1>11 DEF vars, navVars, syncVars, ownVars, pendVars, requestVars, waitVars,
      renderVars, sceneVars, OneWakeUp
<1> QED
  BY <1>1, <1>2, <1>3, <1>4, <1>5, <1>6, <1>7, <1>8, <1>9, <1>10, <1>11 DEF Next,
      ActivityChoice, Environment, MainProgress, RunActivity, RenderTask

(* A write under the lock cannot come between the start of a render and the waiter's
   return. *)
LEMMA LockedWritesDrawnStep == IInv /\ [Next]_vars => LockedWritesDrawn'
<1> SUFFICES ASSUME IInv, [Next]_vars PROVE LockedWritesDrawn'
  OBVIOUS
<1>0. TypeOK /\ LockDiscipline /\ MainWhere /\ OneWakeUp /\ LockedWritesDrawn /\ PendingConsistent
  BY DEF IInv
<1>1. CASE TakeLock \/ PopLock \/ LaunchLock \/ RenderUnlocks
  BY <1>0, <1>1 DEF TakeLock, Calling, ActivityPcs, Spend, navVars, ownVars, pendVars,
      requestVars, waitVars, renderVars, sceneVars, PopLock, Unchanged_Drain, LaunchLock,
      RenderUnlocks, RenderRest, TypeOK, Pointer, LockDiscipline, MainWhere, OneWakeUp,
      LockedWritesDrawn, PendingConsistent
<1>2. CASE WriteUnlocked \/ OnEnter
  BY <1>0, <1>2 DEF WriteUnlocked, Calling, ActivityPcs, Spend, navVars, ownVars, pendVars,
      syncVars, requestVars, waitVars, renderVars, OnEnter, InitPcs, TypeOK, Pointer,
      LockDiscipline, MainWhere, OneWakeUp, LockedWritesDrawn, PendingConsistent
<1>3. CASE Restart
  BY <1>0, <1>3 DEF Restart, ActivityPcs, HandlersWithout, Without, TypeOK, Pointer,
      LockDiscipline, MainWhere, OneWakeUp, LockedWritesDrawn, PendingConsistent
<1>4. CASE SetupLaunch \/ GoHomeNow
  BY <1>0, <1>4 DEF SetupLaunch, Dead, LaunchNow, With, syncVars, requestVars, waitVars,
      renderVars, sceneVars, GoHomeNow, TypeOK, Pointer, LockDiscipline, ActivityPcs,
      MainWhere, OneWakeUp, LockedWritesDrawn, PendingConsistent
<1>5. CASE WriteAndUnlock \/ RenderLocks
  BY <1>0, <1>5 DEF WriteAndUnlock, ActivityPcs, navVars, ownVars, pendVars, requestVars,
      waitVars, renderVars, RenderLocks, RenderRest, TypeOK, Pointer, LockDiscipline,
      MainWhere, OneWakeUp, LockedWritesDrawn, PendingConsistent
<1>6. CASE WaitReturn \/ RenderNotifiesWaiter
  BY <1>0, <1>6 DEF WaitReturn, navVars, ownVars, pendVars, requestVars, renderVars,
      sceneVars, RenderNotifiesWaiter, RenderRest, TypeOK, Pointer, LockDiscipline,
      ActivityPcs, MainWhere, OneWakeUp, LockedWritesDrawn, PendingConsistent
<1>7. CASE PopLast \/ PopSilently \/ PopToHandler \/ LaunchPending
  BY <1>0, <1>7 DEF PopLast, ExitActivities, Without, HandlersWithout, UnlockAnd,
      Unchanged_Drain, waitVars, renderVars, PopSilently, PopToParent, Parent, PopToHandler,
      LaunchPending, TypeOK, Pointer, LockDiscipline, ActivityPcs, MainWhere, OneWakeUp,
      LockedWritesDrawn, PendingConsistent
<1>8. CASE RequestFromActivity \/ StartActivityForResult \/ Finish \/ GoTo \/
    WaitFromActivity \/ SetupReplace \/ SetupWait \/ UsbStateChanged \/ Shortcut \/
    GoToSleep \/ Suppressed \/ HomeGesture \/ PanelGesture \/ SetupReturn \/ BeginLoop \/
    RunLoop
  BY <1>0, <1>8 DEF RequestFromActivity, Calling, ActivityPcs, Spend, RequestUpdate,
      navVars, ownVars, pendVars, waitVars, renderVars, sceneVars, StartActivityForResult,
      Navigating, Dead, PushActivity, With, Without, syncVars, requestVars, Finish,
      PopActivity, GoTo, DeferReplace, WaitFromActivity, WaitRegister, SetupReplace,
      SetupWait, UsbStateChanged, RequiresExclusiveStorageLoop, Shortcut, GoToSleep,
      Suppressed, LoopReturns, Unchanged_Loop, HomeGesture, LoopTop, PanelGesture,
      SetupReturn, BeginLoop, RunLoop, LockedWritesDrawn
<1>9. CASE RunExclusive \/ WaitNotify \/ ReturnFromActivity \/ ReturnFromExclusive \/
    ReturnFromHandler \/ DrainDone \/ FinishLoop \/ RenderWakes \/ RenderRequestsUpdate \/
    RenderReturns \/ RenderTakesWaiter
  BY <1>0, <1>9 DEF RunExclusive, RequiresExclusiveStorageLoop, pendVars, Unchanged_Loop,
      ownVars, syncVars, requestVars, waitVars, renderVars, sceneVars, WaitNotify, navVars,
      ReturnFromActivity, Returning, Unchanged_Return, ReturnFromExclusive,
      FlushRequestedUpdate, LoopReturns, ReturnFromHandler, DrainDone, Unchanged_Drain,
      FinishLoop, RenderWakes, RenderRest, RenderRequestsUpdate, RequestUpdate,
      RenderReturns, RenderTakesWaiter, LockedWritesDrawn
<1>10. CASE UNCHANGED vars
  BY <1>0, <1>10 DEF vars, navVars, syncVars, ownVars, pendVars, requestVars, waitVars,
      renderVars, sceneVars, LockedWritesDrawn
<1> QED
  BY <1>1, <1>2, <1>3, <1>4, <1>5, <1>6, <1>7, <1>8, <1>9, <1>10 DEF Next, ActivityChoice,
      Environment, MainProgress, RunActivity, RenderTask

(* A result handler is registered with a push, cleared before it runs, and gone with
   its activity. *)
LEMMA HandlerWithRequestStep == IInv /\ [Next]_vars => HandlerWithRequest'
<1> SUFFICES ASSUME IInv, [Next]_vars PROVE HandlerWithRequest'
  OBVIOUS
<1>0. TypeOK /\ OneOwner /\ MainWhere /\ HandlerWithRequest /\ PendingConsistent /\ HandlerMatchesChild
  BY DEF IInv
<1>1. CASE StartActivityForResult
  BY <1>0, <1>1 DEF StartActivityForResult, Navigating, Calling, Spend, Dead, PushActivity,
      With, Without, syncVars, requestVars, waitVars, renderVars, sceneVars, TypeOK,
      Pointer, OneOwner, OnStack, MainWhere, HandlerWithRequest, PendingConsistent,
      HandlerMatchesChild
<1>2. CASE Finish
  BY <1>0, <1>2 DEF Finish, Calling, ActivityPcs, Spend, PopActivity, Without, ownVars,
      syncVars, requestVars, waitVars, renderVars, sceneVars, TypeOK, Pointer, OneOwner,
      OnStack, MainWhere, HandlerWithRequest, Dead, PendingConsistent, HandlerMatchesChild
<1>3. CASE GoTo
  BY <1>0, <1>3 DEF GoTo, Navigating, Calling, Spend, Dead, DeferReplace, With, Without,
      ownVars, syncVars, requestVars, waitVars, renderVars, sceneVars, TypeOK, Pointer,
      OneOwner, OnStack, MainWhere, HandlerWithRequest, PendingConsistent,
      HandlerMatchesChild
<1>4. CASE SetupReplace
  BY <1>0, <1>4 DEF SetupReplace, Dead, DeferReplace, With, Without, ownVars, syncVars,
      requestVars, waitVars, renderVars, sceneVars, TypeOK, Pointer, OneOwner, OnStack,
      MainWhere, HandlerWithRequest, PendingConsistent, HandlerMatchesChild
<1>5. CASE Shortcut
  BY <1>0, <1>5 DEF Shortcut, RequiresExclusiveStorageLoop, Dead, DeferReplace, With,
      Without, ownVars, syncVars, requestVars, waitVars, renderVars, sceneVars, TypeOK,
      Pointer, OneOwner, OnStack, MainWhere, HandlerWithRequest, PendingConsistent,
      HandlerMatchesChild
<1>6. CASE GoToSleep
  BY <1>0, <1>6 DEF GoToSleep, RequiresExclusiveStorageLoop, Dead, DeferReplace, With,
      Without, ownVars, syncVars, requestVars, waitVars, renderVars, TypeOK, Pointer,
      OneOwner, OnStack, MainWhere, HandlerWithRequest, PendingConsistent,
      HandlerMatchesChild
<1>7. CASE PanelGesture
  BY <1>0, <1>7 DEF PanelGesture, LoopTop, RequiresExclusiveStorageLoop, Dead, PushActivity,
      With, Without, LoopReturns, Unchanged_Loop, ownVars, syncVars, requestVars, waitVars,
      renderVars, sceneVars, TypeOK, Pointer, OneOwner, OnStack, MainWhere,
      HandlerWithRequest, PendingConsistent, HandlerMatchesChild
<1>8. CASE Restart \/ LaunchPending
  BY <1>0, <1>8 DEF Restart, ActivityPcs, HandlersWithout, Without, LaunchPending,
      ExitActivities, UnlockAnd, Unchanged_Drain, waitVars, renderVars, TypeOK, Pointer,
      OneOwner, OnStack, MainWhere, HandlerWithRequest, Dead, PendingConsistent,
      HandlerMatchesChild
<1>9. CASE Suppressed \/ SetupReturn \/ BeginLoop \/ RunLoop \/ RunExclusive \/ OnEnter
  BY <1>0, <1>9 DEF Suppressed, LoopReturns, pendVars, Unchanged_Loop, ownVars, syncVars,
      requestVars, waitVars, renderVars, sceneVars, SetupReturn, navVars, BeginLoop,
      RunLoop, LoopTop, RequiresExclusiveStorageLoop, RunExclusive, OnEnter, InitPcs,
      TypeOK, Pointer, OneOwner, OnStack, MainWhere, HandlerWithRequest, Dead,
      PendingConsistent, HandlerMatchesChild
<1>10. CASE HomeGesture
  <2>1. CASE PopActivity
    BY <1>0, <1>10, <2>1 DEF HomeGesture, LoopTop, RequiresExclusiveStorageLoop, PopActivity,
        Without, Dead, DeferReplace, With, LoopReturns, Unchanged_Loop, ownVars, syncVars,
        requestVars, waitVars, renderVars, sceneVars, TypeOK, Pointer, OneOwner, OnStack,
        MainWhere, HandlerWithRequest, PendingConsistent, HandlerMatchesChild
  <2>2. CASE \E a \in Dead : DeferReplace(a, "home")
    BY <1>0, <1>10, <2>2 DEF HomeGesture, LoopTop, RequiresExclusiveStorageLoop, PopActivity,
        Without, Dead, DeferReplace, With, LoopReturns, Unchanged_Loop, ownVars, syncVars,
        requestVars, waitVars, renderVars, sceneVars, TypeOK, Pointer, OneOwner, OnStack,
        MainWhere, HandlerWithRequest, PendingConsistent, HandlerMatchesChild
  <2> QED
    BY <1>10, <2>1, <2>2 DEF HomeGesture
<1>11. CASE SetupLaunch \/ GoHomeNow
  BY <1>0, <1>11 DEF SetupLaunch, Dead, LaunchNow, With, syncVars, requestVars, waitVars,
      renderVars, sceneVars, GoHomeNow, TypeOK, Pointer, OneOwner, OnStack, MainWhere,
      HandlerWithRequest, PendingConsistent, HandlerMatchesChild
<1>12. CASE ReturnFromActivity \/ ReturnFromExclusive \/ ReturnFromHandler \/ DrainDone \/
    PopLock \/ LaunchLock
  BY <1>0, <1>12 DEF ReturnFromActivity, Returning, requestVars, Unchanged_Return, navVars,
      ownVars, pendVars, waitVars, renderVars, sceneVars, ReturnFromExclusive,
      FlushRequestedUpdate, LoopReturns, ReturnFromHandler, DrainDone, Unchanged_Drain,
      PopLock, LaunchLock, TypeOK, Pointer, OneOwner, OnStack, MainWhere,
      HandlerWithRequest, Dead, PendingConsistent, HandlerMatchesChild
<1>13. CASE PopLast
  BY <1>0, <1>13 DEF PopLast, ExitActivities, Without, HandlersWithout, UnlockAnd,
      Unchanged_Drain, waitVars, renderVars, TypeOK, Pointer, OneOwner, OnStack, MainWhere,
      HandlerWithRequest, Dead, PendingConsistent, HandlerMatchesChild
<1>14. CASE PopSilently
  BY <1>0, <1>14 DEF PopSilently, PopToParent, Without, HandlersWithout, Parent,
      Unchanged_Drain, waitVars, renderVars, UnlockAnd, TypeOK, Pointer, OneOwner, OnStack,
      MainWhere, HandlerWithRequest, Dead, PendingConsistent, HandlerMatchesChild
<1>15. CASE PopToHandler
  BY <1>0, <1>15 DEF PopToHandler, PopToParent, Without, HandlersWithout, Parent,
      Unchanged_Drain, waitVars, renderVars, UnlockAnd, TypeOK, Pointer, OneOwner, OnStack,
      MainWhere, HandlerWithRequest, Dead, PendingConsistent, HandlerMatchesChild
<1>16. CASE FinishLoop
  BY <1>0, <1>16 DEF FinishLoop, FlushRequestedUpdate, LoopReturns, navVars, ownVars,
      pendVars, waitVars, renderVars, sceneVars, TypeOK, Pointer, OneOwner, OnStack,
      MainWhere, HandlerWithRequest, Dead, PendingConsistent, HandlerMatchesChild
<1>17. CASE TakeLock \/ WriteUnlocked \/ RequestFromActivity \/ WaitFromActivity \/
    SetupWait \/ UsbStateChanged \/ WriteAndUnlock \/ WaitNotify \/ WaitReturn \/
    RenderWakes \/ RenderLocks \/ RenderRequestsUpdate \/ RenderReturns \/ RenderTakesWaiter
    \/ RenderNotifiesWaiter \/ RenderUnlocks
  BY <1>0, <1>17 DEF TakeLock, Calling, ActivityPcs, Spend, navVars, ownVars, pendVars,
      requestVars, waitVars, renderVars, sceneVars, WriteUnlocked, syncVars,
      RequestFromActivity, RequestUpdate, WaitFromActivity, WaitRegister, SetupWait,
      UsbStateChanged, RequiresExclusiveStorageLoop, WriteAndUnlock, WaitNotify, WaitReturn,
      RenderWakes, RenderRest, RenderLocks, RenderRequestsUpdate, RenderReturns,
      RenderTakesWaiter, RenderNotifiesWaiter, RenderUnlocks, HandlerWithRequest, Dead
<1>18. CASE UNCHANGED vars
  BY <1>0, <1>18 DEF vars, navVars, syncVars, ownVars, pendVars, requestVars, waitVars,
      renderVars, sceneVars, HandlerWithRequest, Dead
<1> QED
  BY <1>1, <1>2, <1>3, <1>4, <1>5, <1>6, <1>7, <1>8, <1>9, <1>10, <1>11, <1>12, <1>13,
      <1>14, <1>15, <1>16, <1>17, <1>18 DEF Next, ActivityChoice, Environment, MainProgress,
      RunActivity, RenderTask

(* Nothing asks for navigation while the current activity owns the raw storage. *)
LEMMA UsbQuietStep == IInv /\ [Next]_vars => UsbQuiet'
<1> SUFFICES ASSUME IInv, [Next]_vars PROVE UsbQuiet'
  OBVIOUS
<1>0. TypeOK /\ OneOwner /\ MainWhere /\ UsbQuiet
  BY DEF IInv
<1>1. CASE StartActivityForResult
  BY <1>0, <1>1 DEF StartActivityForResult, Navigating, Calling, Spend, Dead, PushActivity,
      With, Without, syncVars, requestVars, waitVars, renderVars, sceneVars, TypeOK,
      Pointer, OneOwner, OnStack, MainWhere, UsbQuiet, RequiresExclusiveStorageLoop
<1>2. CASE Finish
  BY <1>0, <1>2 DEF Finish, Calling, ActivityPcs, Spend, PopActivity, Without, ownVars,
      syncVars, requestVars, waitVars, renderVars, sceneVars, TypeOK, Pointer, OneOwner,
      OnStack, MainWhere, UsbQuiet, RequiresExclusiveStorageLoop
<1>3. CASE GoTo
  BY <1>0, <1>3 DEF GoTo, Navigating, Calling, Spend, Dead, DeferReplace, With, Without,
      ownVars, syncVars, requestVars, waitVars, renderVars, sceneVars, TypeOK, Pointer,
      OneOwner, OnStack, MainWhere, UsbQuiet, RequiresExclusiveStorageLoop
<1>4. CASE SetupReplace
  BY <1>0, <1>4 DEF SetupReplace, Dead, DeferReplace, With, Without, ownVars, syncVars,
      requestVars, waitVars, renderVars, sceneVars, TypeOK, Pointer, OneOwner, OnStack,
      MainWhere, UsbQuiet, RequiresExclusiveStorageLoop
<1>5. CASE Shortcut
  BY <1>0, <1>5 DEF Shortcut, RequiresExclusiveStorageLoop, Dead, DeferReplace, With,
      Without, ownVars, syncVars, requestVars, waitVars, renderVars, sceneVars, TypeOK,
      Pointer, OneOwner, OnStack, MainWhere, UsbQuiet
<1>6. CASE GoToSleep
  BY <1>0, <1>6 DEF GoToSleep, RequiresExclusiveStorageLoop, Dead, DeferReplace, With,
      Without, ownVars, syncVars, requestVars, waitVars, renderVars, TypeOK, Pointer,
      OneOwner, OnStack, MainWhere, UsbQuiet
<1>7. CASE Restart \/ PopLast \/ PopSilently \/ PopToHandler \/ LaunchPending
  BY <1>0, <1>7 DEF Restart, ActivityPcs, HandlersWithout, Without, PopLast, ExitActivities,
      UnlockAnd, Unchanged_Drain, waitVars, renderVars, PopSilently, PopToParent, Parent,
      PopToHandler, LaunchPending, TypeOK, Pointer, OneOwner, OnStack, MainWhere, UsbQuiet,
      RequiresExclusiveStorageLoop
<1>8. CASE HomeGesture
  BY <1>0, <1>8 DEF HomeGesture, LoopTop, RequiresExclusiveStorageLoop, PopActivity,
      Without, Dead, DeferReplace, With, LoopReturns, Unchanged_Loop, ownVars, syncVars,
      requestVars, waitVars, renderVars, sceneVars, TypeOK, Pointer, OneOwner, OnStack,
      MainWhere, UsbQuiet
<1>9. CASE PanelGesture
  BY <1>0, <1>9 DEF PanelGesture, LoopTop, RequiresExclusiveStorageLoop, Dead, PushActivity,
      With, Without, LoopReturns, Unchanged_Loop, ownVars, syncVars, requestVars, waitVars,
      renderVars, sceneVars, TypeOK, Pointer, OneOwner, OnStack, MainWhere, UsbQuiet
<1>10. CASE SetupLaunch \/ GoHomeNow
  BY <1>0, <1>10 DEF SetupLaunch, Dead, LaunchNow, With, syncVars, requestVars, waitVars,
      renderVars, sceneVars, GoHomeNow, TypeOK, Pointer, OneOwner, OnStack, MainWhere,
      UsbQuiet, RequiresExclusiveStorageLoop
<1>11. CASE TakeLock \/ WriteUnlocked \/ RequestFromActivity \/ WaitFromActivity \/
    SetupWait \/ UsbStateChanged \/ Suppressed \/ SetupReturn \/ BeginLoop \/ RunLoop \/
    RunExclusive \/ OnEnter \/ WriteAndUnlock \/ WaitNotify \/ WaitReturn \/
    ReturnFromActivity
  BY <1>0, <1>11 DEF TakeLock, Calling, ActivityPcs, Spend, navVars, ownVars, pendVars,
      requestVars, waitVars, renderVars, sceneVars, WriteUnlocked, syncVars,
      RequestFromActivity, RequestUpdate, WaitFromActivity, WaitRegister, SetupWait,
      UsbStateChanged, RequiresExclusiveStorageLoop, Suppressed, LoopReturns,
      Unchanged_Loop, SetupReturn, BeginLoop, RunLoop, LoopTop, RunExclusive, OnEnter,
      InitPcs, WriteAndUnlock, WaitNotify, WaitReturn, ReturnFromActivity, Returning,
      Unchanged_Return, UsbQuiet
<1>12. CASE ReturnFromExclusive \/ ReturnFromHandler \/ DrainDone \/ PopLock \/ LaunchLock
    \/ FinishLoop \/ RenderWakes \/ RenderLocks \/ RenderRequestsUpdate \/ RenderReturns \/
    RenderTakesWaiter \/ RenderNotifiesWaiter \/ RenderUnlocks
  BY <1>0, <1>12 DEF ReturnFromExclusive, Returning, FlushRequestedUpdate, LoopReturns,
      Unchanged_Return, navVars, ownVars, pendVars, waitVars, renderVars, sceneVars,
      ReturnFromHandler, DrainDone, Unchanged_Drain, PopLock, LaunchLock, FinishLoop,
      RenderWakes, RenderRest, RenderLocks, requestVars, RenderRequestsUpdate,
      RequestUpdate, RenderReturns, RenderTakesWaiter, RenderNotifiesWaiter, RenderUnlocks,
      UsbQuiet, RequiresExclusiveStorageLoop
<1>13. CASE UNCHANGED vars
  BY <1>0, <1>13 DEF vars, navVars, syncVars, ownVars, pendVars, requestVars, waitVars,
      renderVars, sceneVars, UsbQuiet, RequiresExclusiveStorageLoop
<1> QED
  BY <1>1, <1>2, <1>3, <1>4, <1>5, <1>6, <1>7, <1>8, <1>9, <1>10, <1>11, <1>12, <1>13 DEF
      Next, ActivityChoice, Environment, MainProgress, RunActivity, RenderTask

(* The object being drawn is replaced or destroyed only under the lock. *)
LEMMA RenderTargetAliveStep == IInv /\ [Next]_vars => RenderTargetAlive'
<1> SUFFICES ASSUME IInv, [Next]_vars PROVE RenderTargetAlive'
  OBVIOUS
<1>0. TypeOK /\ OneOwner /\ LockDiscipline /\ MainWhere /\ RenderTargetAlive
  BY DEF IInv
<1>1. CASE StartActivityForResult
  BY <1>0, <1>1 DEF StartActivityForResult, Navigating, Calling, Spend, Dead, PushActivity,
      With, Without, syncVars, requestVars, waitVars, renderVars, sceneVars, TypeOK,
      Pointer, OneOwner, OnStack, LockDiscipline, ActivityPcs, MainWhere, RenderTargetAlive
<1>2. CASE Finish
  BY <1>0, <1>2 DEF Finish, Calling, ActivityPcs, Spend, PopActivity, Without, ownVars,
      syncVars, requestVars, waitVars, renderVars, sceneVars, TypeOK, Pointer, OneOwner,
      OnStack, LockDiscipline, MainWhere, RenderTargetAlive
<1>3. CASE GoTo
  BY <1>0, <1>3 DEF GoTo, Navigating, Calling, Spend, Dead, DeferReplace, With, Without,
      ownVars, syncVars, requestVars, waitVars, renderVars, sceneVars, TypeOK, Pointer,
      OneOwner, OnStack, LockDiscipline, ActivityPcs, MainWhere, RenderTargetAlive
<1>4. CASE SetupReplace
  BY <1>0, <1>4 DEF SetupReplace, Dead, DeferReplace, With, Without, ownVars, syncVars,
      requestVars, waitVars, renderVars, sceneVars, TypeOK, Pointer, OneOwner, OnStack,
      LockDiscipline, ActivityPcs, MainWhere, RenderTargetAlive
<1>5. CASE Shortcut
  BY <1>0, <1>5 DEF Shortcut, RequiresExclusiveStorageLoop, Dead, DeferReplace, With,
      Without, ownVars, syncVars, requestVars, waitVars, renderVars, sceneVars, TypeOK,
      Pointer, OneOwner, OnStack, LockDiscipline, ActivityPcs, MainWhere, RenderTargetAlive
<1>6. CASE GoToSleep
  BY <1>0, <1>6 DEF GoToSleep, RequiresExclusiveStorageLoop, Dead, DeferReplace, With,
      Without, ownVars, syncVars, requestVars, waitVars, renderVars, TypeOK, Pointer,
      OneOwner, OnStack, LockDiscipline, ActivityPcs, MainWhere, RenderTargetAlive
<1>7. CASE Restart
  BY <1>0, <1>7 DEF Restart, ActivityPcs, HandlersWithout, Without, TypeOK, Pointer,
      OneOwner, OnStack, LockDiscipline, MainWhere, RenderTargetAlive
<1>8. CASE HomeGesture
  BY <1>0, <1>8 DEF HomeGesture, LoopTop, RequiresExclusiveStorageLoop, PopActivity,
      Without, Dead, DeferReplace, With, LoopReturns, Unchanged_Loop, ownVars, syncVars,
      requestVars, waitVars, renderVars, sceneVars, TypeOK, Pointer, OneOwner, OnStack,
      LockDiscipline, ActivityPcs, MainWhere, RenderTargetAlive
<1>9. CASE PanelGesture
  BY <1>0, <1>9 DEF PanelGesture, LoopTop, RequiresExclusiveStorageLoop, Dead, PushActivity,
      With, Without, LoopReturns, Unchanged_Loop, ownVars, syncVars, requestVars, waitVars,
      renderVars, sceneVars, TypeOK, Pointer, OneOwner, OnStack, LockDiscipline,
      ActivityPcs, MainWhere, RenderTargetAlive
<1>10. CASE SetupLaunch \/ PopLast \/ GoHomeNow \/ PopSilently \/ PopToHandler \/
    LaunchPending
  BY <1>0, <1>10 DEF SetupLaunch, Dead, LaunchNow, With, syncVars, requestVars, waitVars,
      renderVars, sceneVars, PopLast, ExitActivities, Without, HandlersWithout, UnlockAnd,
      Unchanged_Drain, GoHomeNow, PopSilently, PopToParent, Parent, PopToHandler,
      LaunchPending, TypeOK, Pointer, OneOwner, OnStack, LockDiscipline, ActivityPcs,
      MainWhere, RenderTargetAlive
<1>11. CASE RenderWakes \/ RenderTakesWaiter \/ RenderNotifiesWaiter \/ RenderUnlocks
  BY <1>0, <1>11 DEF RenderWakes, RenderRest, navVars, ownVars, pendVars, RenderTakesWaiter,
      requestVars, RenderNotifiesWaiter, RenderUnlocks, TypeOK, Pointer, OneOwner, OnStack,
      LockDiscipline, ActivityPcs, MainWhere, RenderTargetAlive
<1>12. CASE RenderLocks \/ RenderReturns
  BY <1>0, <1>12 DEF RenderLocks, requestVars, RenderRest, navVars, ownVars, pendVars,
      RenderReturns, TypeOK, Pointer, OneOwner, OnStack, LockDiscipline, ActivityPcs,
      MainWhere, RenderTargetAlive
<1>13. CASE TakeLock \/ WriteUnlocked \/ RequestFromActivity \/ WaitFromActivity \/
    SetupWait \/ UsbStateChanged \/ Suppressed \/ SetupReturn \/ BeginLoop \/ RunLoop \/
    RunExclusive \/ OnEnter \/ WriteAndUnlock \/ WaitNotify \/ WaitReturn \/
    ReturnFromActivity
  BY <1>0, <1>13 DEF TakeLock, Calling, ActivityPcs, Spend, navVars, ownVars, pendVars,
      requestVars, waitVars, renderVars, sceneVars, WriteUnlocked, syncVars,
      RequestFromActivity, RequestUpdate, WaitFromActivity, WaitRegister, SetupWait,
      UsbStateChanged, RequiresExclusiveStorageLoop, Suppressed, LoopReturns,
      Unchanged_Loop, SetupReturn, BeginLoop, RunLoop, LoopTop, RunExclusive, OnEnter,
      InitPcs, WriteAndUnlock, WaitNotify, WaitReturn, ReturnFromActivity, Returning,
      Unchanged_Return, RenderTargetAlive
<1>14. CASE ReturnFromExclusive \/ ReturnFromHandler \/ DrainDone \/ PopLock \/ LaunchLock
    \/ FinishLoop \/ RenderRequestsUpdate
  BY <1>0, <1>14 DEF ReturnFromExclusive, Returning, FlushRequestedUpdate, LoopReturns,
      Unchanged_Return, navVars, ownVars, pendVars, waitVars, renderVars, sceneVars,
      ReturnFromHandler, DrainDone, Unchanged_Drain, PopLock, LaunchLock, FinishLoop,
      RenderRequestsUpdate, RequestUpdate, RenderRest, RenderTargetAlive
<1>15. CASE UNCHANGED vars
  BY <1>0, <1>15 DEF vars, navVars, syncVars, ownVars, pendVars, requestVars, waitVars,
      renderVars, sceneVars, RenderTargetAlive
<1> QED
  BY <1>1, <1>2, <1>3, <1>4, <1>5, <1>6, <1>7, <1>8, <1>9, <1>10, <1>11, <1>12, <1>13,
      <1>14, <1>15 DEF Next, ActivityChoice, Environment, MainProgress, RunActivity,
      RenderTask

(* pendingActivity and pendingAction change together. *)
LEMMA PendingConsistentStep == IInv /\ [Next]_vars => PendingConsistent'
<1> SUFFICES ASSUME IInv, [Next]_vars PROVE PendingConsistent'
  OBVIOUS
<1>0. TypeOK /\ MainWhere /\ PendingConsistent
  BY DEF IInv
<1>1. CASE StartActivityForResult \/ Finish \/ GoTo \/ SetupReplace \/ Shortcut \/ GoToSleep
  BY <1>0, <1>1 DEF StartActivityForResult, Navigating, Calling, Spend, Dead, PushActivity,
      With, Without, syncVars, requestVars, waitVars, renderVars, sceneVars, Finish,
      ActivityPcs, PopActivity, ownVars, GoTo, DeferReplace, SetupReplace, Shortcut,
      RequiresExclusiveStorageLoop, GoToSleep, TypeOK, Pointer, MainWhere, PendingConsistent
<1>2. CASE Restart \/ LaunchPending
  BY <1>0, <1>2 DEF Restart, ActivityPcs, HandlersWithout, Without, LaunchPending,
      ExitActivities, UnlockAnd, Unchanged_Drain, waitVars, renderVars, TypeOK, Pointer,
      MainWhere, PendingConsistent
<1>3. CASE HomeGesture \/ PanelGesture
  BY <1>0, <1>3 DEF HomeGesture, LoopTop, RequiresExclusiveStorageLoop, PopActivity,
      Without, Dead, DeferReplace, With, LoopReturns, Unchanged_Loop, ownVars, syncVars,
      requestVars, waitVars, renderVars, sceneVars, PanelGesture, PushActivity, TypeOK,
      Pointer, MainWhere, PendingConsistent
<1>4. CASE SetupLaunch \/ GoHomeNow
  BY <1>0, <1>4 DEF SetupLaunch, Dead, LaunchNow, With, syncVars, requestVars, waitVars,
      renderVars, sceneVars, GoHomeNow, TypeOK, Pointer, MainWhere, PendingConsistent
<1>5. CASE PopLast \/ PopSilently \/ PopToHandler
  BY <1>0, <1>5 DEF PopLast, ExitActivities, Without, HandlersWithout, UnlockAnd,
      Unchanged_Drain, waitVars, renderVars, PopSilently, PopToParent, Parent, PopToHandler,
      TypeOK, Pointer, MainWhere, PendingConsistent
<1>6. CASE TakeLock \/ WriteUnlocked \/ RequestFromActivity \/ WaitFromActivity \/ SetupWait
    \/ UsbStateChanged \/ Suppressed \/ SetupReturn \/ BeginLoop \/ RunLoop \/ RunExclusive
    \/ OnEnter \/ WriteAndUnlock \/ WaitNotify \/ WaitReturn \/ ReturnFromActivity
  BY <1>0, <1>6 DEF TakeLock, Calling, ActivityPcs, Spend, navVars, ownVars, pendVars,
      requestVars, waitVars, renderVars, sceneVars, WriteUnlocked, syncVars,
      RequestFromActivity, RequestUpdate, WaitFromActivity, WaitRegister, SetupWait,
      UsbStateChanged, RequiresExclusiveStorageLoop, Suppressed, LoopReturns,
      Unchanged_Loop, SetupReturn, BeginLoop, RunLoop, LoopTop, RunExclusive, OnEnter,
      InitPcs, WriteAndUnlock, WaitNotify, WaitReturn, ReturnFromActivity, Returning,
      Unchanged_Return, PendingConsistent
<1>7. CASE ReturnFromExclusive \/ ReturnFromHandler \/ DrainDone \/ PopLock \/ LaunchLock \/
    FinishLoop \/ RenderWakes \/ RenderLocks \/ RenderRequestsUpdate \/ RenderReturns \/
    RenderTakesWaiter \/ RenderNotifiesWaiter \/ RenderUnlocks
  BY <1>0, <1>7 DEF ReturnFromExclusive, Returning, FlushRequestedUpdate, LoopReturns,
      Unchanged_Return, navVars, ownVars, pendVars, waitVars, renderVars, sceneVars,
      ReturnFromHandler, DrainDone, Unchanged_Drain, PopLock, LaunchLock, FinishLoop,
      RenderWakes, RenderRest, RenderLocks, requestVars, RenderRequestsUpdate,
      RequestUpdate, RenderReturns, RenderTakesWaiter, RenderNotifiesWaiter, RenderUnlocks,
      PendingConsistent
<1>8. CASE UNCHANGED vars
  BY <1>0, <1>8 DEF vars, navVars, syncVars, ownVars, pendVars, requestVars, waitVars,
      renderVars, sceneVars, PendingConsistent
<1> QED
  BY <1>1, <1>2, <1>3, <1>4, <1>5, <1>6, <1>7, <1>8 DEF Next, ActivityChoice, Environment,
      MainProgress, RunActivity, RenderTask

(* A push puts the child directly above the caller whose handler waits for it. *)
LEMMA HandlerMatchesChildStep == IInv /\ [Next]_vars => HandlerMatchesChild'
<1> SUFFICES ASSUME IInv, [Next]_vars PROVE HandlerMatchesChild'
  OBVIOUS
<1>0. TypeOK /\ OneOwner /\ MainWhere /\ HandlerWithRequest /\ HandlerMatchesChild
  BY DEF IInv
<1>1. CASE StartActivityForResult
  BY <1>0, <1>1 DEF StartActivityForResult, Navigating, Calling, Spend, Dead, PushActivity,
      With, Without, syncVars, requestVars, waitVars, renderVars, sceneVars, TypeOK,
      Pointer, OneOwner, OnStack, MainWhere, HandlerWithRequest, HandlerMatchesChild
<1>2. CASE GoToSleep \/ Suppressed \/ HomeGesture \/ PanelGesture \/ SetupReturn \/
    BeginLoop
  BY <1>0, <1>2 DEF GoToSleep, RequiresExclusiveStorageLoop, Dead, DeferReplace, With,
      Without, ownVars, syncVars, requestVars, waitVars, renderVars, Suppressed,
      LoopReturns, pendVars, Unchanged_Loop, sceneVars, HomeGesture, LoopTop, PopActivity,
      PanelGesture, PushActivity, SetupReturn, navVars, BeginLoop, TypeOK, Pointer,
      OneOwner, OnStack, MainWhere, HandlerWithRequest, HandlerMatchesChild
<1>3. CASE Restart
  BY <1>0, <1>3 DEF Restart, ActivityPcs, HandlersWithout, Without, TypeOK, Pointer,
      OneOwner, OnStack, MainWhere, HandlerWithRequest, Dead, HandlerMatchesChild
<1>4. CASE PopSilently
  BY <1>0, <1>4 DEF PopSilently, PopToParent, Without, HandlersWithout, Parent,
      Unchanged_Drain, waitVars, renderVars, UnlockAnd, TypeOK, Pointer, OneOwner, OnStack,
      MainWhere, HandlerWithRequest, Dead, HandlerMatchesChild
<1>5. CASE PopToHandler
  BY <1>0, <1>5 DEF PopToHandler, PopToParent, Without, HandlersWithout, Parent,
      Unchanged_Drain, waitVars, renderVars, UnlockAnd, TypeOK, Pointer, OneOwner, OnStack,
      MainWhere, HandlerWithRequest, Dead, HandlerMatchesChild
<1>6. CASE LaunchPending
  BY <1>0, <1>6 DEF LaunchPending, ExitActivities, Without, HandlersWithout, UnlockAnd,
      Unchanged_Drain, waitVars, renderVars, TypeOK, Pointer, OneOwner, OnStack, MainWhere,
      HandlerWithRequest, Dead, HandlerMatchesChild
<1>7. CASE SetupLaunch \/ GoHomeNow
  BY <1>0, <1>7 DEF SetupLaunch, Dead, LaunchNow, With, syncVars, requestVars, waitVars,
      renderVars, sceneVars, GoHomeNow, TypeOK, Pointer, OneOwner, OnStack, MainWhere,
      HandlerWithRequest, HandlerMatchesChild
<1>8. CASE RunLoop \/ RunExclusive \/ OnEnter \/ ReturnFromActivity \/ ReturnFromExclusive
    \/ ReturnFromHandler
  BY <1>0, <1>8 DEF RunLoop, LoopTop, RequiresExclusiveStorageLoop, pendVars,
      Unchanged_Loop, ownVars, syncVars, requestVars, waitVars, renderVars, sceneVars,
      RunExclusive, OnEnter, InitPcs, navVars, ReturnFromActivity, Returning,
      Unchanged_Return, ReturnFromExclusive, FlushRequestedUpdate, LoopReturns,
      ReturnFromHandler, TypeOK, Pointer, OneOwner, OnStack, MainWhere, HandlerWithRequest,
      Dead, HandlerMatchesChild
<1>9. CASE DrainDone \/ PopLock \/ LaunchLock \/ FinishLoop
  BY <1>0, <1>9 DEF DrainDone, navVars, ownVars, pendVars, Unchanged_Drain, waitVars,
      renderVars, PopLock, LaunchLock, FinishLoop, FlushRequestedUpdate, LoopReturns,
      sceneVars, TypeOK, Pointer, OneOwner, OnStack, MainWhere, HandlerWithRequest, Dead,
      HandlerMatchesChild
<1>10. CASE PopLast
  BY <1>0, <1>10 DEF PopLast, ExitActivities, Without, HandlersWithout, UnlockAnd,
      Unchanged_Drain, waitVars, renderVars, TypeOK, Pointer, OneOwner, OnStack, MainWhere,
      HandlerWithRequest, Dead, HandlerMatchesChild
<1>11. CASE TakeLock \/ WriteUnlocked \/ RequestFromActivity \/ Finish \/ GoTo \/
    WaitFromActivity \/ SetupReplace \/ SetupWait \/ UsbStateChanged \/ Shortcut \/
    WriteAndUnlock \/ WaitNotify \/ WaitReturn \/ RenderWakes \/ RenderLocks \/
    RenderRequestsUpdate
  BY <1>0, <1>11 DEF TakeLock, Calling, ActivityPcs, Spend, navVars, ownVars, pendVars,
      requestVars, waitVars, renderVars, sceneVars, WriteUnlocked, syncVars,
      RequestFromActivity, RequestUpdate, Finish, PopActivity, Without, GoTo, Navigating,
      Dead, DeferReplace, With, WaitFromActivity, WaitRegister, SetupReplace, SetupWait,
      UsbStateChanged, RequiresExclusiveStorageLoop, Shortcut, WriteAndUnlock, WaitNotify,
      WaitReturn, RenderWakes, RenderRest, RenderLocks, RenderRequestsUpdate,
      HandlerMatchesChild
<1>12. CASE RenderReturns \/ RenderTakesWaiter \/ RenderNotifiesWaiter \/ RenderUnlocks
  BY <1>0, <1>12 DEF RenderReturns, requestVars, RenderRest, navVars, ownVars, pendVars,
      RenderTakesWaiter, RenderNotifiesWaiter, RenderUnlocks, HandlerMatchesChild
<1>13. CASE UNCHANGED vars
  BY <1>0, <1>13 DEF vars, navVars, syncVars, ownVars, pendVars, requestVars, waitVars,
      renderVars, sceneVars, HandlerMatchesChild
<1> QED
  BY <1>1, <1>2, <1>3, <1>4, <1>5, <1>6, <1>7, <1>8, <1>9, <1>10, <1>11, <1>12, <1>13 DEF
      Next, ActivityChoice, Environment, MainProgress, RunActivity, RenderTask

(* The notification that follows the registration is taken by a render whose epilogue
   is still to come. *)
LEMMA NoLostWakeupStep == IInv /\ [Next]_vars => NoLostWakeup'
<1> SUFFICES ASSUME IInv, [Next]_vars PROVE NoLostWakeup'
  OBVIOUS
<1>0. TypeOK /\ LockDiscipline /\ OneWakeUp /\ NoLostWakeup
  BY DEF IInv
<1>1. CASE RequestFromActivity \/ UsbStateChanged \/ ReturnFromExclusive \/ FinishLoop \/
    RenderRequestsUpdate
  BY <1>0, <1>1 DEF RequestFromActivity, Calling, ActivityPcs, Spend, RequestUpdate,
      navVars, ownVars, pendVars, waitVars, renderVars, sceneVars, UsbStateChanged,
      RequiresExclusiveStorageLoop, ReturnFromExclusive, Returning, FlushRequestedUpdate,
      LoopReturns, Unchanged_Return, FinishLoop, RenderRequestsUpdate, RenderRest, TypeOK,
      Pointer, LockDiscipline, OneWakeUp, NoLostWakeup
<1>2. CASE WaitFromActivity \/ SetupWait
  BY <1>0, <1>2 DEF WaitFromActivity, Calling, ActivityPcs, Spend, WaitRegister, navVars,
      ownVars, pendVars, requestVars, renderVars, sceneVars, SetupWait, TypeOK, Pointer,
      LockDiscipline, OneWakeUp, NoLostWakeup
<1>3. CASE Restart
  BY <1>0, <1>3 DEF Restart, ActivityPcs, HandlersWithout, Without, TypeOK, Pointer,
      LockDiscipline, OneWakeUp, NoLostWakeup
<1>4. CASE WaitNotify
  BY <1>0, <1>4 DEF WaitNotify, navVars, ownVars, pendVars, renderVars, sceneVars, TypeOK,
      Pointer, LockDiscipline, ActivityPcs, OneWakeUp, NoLostWakeup
<1>5. CASE WaitReturn
  BY <1>0, <1>5 DEF WaitReturn, navVars, ownVars, pendVars, requestVars, renderVars,
      sceneVars, TypeOK, Pointer, LockDiscipline, ActivityPcs, OneWakeUp, NoLostWakeup
<1>6. CASE RenderWakes
  BY <1>0, <1>6 DEF RenderWakes, RenderRest, navVars, ownVars, pendVars, TypeOK, Pointer,
      LockDiscipline, ActivityPcs, OneWakeUp, NoLostWakeup
<1>7. CASE RenderLocks \/ RenderReturns \/ RenderUnlocks
  BY <1>0, <1>7 DEF RenderLocks, requestVars, RenderRest, navVars, ownVars, pendVars,
      RenderReturns, RenderUnlocks, TypeOK, Pointer, LockDiscipline, ActivityPcs, OneWakeUp,
      NoLostWakeup
<1>8. CASE RenderTakesWaiter
  BY <1>0, <1>8 DEF RenderTakesWaiter, requestVars, RenderRest, navVars, ownVars, pendVars,
      TypeOK, Pointer, LockDiscipline, ActivityPcs, OneWakeUp, NoLostWakeup
<1>9. CASE RenderNotifiesWaiter
  BY <1>0, <1>9 DEF RenderNotifiesWaiter, requestVars, RenderRest, navVars, ownVars,
      pendVars, TypeOK, Pointer, LockDiscipline, ActivityPcs, OneWakeUp, NoLostWakeup
<1>10. CASE TakeLock \/ WriteUnlocked \/ StartActivityForResult \/ Finish \/ GoTo \/
    SetupReplace \/ Shortcut \/ GoToSleep \/ Suppressed \/ HomeGesture \/ PanelGesture \/
    SetupLaunch \/ SetupReturn \/ BeginLoop \/ RunLoop \/ RunExclusive
  BY <1>0, <1>10 DEF TakeLock, Calling, ActivityPcs, Spend, navVars, ownVars, pendVars,
      requestVars, waitVars, renderVars, sceneVars, WriteUnlocked, syncVars,
      StartActivityForResult, Navigating, Dead, PushActivity, With, Without, Finish,
      PopActivity, GoTo, DeferReplace, SetupReplace, Shortcut, RequiresExclusiveStorageLoop,
      GoToSleep, Suppressed, LoopReturns, Unchanged_Loop, HomeGesture, LoopTop,
      PanelGesture, SetupLaunch, LaunchNow, SetupReturn, BeginLoop, RunLoop, RunExclusive,
      NoLostWakeup
<1>11. CASE OnEnter \/ WriteAndUnlock \/ ReturnFromActivity \/ ReturnFromHandler \/
    DrainDone \/ PopLock \/ PopLast \/ GoHomeNow \/ PopSilently \/ PopToHandler \/
    LaunchLock \/ LaunchPending
  BY <1>0, <1>11 DEF OnEnter, InitPcs, navVars, ownVars, pendVars, syncVars, requestVars,
      waitVars, renderVars, WriteAndUnlock, ActivityPcs, ReturnFromActivity, Returning,
      Unchanged_Return, sceneVars, ReturnFromHandler, DrainDone, Unchanged_Drain, PopLock,
      PopLast, ExitActivities, Without, HandlersWithout, UnlockAnd, GoHomeNow, Dead,
      LaunchNow, With, PopSilently, PopToParent, Parent, PopToHandler, LaunchLock,
      LaunchPending, NoLostWakeup
<1>12. CASE UNCHANGED vars
  BY <1>0, <1>12 DEF vars, navVars, syncVars, ownVars, pendVars, requestVars, waitVars,
      renderVars, sceneVars, NoLostWakeup
<1> QED
  BY <1>1, <1>2, <1>3, <1>4, <1>5, <1>6, <1>7, <1>8, <1>9, <1>10, <1>11, <1>12 DEF Next,
      ActivityChoice, Environment, MainProgress, RunActivity, RenderTask

(* The inductive invariant holds in every reachable state. *)
THEOREM Invariance == Spec => []IInv
<1>1. Init => IInv
  BY InitIInv
<1>2. IInv /\ [Next]_vars => IInv'
  BY TypeOKStep, OneOwnerStep, LockDisciplineStep, MainWhereStep, OneWakeUpStep,
      LockedWritesDrawnStep, HandlerWithRequestStep, UsbQuietStep, RenderTargetAliveStep,
      PendingConsistentStep, HandlerMatchesChildStep, NoLostWakeupStep DEF IInv
<1> QED
  BY <1>1, <1>2, PTL DEF Spec

(* Every variable keeps its type. *)
THEOREM TypeCorrect == Spec => []TypeOK
<1>1. IInv => TypeOK
  BY DEF IInv
<1> QED
  BY <1>1, Invariance, PTL

(* The object on which render() runs is alive and current: the lock closes the race
   between the null check and the call. *)
THEOREM NoUseAfterFree == Spec => []RenderTargetAlive
<1>1. IInv => RenderTargetAlive
  BY DEF IInv
<1> QED
  BY <1>1, Invariance, PTL

(* The drain loop always finds what the pending action needs. *)
THEOREM PendingSafe == Spec => []PendingConsistent
<1>1. IInv => PendingConsistent
  BY DEF IInv
<1> QED
  BY <1>1, Invariance, PTL

(* Results go to the handler of the activity that started the child. *)
THEOREM ResultRouting == Spec => []HandlerMatchesChild
<1>1. IInv => HandlerMatchesChild
  BY DEF IInv
<1> QED
  BY <1>1, Invariance, PTL

(* The asserts of requestUpdateAndWait() never fire. *)
THEOREM AssertsHold == Spec => []WaitAsserts
<1>1. IInv => WaitAsserts
  BY DEF IInv, OneWakeUp, WaitAsserts
<1> QED
  BY <1>1, Invariance, PTL

(* No wake-up of requestUpdateAndWait() is lost. *)
THEOREM WakeUpSafe == Spec => []NoLostWakeup
<1>1. IInv => NoLostWakeup
  BY DEF IInv
<1> QED
  BY <1>1, Invariance, PTL

(* requestUpdateAndWait() returns with everything written under the lock drawn. *)
THEOREM LockedWritesShown == Spec => WaitShowsLockedWrites
<1>1. IInv /\ [Next]_vars => [WaitReturn => "locked" \notin unseen]_vars
  BY DEF IInv, LockedWritesDrawn, WaitReturn
<1> QED
  BY <1>1, Invariance, PTL DEF Spec, WaitShowsLockedWrites

(* The activity that owns the raw storage is left only by a restart. *)
THEOREM StorageHandoff == Spec => UsbNeverLeft
<1> DEFINE Usb == currentActivity # None /\ RequiresExclusiveStorageLoop
<1>1. IInv /\ [Next]_vars =>
        [(Usb /\ currentActivity' # currentActivity) => mainPc' = "setup"]_vars
  <2> SUFFICES ASSUME IInv, [Next]_vars, Usb, currentActivity' # currentActivity
               PROVE  mainPc' = "setup"
    OBVIOUS
  <2>1. UsbQuiet /\ MainWhere
    BY DEF IInv
  <2>2. mainPc \notin {"popping", "launching", "goHome"}
    BY <2>1 DEF UsbQuiet, MainWhere
  <2>3. CASE Restart
    BY <2>3 DEF Restart
  <2>4. CASE TakeLock \/ WriteUnlocked \/ RequestFromActivity \/ StartActivityForResult \/
      Finish \/ GoTo \/ WaitFromActivity \/ SetupReplace
    BY <2>4 DEF TakeLock, Calling, ActivityPcs, Spend, navVars, ownVars, pendVars,
        requestVars, waitVars, renderVars, sceneVars, WriteUnlocked, syncVars,
        RequestFromActivity, RequestUpdate, StartActivityForResult, Navigating, Dead,
        PushActivity, With, Without, Finish, PopActivity, GoTo, DeferReplace,
        WaitFromActivity, WaitRegister, SetupReplace
  <2>5. CASE SetupWait \/ UsbStateChanged \/ Shortcut \/ GoToSleep \/ Suppressed \/
      HomeGesture \/ PanelGesture \/ SetupReturn
    BY <2>5 DEF SetupWait, Calling, Spend, WaitRegister, navVars, ownVars, pendVars,
        requestVars, renderVars, sceneVars, UsbStateChanged, RequiresExclusiveStorageLoop,
        RequestUpdate, waitVars, Shortcut, Dead, DeferReplace, With, Without, syncVars,
        GoToSleep, Suppressed, LoopReturns, Unchanged_Loop, HomeGesture, LoopTop,
        PopActivity, PanelGesture, PushActivity, SetupReturn
  <2>6. CASE BeginLoop \/ RunLoop \/ RunExclusive \/ OnEnter \/ WriteAndUnlock \/ WaitNotify
      \/ WaitReturn \/ ReturnFromActivity
    BY <2>6 DEF BeginLoop, navVars, ownVars, pendVars, syncVars, requestVars, waitVars,
        renderVars, sceneVars, RunLoop, LoopTop, RequiresExclusiveStorageLoop,
        Unchanged_Loop, RunExclusive, OnEnter, WriteAndUnlock, ActivityPcs, WaitNotify,
        WaitReturn, ReturnFromActivity, Returning, Unchanged_Return
  <2>7. CASE ReturnFromExclusive \/ ReturnFromHandler \/ DrainDone \/ PopLock \/ LaunchLock
      \/ FinishLoop \/ RenderWakes \/ RenderLocks
    BY <2>7 DEF ReturnFromExclusive, Returning, FlushRequestedUpdate, LoopReturns,
        Unchanged_Return, navVars, ownVars, pendVars, waitVars, renderVars, sceneVars,
        ReturnFromHandler, DrainDone, Unchanged_Drain, PopLock, LaunchLock, FinishLoop,
        RenderWakes, RenderRest, RenderLocks, requestVars
  <2>8. CASE RenderRequestsUpdate \/ RenderReturns \/ RenderTakesWaiter \/
      RenderNotifiesWaiter \/ RenderUnlocks
    BY <2>8 DEF RenderRequestsUpdate, RequestUpdate, renderVars, RenderRest, navVars,
        ownVars, pendVars, RenderReturns, requestVars, RenderTakesWaiter,
        RenderNotifiesWaiter, RenderUnlocks
  <2>9. CASE SetupLaunch \/ PopLast \/ GoHomeNow \/ PopSilently \/ PopToHandler \/ LaunchPending
    BY <2>2, <2>9 DEF SetupLaunch, PopLast, GoHomeNow, PopSilently, PopToHandler,
        PopToParent, LaunchPending
  <2>10. CASE UNCHANGED vars
    BY <2>10 DEF vars, navVars, ownVars
  <2> QED
    BY <2>3, <2>4, <2>5, <2>6, <2>7, <2>8, <2>9, <2>10 DEF Next, ActivityChoice,
        Environment, MainProgress, RunActivity, RenderTask
<1> QED
  BY <1>1, Invariance, PTL DEF Spec, UsbNeverLeft

=============================================================================
