# A specification of AvesO3

AvesO3 is the firmware of an e-reader (ESP32-C3, one core, FreeRTOS) that keeps books, and
everything it derives from them, on an SD card. This directory holds TLA+ modules that model
parts of it, TLC configurations that check them on small instances, and proofs, checked by
TLAPS, of what matters most for instances of any size.

    tlc -config ActivityManager_safety.cfg MCActivityManager.tla
    tlapm ActivityManagerProofs.tla

`PROJECT.json` maps every definition to the lines it models, and lists components, runs,
mutants, hazards, findings and theorems.

## Inventory

The program has two tasks of equal priority. The *main task* runs Arduino's `setup()` and
`loop()`: input, the code of the current screen, navigation and all file work. The *render
task* draws. They share the current activity, a mutex and a few flags. Everything persistent
is a file on the SD card; the only transactional primitive is a rename that does not
overwrite, and a reset or an empty battery can come between any two file operations.

| Component | State | Operations | Hard part |
|---|---|---|---|
| `ActivityManager`, `Activity`, `RenderLock` | current activity, stack, pending action, mutex, notifications | push/pop/replace, results, `requestUpdate[AndWait]`, drain loop, render loop | two tasks; navigation from anywhere; wake-ups |
| `main.cpp` | RTC-retained restart hint, sleep latch, boot-loop counter | boot routing, silent restart, deep sleep, loop guards | order of save, latch, sleep and restart |
| `Section` (chapter layout cache) | `.bin`, `.bin.part`, unzipped HTML and its temporary; the build in progress | load, start, build some more, suspend, finalize, abandon, clear | failing operations and resets; a build over an older file |
| `EpubReaderActivity` | section, position, pending jumps, saved progress | page turn, chapter change, reposition, background build, save | check-then-lock; state shared with `render()` |
| `Ao3Librarian` | index of 239-byte records behind a 12-byte header | append or update, tombstone, finish, sanitize | three writes per append; misaligned tails |
| Receive, Sync, End of book, Archive helper | book file, `.bak`, caches keyed by path, `progress.bin` | swap the file, invalidate, re-key | interruption between swap and invalidation |
| Settings, state, reading lists | JSON files, lists in memory | lazy load, change, save whole | truncating writes; change before load |
| `FirmwareFlasher`, `OtaBootSwitch` | app partitions, two otadata slots | validate, erase and write, switch | power loss |
| Web server, WebDAV, HTTP client | upload in progress | upload, rename, delete | the hand-over to activities |
| HAL | storage mutex, power lock | lock, file operations, low power | one lock holder at a time |
| Parsing, layout, fonts, graphics, codecs | caches | sequential | data, not control |

What makes each correct:

- *Activities*: the object being drawn is alive and current; requests are carried out exactly
  as recorded; results reach who asked for them; waits end, and end with the screen showing
  what they were to show; the owner of the raw storage keeps it.
- *Section*: what loads was committed; a page that is counted can be read; failure and reset
  leave neither half-written nor stale files that would be believed.
- *Reader*: the position shown, the position saved and the section agree; nothing is used
  after another task let go of it.
- *Index*: every record in the file belongs to a book, none is lost or duplicated by a reset.
- *Replacement*: at each path there is a book, old or new, and caches belong to it.
- *Stores*: what was saved is what is loaded; bounds hold.
- *Firmware*: there is always a bootable image.

The interactions: activities call the manager and are called by it (`onEnter`, `loop`,
`onExit`, `render`, result handlers); the reader owns at most one `Section` and uses it under
the `RenderLock`; network activities replace books behind the reader's caches and leave by a
restart; `main.cpp` decides at boot what the state store says was open.

## Modules

| Module | Models | Theorems |
|---|---|---|
| `ActivityManager` | `ActivityManager.{h,cpp}`, `Activity.cpp`, the calls of `main.cpp` | `ActivityManagerProofs` |
| `MCActivityManager` | symmetry for TLC | |
| `PageCache` | what `Section` promises the reader (abstract) | |
| `SectionCache` | `Section.{h,cpp}` as `EpubReaderActivity` drives it; implements `PageCache` | `SectionCacheProofs` |
| `MCSectionCache` | two layouts for TLC | |
| `ReaderSession` | `EpubReaderActivity.cpp` from `loadBook()` to the destructor, and the session after it | `ReaderSessionProofs`, `ReaderSavingProofs`, `ReaderPlaceProofs` |
| `MCReaderSession` | two layouts for TLC | |
| `FirmwareFlash` | `FirmwareFlasher.cpp`, `OtaUpdater.cpp`, `OtaBootSwitch.cpp`, the two update screens; the bootloader, external | `FirmwareFlashProofs` |
| `Device` | `main.cpp` (boot, restarts, sleep), `CrossPointState`, `ReaderActivity`; EXTENDS `FirmwareFlash` and implements it | `DeviceProofs` |
| `MCDevice` | symmetry for TLC | |
| `Catalogue` | what the library index promises (abstract) | |
| `LibraryIndex` | `Ao3Librarian`'s index, `Ao3IndexActivity`, and what the book menu, the library and the settings do to it; implements `Catalogue` | `LibraryIndexProofs` |
| `MCLibraryIndex` | books for TLC | |

### ActivityManager

An element of `Activities` is an activity object; freeing it returns it to the pool, so a
dangling pointer would be seen as an object of another life or a destroyed one. The variables
are the fields of the class (`currentActivity`, `stackActivities`, `pendingActivity`,
`pendingAction`, `requestedUpdate`, `waitingTaskHandle`), the mutex and its holder, the two
notification counts (Booleans: `ulTaskNotifyTake(pdTRUE)` clears the count) and a program
counter per task. Steps are cut where the other task can come between.

- `renderTaskLoop()` is `RenderWakes`, `RenderLocks`, `RenderReturns`, `RenderTakesWaiter`,
  `RenderNotifiesWaiter`, `RenderUnlocks`. `render()` takes `RenderLock&&`, a reference, so the
  lock is held through the epilogue to the end of the loop body. Two activities ask for
  another update from `render()`: `RenderRequestsUpdate`.
- `loop()` is `BeginLoop`, an early return or gesture (`Suppressed`, `HomeGesture`,
  `PanelGesture`) or `RunLoop`/`RunExclusive`; then activity code; then the drain loop, one
  action per branch and per lock operation; then `FinishLoop`.
- Activity code, wherever the manager calls it, is any sequence of at most `MaxOps` calls:
  take the lock, write and unlock, write unlocked, request an update, wait, start an activity
  for a result, finish, go somewhere. What kinds of activity do is restricted only where the
  code is clear: the splash and the sleep screen do not call in, USB Drive and the frontlight
  panel do not navigate.
- `requestUpdateAndWait()` is `WaitRegister` (the critical section), `WaitNotify`, `WaitReturn`.
  Of its three asserts, two are duties of the caller and are guards; the third is `WaitAsserts`.
- `unseen` is a history variable: what was written since the last `render()` began, under the
  lock or not, and whether an activity was uncovered.

The comment at `ActivityManager.h:66`, that `requestedUpdate` is set by the main loop only,
does not hold, as `RenderRequestsUpdate` shows; it is harmless since the variable is atomic.

### SectionCache and PageCache

The card is four files; a `.bin` file is its version byte, its layout, the pages of its tables
with those that were not written (`bad`) and those written in part (`cut`), the count of its
header and whether the tables were written in full. The object is `pc` and the fields of `Section` and of its `BuildContext`. All of it
runs under the `RenderLock`, so there is one actor; what comes between is a reset (`Crash`,
between any two file operations) and `Faults`, the operations that may fail. A layout is
deterministic, so a page is its number.

- `loadSectionFile()`: `OpenCached`, `OpenUncached`. `startBuild()`: `StartBuild`, `Inflate`,
  `CreateBuild` and a failure for each. `buildSomeMore()`: `LayPage`, `ParseFails`, `Finalize`.
- `~Section()` and `suspendBuild()`: `CloseIdle`, `CloseKeeping`, `CloseDropping`.
- `commitBuildFile()`: `WriteTables` or `RefuseTables`, `StampVersion`, `RemoveOld`, then
  `FinalizeSucceeds`, `SuspendSucceeds` or `RenameFails`.
- A page fails in two ways. Where `Page::serialize()` checks a write, a failure gives the page the
  position 0: it does not count, and the commit refuses it (`bad`). But counts, tags, text styles,
  rules, images and links are written by `writePod()` and `writeString()`, which nobody checks
  (`Serialization.h:12-15`): on a full card such a page comes short, has a position, counts and is
  committed (`cut`). `Found` is that `loadPage()` comes to the place of a page, `CutShort` that it
  is one of those, `Readable` that it is the page that was laid out. `Page::deserialize()` may
  refuse a cut page, and the reader then removes the cache, or make another page of it.
- `PageUnreadable` is what the reader does when a page does not load, `ClearBook` is
  `Epub::clearCache()`, which may stop half way.

When `startBuild()` fails for a section that has a partial file, the background extension
keeps the section and the on-demand path of `render()` resets it. The action keeps it, and the
reset is the `CloseIdle` that may follow.

`PageCache` has two variables: what the card keeps and what the open chapter offers.
Pages are offered one by one, published when they are all of the chapter or more than what the
chapter was opened with, and may be lost by a failure or a reset, but not in part. It is about
which pages there are, not what is in them: a cut page is a page there. The refinement mapping (`cachedPages`, `offeredPages`) lets a committed `.part` file count from the
moment the old file is removed: from there only a reset or a failing rename, both of which
`PageCache` allows to lose what is kept, come before the rename.

### ReaderSession

Both tasks again, here with what they share: `section`, the place in the book and what is
pending for the next `render()`. A handler that takes the render lock is one step, enabled when
the render task does not hold it; what the main task does *without* the lock (the background
build of `loop()`, `pageTurn()`, `persistManualStatus()`, the save at the end of the book) is
cut into a step per access, so that `render()` may come between a test and its use. `render()`
is `RenderBegin`, the steps that open, build, choose and draw, and `RenderSave`.

Text is measured in units, a page of layout `L` holds `LenOf[L]` of them. A place is therefore
an offset that has a page in every layout, and "the reader's place survives" can be said:
`goal` (history) is the text the reader turned or jumped to. `cache` is what `SectionCache`
guarantees of a chapter's file: the pages of one layout that were kept. `excused` and `marks`
(history) record an SD card failure or reset, and the races of the code that a property must
except: a turn between the drawing and the save (`turned`, then `torn`), two saves at a time
(`overlap`), and a save that failed (`lost`, until one succeeds).
`skipPages()` is one step forward within a chapter (`SkipForward`) and two into the next one
(`SkipNext`), since only the latter lets `render()` in before the section goes.

### FirmwareFlash and Device

`FirmwareFlash` writes an image in blocks into the partition that does not run and then
switches the two slots of otadata in two writes, erase and write; power may be lost before each.
The bootloader of ESP-IDF is external: it starts the valid slot with the highest sequence
number and, with `Rollback`, gives a new image one start. The app marks itself valid in
`setup()`.

`Device` EXTENDS it: `flow` goes from `down` over `boot`, `setup`, `run` to `commit` and
`exited` (the two halves of `enterDeepSleep()`) and `asleep`. `setup()` is `SetupBegins`, which
reads the retained restart words and the state file, and one `Route...` per branch in the
order of the code; activities are those that matter to a restart. `card` is `state.json`; a
step that saves sets `dirty` and nothing else happens until `Saved`, a crash or a loss of power,
which may leave the file missing or cut. `due` (history) is the screen the user expects after
the next boot.

### LibraryIndex and Catalogue

`index` is the file: count and sequence number of the header and the records, each with a book,
a number and the tombstone bit. A write that is cut short by a reset leaves what the three
writes leave on the card (`Cut`): the header's sector is written at once, the file's length when
the file is closed. `Stored` is `writeIndexRecord()`: a listed book keeps its slot, a tombstone
is used again, else the file grows up to `MaxBooks`. A count beyond the limit, or an index that
cannot be opened, creates the file anew (`Unfit`, the second disjunct of `Scrapes`).

`state` is `Ao3IndexActivity`: `heap`, `discovery`, `confirm`, then `indexing` and `batch` in
turn, or `single`. Each batch comes from a new walk of the card (`ToDo`), with the books that
failed in this session left out. The other actions are the book menu (`Delete`, `Archive`,
`Restore`, `DeleteCache`), the settings (`ClearCaches`, `SetFolder`), the library
(`sanitizeIndex`) and the card itself (`CardChanges`).

`Catalogue` is a set of books with room for `Capacity`: books are added when there is room, and
dropped; the whole list is lost only after `trouble`, which counts writes cut short and failures
to open. The mapping is the set of books with a live record.

## Runs

| Run | Bounds | Shows |
|---|---|---|
| `activities_safety` | 4 objects, `MaxOps` 2, kinds app, menu, usb; symmetry; 673,606 states | the safety of the two tasks |
| `activities_live` | 2 objects, `MaxOps` 2, kind app; 85,367 states | waits end, requests are drawn |
| `section_safety` | layouts of 2 and 3 pages, all faults; 147,926 states | the files, the counts, the refinement |
| `reader_safety` | 2 chapters of 6 units, layouts of 2 and 3, 3 inputs, 1 SD failure; 822,692 states | the reader's place, `progress.bin`, the section across both tasks |
| `device_safety` | 2 books, 3 images of 2 blocks, sequence numbers to 3, rollback; symmetry; 272,396 states | boots, restarts, sleep and the update together |
| `library_safety` | 2 books and 1 place on the shelf, library of 2, batches of 1 and 2, numbers to 4, 1 trouble; 409,180 states | the index, what is lost and missed, indexing ends |
| `reader_chapter` | turn, return and chapter only, 6 inputs, no failure | refuted, see Findings |
| `wait_shows_all` | 3 objects | refuted, see Findings |
| `sleep_screen_shown` | 3 objects | refuted |
| `sleep_polarity` | 3 objects | refuted |
| `watermark_readable` | as `section_safety`, without `cut` | refuted |
| `failure_leaves_file` | as `section_safety`, without `cut` | refuted |

*Bounds.* Four objects are a screen, one below it, one pending and a fresh one; a pending
activity that is overridden needs the last. Two calls per `loop()` are enough for a navigation
that overrides another, for a write followed by a request, and for a request followed by a
wait; each `loop()` starts anew, so calls add up over iterations. With two objects the liveness
run still has a stack of one and a pending activity or a covered one. Two and three pages let
a partial file be extended, overtaken, completed, and found by another layout. `crashed`, `pc`
and the counters are bounded by the code itself. The two runs that refute a comment about the
cache leave out the fault `cut`: their counterexamples are about failures that the code sees.

In `reader_safety` all twelve kinds of input happen, three in a behaviour: an input that leaves
something pending, one that consumes it wrongly and one that shows it, or two and the reopening.
Two and three pages per chapter have a first, a middle and a last page, and offsets that begin a
page in one layout and lie inside one in the other. In `device_safety` two blocks can be cut
between, three sequence numbers update each partition in turn, and two books tell the right one
from the wrong one. In `library_safety` a library of two is filled, emptied and filled through
its tombstones; four numbers are two more than it holds. In a batch of two the books are more or
fewer than a batch, and one archived book fills a batch of one: `batchSize` is picked when a
session loads the settings. One write cut short is what
distinguishes the interesting states; `LibraryIndexProofs` is about any number.

*Deadlock* is checked but in `reader_safety`, `reader_chapter` and `library_safety`, where the
bound on inputs, and on sequence numbers, lets the model stop.

*Fairness* (`LibraryIndex`). Weak fairness of `Tick` alone, what `loop()` does unasked: it is
called for ever. The user may never answer, so `SessionEnds` has as its premise that the user
always does, and says that the screen then gets to an end, with the one exception of the code
(`OnlyArchived`): when the walked folder has as many archived books as a batch holds, they are
tried for ever, since `scrape()` returns true without listing them (`Ao3Librarian.cpp:699`). The
instance has such sessions, in batches of one; without the exception TLC refutes the property.

*Fairness* (`ActivityManager`). Weak fairness of the main task's progress and of the render
task's: FreeRTOS schedules equal priorities in turn, activity code and `render()` return. The
calls of activity code, gestures and the user's events are not fair. Strong fairness for two
steps: `RenderLocks`, since `main.cpp:800-815` delays or yields in every iteration with the
lock free, so the render task comes to a free mutex however often `loop()` takes it; and
`RunActivity`, since gestures and suppressed releases are the user's and do not fill every
iteration. Nothing is assumed of a drain loop that navigates for ever, since a `loop()` has at
most `MaxOps` calls: that activities do not do so is a property of their code.

*Mutants.* Each property has a mutant, defined before the action it replaces: a plausible slip
in that action which the property catches.

## Proofs

For any set of activity objects, any kinds to launch and any `MaxOps`, and for any layouts,
page counts and set of faults. Assumptions are those of the modules: `None` is no activity,
`NoFile` is no file record, `Pages` maps layouts to naturals.

*ActivityManagerProofs.* `IInv` adds to the properties what makes them inductive: `OneOwner`
(as `unique_ptr` has it: current, pending and stack share no object and own no destroyed one),
`LockDiscipline` (who holds the mutex where), `MainWhere` (what `loop()` has established at
each program counter), `OneWakeUp` (the wake-up of a waiter is in exactly one place: registered,
in the render task's hand, or sent), `LockedWritesDrawn`, `HandlerWithRequest` (a handler is
registered only together with a request) and `UsbQuiet`. `RenderTargetAlive` alone is not
inductive: a pop frees the target unless the mutex excludes it, which is `LockDiscipline`;
`NoLostWakeup` needs `OneWakeUp`. One lemma per conjunct, one step per action that can
disturb it. From `Invariance` follow `NoUseAfterFree`, `PendingSafe`, `ResultRouting`,
`AssertsHold`, `WakeUpSafe`, `LockedWritesShown`, `StorageHandoff`.

*SectionCacheProofs.* `IInv` relates the object to the card: `PartialOnDisk` and `FinalOnDisk` (a
section that counts pages has the file it counted them from, until the swap removes it), `Counts`,
`PartFile` (what the `.part` file holds at each step of the commit), `TempFiles` and `FileFits`.
`Available` (by `CountedIsFound`) and `NoLeftovers` follow from it; `CommittedSafe` and `HtmlSafe`
are conjuncts of it; `ClosingSafe` is a step property. `Available` and `CommittedOnly` say what
the code guarantees when it does not see every failure, and except the pages cut short.
`WholeUnlessCut` says what an unchecked write costs: as long as none comes short (`"cut"` is not
in `Faults`), every page that is listed is whole and every page counted can be read, but for a
page this build saw fail and a finalized file with cut tables. It adds `NothingCut` to `IInv`.
`PromiseKept` is the refinement: the initial states map to initial states, and under `IInv` each
action maps to a step of `PageCache` or to a stutter (`RefinementStep`).

*FirmwareFlashProofs.* `FlashIInv` adds `SeqsDiffer`, `RunsSelected` (the app runs from the
selected partition until the switch, so that the partition being written is never the active
one), `Written` (what is on the partition when the switch begins is what passed) and `OneTrial`
(no update begins while an image is on trial). The lemmas about the two slots come first: a new
number is above the active one and selects the partition it is made for (`NewSeqSelects`), and
the slot that is erased is not the active one (`TargetNotActive`). For any images and blocks,
with rollback and without; sequence numbers are naturals here, 32 bits in the code.

*DeviceProofs.* `DeviceFlashes` is the refinement: each action of `Device` is an action of
`FirmwareFlash` or leaves the flash alone, so the theorems of `FirmwareFlashProofs` carry over.
`SleepSafe` needs `Latched`: from the commit to the deep sleep `deepSleepInProgress` is set, and
every activity that would restart the device on exit asks it.

*LibraryIndexProofs.* First what each operation does to any well-formed index (`RecordStored`,
`RecordCut`, `FewerKeeps`): it stays well formed, with one live record per book and, unless a
reuse is torn, different numbers below the next; and its books are the former ones, one more
where there was room, or fewer. `NextFile` puts the actions together. `LibraryIInv` adds
`CountExact` (without trouble the count is that of the records, so that a count out of range
means trouble) and `LastBatchHasAll` (in the last batch of a session, what is left are the only
books still to do), which `NothingMissed` needs. For any books, limits and batch sizes.

`DeviceTypeCorrect`, `LandsSafe` and `BootLoopSafe` are one invariant, `DeviceIInv`: `StackShape`
(there are screens exactly while the loop runs, and what may stand on what), `StateKept` (what is
being written is what the app remembers, and the book that is shown is remembered and, once
written, on the card), `BootRecord` (the retained words are consumed once, after a restart of the
code's own), `CrashBound` (after one crash the book was opened with the guard up, and the guard
is on the card by the time the book can crash the device again) and `DueKept` (the screen due, for
every `flow` up to the end of `setup()`, which is all that `LandsWhereDue` speaks of).
`NoBootLoop` alone is not inductive: a second crash must find the guard on the card, which is
`CrashBound`, which needs to know what is written when (`StateKept`). One lemma per action or
group of actions; what a navigation does to the stack is proved once.
`StatesAssumption`: no file is not a file.

*ReaderSessionProofs.* `Types` is the invariant behind `TypeOK` and all that follows: the numbers
of a section are those of its layout, what is about to be written is well formed, and each step
of the two tasks finds the section, the chapter and the page its test left (`StepsOK`,
`LocatedOK`, `TurnBackOK`). `TypeOK` alone is not inductive, because a step's assignments are in
bounds only by what a former step tested. The lemmas named `...Effect` say what each
step that works on the section does to it: continues the layout, starts it again, loses it. For
any book, layouts, anchors and bounds; assumed are that a page of a layout is not longer than a
chapter and divides it (`ReaderAssumption`), and that `None` is none of the data.

In the same module, `SectionThere`: `NullOK` carries `NoNullSection` through every step between the
test and the use; that another task takes the section away in between needs an SD failure.
`NoTextSkipped`: `SkipOK` strengthens `NothingSkipped` to all that makes a chapter's last page the
last: the deferred place is used up when a partial layout is opened (`DeferredUsed`), a layout that
could not be started is tried again (`StartRetried`), nothing draws while a turn decides
(`TurnAlone`), a turn does not start at the end of pages that nobody is adding to (`TurnDue`), the
extension of a layout does not run past the book (`ExtendInside`), and so a chapter is left, and the
book ended, from a whole layout (`WholeLeft`).

*ReaderSavingProofs.* `PageSaved`, `OffsetSaved` and `EndSaved` are about what `progress.bin` holds
when both tasks rest. Most steps are alike to them, so `EveryStep` first sorts the steps into
twenty kinds (the render task lays out, draws, notes, writes; the main task turns, jumps, sets
the status, ...), and the invariants are proved per kind. `FollowOK` follows a page
from the screen to the file: what is shown is what is noted for saving or has been (`Drawn`,
`PageNoted`), what is noted is what is being written (`Writing`), and what was written is in the
file unless a mark says why not (`Stored`); `Followed` says that without a request for
another drawing nothing is left to do. `EndOK` does the same for the end of the book, where the
main task writes: its bytes say that the book is finished (`EndWriting`) and, once written, the
file does (`EndStored`), whatever status was chosen before (`TurnedBack`).
`StatusSurvives` is about a status chosen in the menu, which the next saves must keep though they
know only a page. `ChosenOK` says why each of them is of the page the status was chosen on: a page
drawn and not turned is the one saved, and in reach (`Rested`); the place kept for the end of a
build is used when the build ends (`Settled`); and a chapter that the list of chapters let go of is
reopened on that page, by its offset, by a file that ends with the page, or because nothing is
deferred (`Awaited`).
`ScreenShown` is about the screen. A render gives up after an SD failure only (`GivesUp`), and what
it is to draw is there (`ShowReal`) if the page is not negative (`PageReal`). A turn back makes it
so when it goes by a page that has none before it, and it does not (`BackDue`): the render task
moves the page under a turn only to the last of a whole layout, which is the first in a layout of
one page; there, no turn is under way (`OneWhole`, `OneStill`).

*ReaderPlaceProofs.* `PlaceSafe` is `PlaceKept`: when both tasks rest, the page on the screen holds
the text at `goal`. The place changes its form on the way, and `Kept` says which form it has. While
the chapter waits for its section, it is what is pending and deferred (`Led`): one of the six ways of
saying where a chapter opens leads to `goal`, in the order in which `render()` asks for them
(`Leads`), and a page number does so only if it is one of the layout that will be opened
(`NextLeads`, `DeferredLeads`). Once a section is there, it is the section's page (`Placed`), and
what is still deferred will not move that page (`Still`). Between two sessions it is what
`progress.bin` holds (`ClosedOK`). Each kind of step carries the place from one form to the
next: `RenderPlace` from `Leads` to `Placed`, for which it must have been laid out
by then (`PlaceReady`, `Covered`); `Relayout` back again; a jump sets both `goal` and the form
that leads there; `Leave` to `ClosedOK` and `Open` from it.
Around it stands `RestOK`, what the place rests on. A jump in a chapter leaves nothing deferred
and waits for its section (`AsideOK`), and what another jump left is marked as stale (`LeftStale`).
The file of the open chapter is of its layout (`CacheOf`). What is on the screen is the
section's page until an update is requested (`Fresh`), a section that is missing then was lost to a
failure (`Lost`), and a drawn page is a page of its layout (`ShowFits`, `ShownFits`).
No page is turned while a section is opened (`OpenPage`, `SkipAlone`), the book ends on its last
page (`EndLast`), and a turn finds under the lock the section it was pressed for (`LockHeld`). The
arithmetic comes first: offsets to pages and back, in one layout and between two (`PageOfUnit`,
`QuotientIs`). For any book, layouts, anchors and interleaving.

The proof was first attempted with fewer exceptions in `PlaceKept`, and failed for good reasons:
four cases in which the code does lose the place, and which no run reaches within its bounds. Each
is now an exception where the model sets `excused`. Coming back from the end of the book, an SD
failure may have kept the last page from being laid out (`LastMissed`), or a place deferred in that
chapter and never used moves the reader when the chapter is laid out again (`OldPlace`). After an
SD failure an offset may still be deferred when the reader skips back into its chapter, or to that
chapter's first page (`OldOffset`). And a book left from a footnote saves the page number of the
chapter the footnote was in, which another layout than the file's may have given it (`Leave`).
`OldPlace` takes no failure: a bookmark beyond the part laid out and a change of layout leave a
place deferred; a skip to the end of the book does not drop it, as a turn would; back from the end,
another change of layout and the page shown is not the last. It takes three layouts, which is
why the run, with two, does not meet it.

*Only model-checked*: the liveness properties (three of `ActivityManager`, `SessionEnds`), which
are beyond the prover. Every safety property that a passing run checks is the statement of a theorem.
The findings are counterexamples of TLC.

## Findings

1. `ActivityManager.h:116`: `requestUpdateAndWait()` "Trigger[s] a render and block[s] until it
   completes", but may be served by the render that was under way. What was written under the
   lock is shown (`LockedWritesShown`); what was not, as in `AO3SyncActivity.cpp:65-74`, may not be.
2. `ActivityManager.cpp:295`: `goToSleep()` may return with another screen than the sleep screen.
3. `SleepActivity.cpp:495`: the sleep screen may be drawn with night mode's polarity.
4. `Section.cpp:265`: a page of a loaded partial file is not readable once the build over it
   has failed to write that page.
5. `Section.cpp:616`: when the rename of the swap fails, the old file is gone.
6. `EpubReaderActivity.cpp:1182`: a chapter chosen from the list after coming back from the end
   of the book opens on its last page, since the page number left for `render()` was not
   consumed.

### Seen while modelling

These have no run: each is a case a property excepts by name, or lies just outside a model.

*Activities and chapters.* The branch of `popActivity()`/`pushActivity()` marked
as impossible (`ActivityManager.cpp:325`) is reached when a request overrides another;
`Section.cpp:644` says that a failed commit has removed `filePath`, which `failCommit` has not;
`Section.h:58` says that the count is the size of the table, which a failed page makes false;
the tables, and most of what a page consists of, are written without a check, so that a finalized
file with cut tables loads and a page cut short is listed (the exceptions in `Available`); a file that cannot be opened once is laid out again, and a smaller
partial may then replace a larger file.

*Reader.* A page number left pending by the end of the book, or by a book that failed to open, is
used by a later chapter, and also by the same one when the list of chapters is opened and left
again: the reader is moved to the last page, and a status chosen before is replaced. A skip, and
coming back from the end of the book, leave a deferred place that was not used (`OldPlace`, above);
it moves the reader when the chapter is next laid out. `persistManualStatus()` does nothing while
the section is null or the page undrawn, and the status is lost; a background reposition resets it
too. The turn, the extension and the background tick test the section before they take the lock, or
never take it, and use it without a second test; only an SD failure of `render()` in between makes
it null. A turn during the save leaves the progress torn between two pages; the save at the end of
the book and that of `render()` may overlap. "Delete cache" and leaving from a footnote save offset
0, which a later change of layout then uses, and the latter a page number that the file of another
layout is read with. A bookmark beyond the part laid out falls back to the page number of another
layout. A page that does not load reopens at `nextPageNumber`. `lastSaved...` is set before the
write, so a failed write is not tried again for the same page, a save refused for a page number of
-1 leaves it so, and a save is skipped when chapter, page and count agree although the layout
changed. A status chosen while a page was turned and turned back is saved with the offset of the
page between. After a failed save, a status chosen in the menu and the save at the end of the book
may overlap so that the file of a finished book keeps the chosen status. After a rebuild that could
not start, a forward turn at the end of the partial pages jumps to the next chapter.

*Device.* The screen of a finished update does not hold off the sleep timer, so its restart
overtakes the sleep. The recovery picker can be left through the power button bound to AO3
receive or the home gesture, despite `SdFirmwareUpdateActivity.cpp:35`. A plain restart after an
update uses the routing of a wake-up and may resume the reader. After a crash the boot-loop
count stays raised until a reader exits. `showBootScreen` is never false, so the splashless wake
of `USER_GUIDE.md:202` is not reachable. On the SD path nothing reads the flash back after it
was written.

*Index.* With the root as AO3 folder and as many archived books as a batch holds, every batch is
those books again: `scrape()` returns true for them without listing them (the exception in
`SessionEnds`). For the same reason the
advice to reindex an archived book (`BookActionActivity.cpp:390`) does nothing and reports
success. A count that crept past `MAX_LIBRARY_BOOKS` through writes cut short makes the next write
drop the whole index, and so does one failure to open it. A reuse cut short gives the same number
twice (`Ao3CompactIndexRecord.h`: "monotonically increasing"). "Clear cache" removes all sidecars,
so that "Library Cleanup" drops every book, and archived books cannot be restored. A cache
directory in the way at archiving keeps the old path. `pending_ao3_scan` is cleared when the
library opens, before the scan is done, and "Delete cache" sets it in memory only.

## Not modelled, and the plan

Left out of the models above: in `SectionCache` a write of the header that comes short, at the
start of a build or when the commit patches it, and a version byte that is not written; in
`LibraryIndex` the data of the records (an update resets the
finished bit, sorting and parsing), single writes that fail on a working card, the order of the
walk and its exclusions, a missing AO3 folder, and the scan flag; in `Device` settings and
splash, a write of the state file that fails on a working card, and a card exchanged while a
firmware is read; in `ReaderSession` overlays, automatic turns (a turn like any other), and a
`render()` that ends between the test of `loop()` and the turn.

In this order, each with its MC module, and proofs where the state is a finite record of files:

1. `BookReplace`: the swap of a book file, the invalidation of its caches and `progress.bin`,
   composed with the abstract cache: caches belong to the book at the path.
2. `ReadingLists`: bounded lists, lazily loaded and saved whole; the other JSON stores are alike.
3. The lock of `ReaderSession` as what `ActivityManager` is shown to implement.
4. `PowerLock` and the upload state of the web server.

Each of these brings its own theorems; of the modules above, every safety property is proved.

Not planned: parsing, layout, fonts, graphics and codecs, which are sequential functions of
their data; the network protocols; the menus. These are also most of the repository: of its
260,000 lines about three in four are font tables, hyphenation tries and vendored libraries
(expat, miniz), and much of the rest is drawing and parsing, so that the share of the lines that
is modelled stays small however much of the control is.
