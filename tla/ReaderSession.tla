---------------------------- MODULE ReaderSession ----------------------------
(***************************************************************************)
(* src/src/activities/reader/EpubReaderActivity.cpp: one reading session   *)
(* of an EPUB (an AO3 work), from loadBook() to the destructor, and the    *)
(* sessions after it, which start from the progress file.                  *)
(*                                                                         *)
(*   main task    loop(): input, background work on the chapter's layout,  *)
(*                the end of the book; and the handlers of the menus       *)
(*   render task  renderBook(), under the render lock from RenderBegin to  *)
(*                the step that returns to "idle"                          *)
(*                                                                         *)
(* A handler that takes the lock is one step, enabled when the render task *)
(* does not hold it. What the main task does WITHOUT the lock is cut into  *)
(* a step per access: test, lock, use. The chapter layout cache is what    *)
(* SectionCache checks; here it is how many pages of which layout a        *)
(* chapter's file holds.                                                   *)
(*                                                                         *)
(* Text is measured in units: every chapter has Units of them and a page   *)
(* of layout L holds LenOf[L], so that a place in the text is an offset    *)
(* and layouts can be compared.                                            *)
(*                                                                         *)
(* Not here: the overlays and pop-ups, auto page turn (a turn by itself),  *)
(* bookmarks as files, the dictionary, launchKOReaderSync(), the reading   *)
(* lists and books whose text does not start in chapter 0.                 *)
(***************************************************************************)
EXTENDS Integers, Sequences, FiniteSetsExt

CONSTANTS
    Spines,          \* chapters of the book (getSpineItemsCount)
    Layouts, LenOf,  \* layouts, and the units of text on a page of each
    FirstLayouts,    \* BOUND: layouts the first session starts in
    Units,           \* units of text of a chapter
    Anchors,         \* offsets that links, footnotes and bookmarks point to
    ManualStatuses,  \* statuses the reader menu offers
    EndStatus,       \* natural status at the end: FINISHED, or WAITING for a WIP
    Inputs,          \* kinds of input that happen
    WindowAhead,     \* BUILD_WINDOW_AHEAD
    StartMargin,     \* PARTIAL_REBUILD_START_MARGIN
    MaxRetries,      \* MAX_PAGE_LOAD_RETRIES
    MaxDepth,        \* MAX_FOOTNOTE_DEPTH
    MaxEvents,       \* BOUND: inputs and SD card failures in a behaviour
    MaxFaults,       \* BOUND: SD card failures among them
    None             \* null pointer, empty optional

Chapters == 0 .. Spines - 1
Pages(L) == Units \div LenOf[L]
MaxPage  == 2 * Units     \* std::numeric_limits<uint16_t>::max(): beyond any page

ASSUME ReaderAssumption ==
    /\ Spines \in Nat \ {0} /\ Units \in Nat \ {0} /\ MaxRetries \in Nat
    /\ StartMargin \in Nat \ {0}
    /\ LenOf \in [Layouts -> 1 .. Units] /\ \A L \in Layouts : Units % LenOf[L] = 0
    /\ Anchors \subseteq 0 .. Units - 1 /\ FirstLayouts \subseteq Layouts
    /\ MaxDepth \in Nat /\ MaxEvents \in Nat /\ MaxFaults \in Nat

Statuses == {"START", "READING", "FINISHED", "WAITING_FOR_CHAPTER",
             "NEW_CHAPTER_AVAILABLE", "MARKED_FOR_LATER"}

ASSUME StatusAssumption == EndStatus \in Statuses /\ ManualStatuses \subseteq Statuses

PageNumbers == Nat \cup {-1}    \* a turn after an SD card failure gives -1
Sections == [spine : Chapters, layout : Layouts, page : PageNumbers, count : Nat, built : Nat,
             building : BOOLEAN, partial : BOOLEAN]
Saved    == [spine : 0 .. Spines, page : PageNumbers, count : Nat, offset : Int,
             of : Layouts \cup {None}, status : Statuses]
TurnsDue == [dir : {-1, 1}, page : PageNumbers]

ASSUME NoneAssumption ==
    /\ None \notin Int /\ None \notin Layouts /\ None \notin Statuses
    /\ None \notin Sections /\ None \notin Saved /\ None \notin TurnsDue

VARIABLES
    layout,      \* SETTINGS: font, orientation, margins
    cache,       \* per chapter: the layout and number of pages its file holds
    progress,    \* progress.bin; None: not there
    section,     \* unique_ptr<Section>
    spine,       \* currentSpineIndex
    pend,        \* next (nextPageNumber), last (pendingPageJump), offset
                 \*   (pendingOffsetJump), anchor, percent (pendingSpineProgress)
    deferred,    \* cachedSpineIndex, cachedChapterTotalPageCount,
                 \*   cachedVisibleTextOffset
    origin,      \* savedPositions up to footnoteDepth
    status, manual,      \* currentStatus, statusManuallySet
    lastSaved,           \* lastSavedSpineIndex, lastSavedPage, lastSavedPageCount
    eob,                 \* eobProcessed
    startFailed,         \* partialRebuildStartFailed
    retries,             \* pageLoadRetryCount
    queued,              \* pendingManualTurn
    renderPc, notified,  \* render task, and an update was requested
    renderSave,          \* what render's saveProgress() is about to write
    mainPc, turn,        \* main task, and the turn it is in the middle of
    mainSave,
    shown, pageOffset,   \* the screen; currentPageVisibleOffset
    inputs, faults,      \* bounds: left
    goal, excused, stale, byMenu, marked, marks  \* history, see the properties

place    == <<section, spine, pend, deferred>>
saving   == <<progress, status, manual, lastSaved>>
mainVars == <<mainPc, turn, mainSave, queued>>
drawVars == <<renderPc, renderSave, shown, pageOffset, retries>>
history  == <<goal, excused, stale, byMenu, marked, marks>>
bounds   == <<inputs, faults>>
rest     == <<origin, eob, startFailed>>
vars     == <<layout, cache, place, saving, mainVars, drawVars, notified, history,
              bounds, rest>>

----------------------------------------------------------------------------
(* Sections: [spine, layout, page, count, built, building, partial].        *)

Whole(sec)    == ~sec.building /\ ~sec.partial
InBounds(sec) == sec.page \in 0 .. sec.count - 1
OffsetOf(sec, p) == p * LenOf[sec.layout]

(* estimatedTotalPages(): extrapolated, and never less than what is laid out. *)
Estimates(sec) == IF Whole(sec) THEN {sec.count} ELSE {sec.count, Max({sec.count, Pages(sec.layout)})}

(* getPageForVisibleTextOffset(): None beyond what is laid out. *)
PageAt(sec, o) ==
    IF Whole(sec) \/ o <= OffsetOf(sec, sec.count - 1) THEN o \div LenOf[sec.layout] ELSE None

(* findAnchor() *)
AnchorPage(sec, o) ==
    LET p == o \div LenOf[sec.layout] IN IF p < sec.count THEN p ELSE None

(* new Section() and loadSectionFile(): a file of another layout is removed. *)
Loaded(s) == cache[s].pages > 0 /\ cache[s].layout = layout
NewSection(s) ==
    LET n == IF Loaded(s) THEN cache[s].pages ELSE 0 IN
    [spine |-> s, layout |-> layout, page |-> 0, count |-> n, built |-> 0,
     building |-> FALSE, partial |-> Loaded(s) /\ n < Pages(layout)]
Started(sec) == [sec EXCEPT !.building = TRUE, !.built = 0,
                            !.count = IF sec.partial THEN @ ELSE 0]

(* buildSomeMore(): one page. *)
Advanced(sec) ==
    LET b == sec.built + 1
        all == b = Pages(sec.layout)
    IN  [sec EXCEPT !.built = b, !.count = Max({@, b}),
                    !.building = ~all, !.partial = @ /\ ~all]
File(sec, n) == [layout |-> sec.layout, pages |-> n]

(* ~Section() suspends a build: what it laid out beyond the file is kept. *)
Dispose(c) ==
    IF section # None /\ section.building /\ (~section.partial \/ section.built = section.count)
      THEN [c EXCEPT ![section.spine] = File(section, section.built)]
      ELSE c
(* Mutant: only the page count is cleared. *)
NoDeferredTotal(d) == [d EXCEPT !.total = 0]
NoDeferred(d) == [d EXCEPT !.total = 0, !.offset = None]

(* rememberCurrentContentOffset() and the three assignments that follow it. *)
Remembered ==
    IF section = None THEN <<deferred, pend.next>>
    ELSE <<[spine |-> spine, total |-> section.count,
            offset |-> IF InBounds(section) THEN OffsetOf(section, section.page)
                       ELSE None],
           section.page>>

Screen(k) == [kind |-> k]
LockFree  == renderPc = "idle"
Request  == notified' = TRUE
Left     == inputs - (MaxFaults - faults)       \* bound: events left
Fault    == faults > 0 /\ Left > 0 /\ faults' = faults - 1
Input(k) == k \in Inputs /\ Left > 0 /\ inputs' = inputs - 1
Idle     == mainPc = "loop"

----------------------------------------------------------------------------
(* saveProgress(): the natural status, lastSaved..., and the bytes to write. *)

(* Mutant: off by one. *)
PastEnd(s) == s > Spines
AtEnd(s) == s >= Spines
Moved(s, p) == s # lastSaved.spine \/ p # lastSaved.page
(* Mutant: a longer layout counts as a move. *)
KeepManualCounted(s, p) ==
    manual /\ ~Moved(s, p) /\ section # None /\ section.count = lastSaved.count
KeepManual(s, p) == manual /\ ~Moved(s, p)
Held          == status \in {"WAITING_FOR_CHAPTER", "NEW_CHAPTER_AVAILABLE"}

NaturalStatus(s, p) ==
    LET start == s = 0 /\ p = 0 IN
    CASE KeepManual(s, p)     -> status
      [] ~KeepManual(s, p) /\ Held -> IF start \/ AtEnd(s) THEN status ELSE "READING"
      [] ~KeepManual(s, p) /\ ~Held /\ start ->
            IF status = "MARKED_FOR_LATER" THEN status ELSE "START"
      [] OTHER -> IF AtEnd(s) THEN EndStatus ELSE "READING"

SavedPage(s, p) ==
    IF AtEnd(s) /\ ~KeepManual(s, p) /\ ~Held /\ ~(s = 0 /\ p = 0) THEN 0 ELSE p

(* The offset written with page p: of the page drawn last when p is the current
   page, else from the layout, else 0. of (history): the layout it was found in. *)
SavedOffset(s, p) ==
    IF section # None /\ s = spine /\ p < section.count
      THEN IF p = section.page /\ pageOffset # None THEN pageOffset ELSE OffsetOf(section, p)
      ELSE None

Save(s, p, n) ==
    /\ status' = NaturalStatus(s, p)
    /\ manual' = KeepManual(s, p)
    /\ lastSaved' = [spine |-> s, page |-> SavedPage(s, p), count |-> n]
Bytes(s, p, n) ==
    [spine |-> s, page |-> SavedPage(s, p), count |-> n,
     offset |-> IF SavedOffset(s, SavedPage(s, p)) = None THEN 0
                ELSE SavedOffset(s, SavedPage(s, p)),
     of |-> IF SavedOffset(s, SavedPage(s, p)) = None THEN None ELSE section.layout,
     status |-> NaturalStatus(s, p)]

(* EpubReaderUtils::saveProgress(), which refuses a negative page (a turn after an SD
   card failure), and ProgressFile::writeAtomic(): a failure before the old file is
   removed keeps it, one after it leaves none. marks (history) remembers the failure
   until a save is done. *)
Write(bytes, also) ==
    \/ /\ bytes.page < 0 /\ marks' = (marks \ {"turned"}) \cup also
       /\ UNCHANGED <<progress, faults>>
    \/ /\ bytes.page >= 0 /\ marks' = (marks \ {"lost", "turned"}) \cup also
       /\ progress' = bytes /\ UNCHANGED faults
    \/ /\ bytes.page >= 0 /\ marks' = (marks \ {"turned"}) \cup {"lost"} \cup also
       /\ progress' \in {progress, None} /\ Fault

----------------------------------------------------------------------------
(* History: where the reader asked to be. *)

AimUnless(s, o, lost) == goal' = [spine |-> s, offset |-> o] /\ excused' = lost
Aim(s, o) == AimUnless(s, o, FALSE)
(* The deferred place of a chapter, its offset or a page of so many, has not been used: it
   is when the chapter is next laid out. A turn drops it, a skip does not. *)
OldOffset(s) == deferred.spine = s /\ deferred.offset # None
OldPlace(s)  == deferred.spine = s /\ (deferred.offset # None \/ deferred.total # 0)
Somewhere == marked' = None /\ byMenu' = FALSE
Leftover  == pend.last \/ pend.anchor # None \/ pend.offset # None \/ pend.percent # None
Quiet    == mainPc = "loop" /\ LockFree /\ ~notified     \* both tasks rest
OnScreen == shown.kind = "page" /\ spine < Spines
JumpTo(s, o) == Aim(s, o) /\ stale' = (stale \/ Leftover)
PlaceLost == excused' = TRUE /\ stale' = (stale \/ Leftover)

NoPend == [next |-> 0, last |-> FALSE, offset |-> None, anchor |-> None, percent |-> None]

Init ==
    /\ layout \in FirstLayouts
    /\ cache = [s \in Chapters |-> [layout |-> layout, pages |-> 0]]
    /\ progress = None /\ section = None /\ spine = 0 /\ pend = NoPend
    /\ deferred = [spine |-> 0, total |-> 0, offset |-> None]
    /\ origin = <<>> /\ status = "START" /\ manual = FALSE
    /\ lastSaved = [spine |-> -1, page |-> -1, count |-> -1]
    /\ eob = FALSE /\ startFailed = FALSE /\ retries = 0 /\ queued = 0
    /\ renderPc = "idle" /\ notified = TRUE /\ renderSave = None
    /\ mainPc = "loop" /\ turn = None /\ mainSave = None
    /\ shown = Screen("blank") /\ pageOffset = None
    /\ inputs = MaxEvents /\ faults = MaxFaults
    /\ goal = [spine |-> 0, offset |-> 0] /\ excused = FALSE /\ stale = FALSE
    /\ byMenu = FALSE /\ marked = None /\ marks = {}

----------------------------------------------------------------------------
(* render task: renderBook() *)

RenderBegin ==
    /\ LockFree /\ notified /\ mainPc \notin {"chapters", "end", "closed", "panic"}
    /\ notified' = FALSE
    /\ renderPc' = CASE spine = Spines -> "idle"
                     [] spine # Spines /\ section = None -> "open"
                     [] OTHER -> "fit"
    /\ UNCHANGED <<layout, cache, place, saving, mainVars, renderSave, shown, pageOffset,
                   retries, history, bounds, rest>>

(* The target of an opened section, and whether what is laid out covers it. *)
OffsetJump(sec) ==
    CASE pend.offset # None -> pend.offset
      [] pend.offset = None /\ (pend.last \/ pend.anchor # None \/ sec.spine # deferred.spine)
            -> None
      [] OTHER -> deferred.offset
Target   == IF pend.last THEN MaxPage ELSE Max({pend.next, 0})
Deferrable(sec) ==
    /\ sec.partial /\ pend.percent = None
    /\ IF pend.anchor # None THEN AnchorPage(sec, pend.anchor) # None
                             ELSE Target + StartMargin < sec.count
Reached(sec) ==
    CASE pend.percent # None -> FALSE
      [] pend.percent = None /\ pend.anchor # None -> AnchorPage(sec, pend.anchor) # None
      [] OTHER -> IF OffsetJump(sec) # None
                    THEN sec.built > 0 /\ OffsetJump(sec) <= OffsetOf(sec, sec.built - 1)
                    ELSE sec.count > Target

RenderOpen ==
    /\ renderPc = "open"
    /\ LET sec == NewSection(spine)
           d   == IF Loaded(spine) THEN NoDeferred(deferred) ELSE deferred
       IN  /\ deferred' = d
           /\ startFailed' = FALSE
           /\ cache' = IF Loaded(spine) THEN cache
                       ELSE [cache EXCEPT ![spine] = [layout |-> layout, pages |-> 0]]
           /\ \/ /\ sec.count = Pages(layout) \/ Deferrable(sec)
                 /\ section' = sec /\ renderPc' = "place"
                 /\ UNCHANGED <<shown, excused, stale, faults>>
              \/ /\ ~(sec.count = Pages(layout) \/ Deferrable(sec))
                 /\ section' = Started(sec) /\ renderPc' = "build"
                 /\ UNCHANGED <<shown, excused, stale, faults>>
              \/ /\ ~(sec.count = Pages(layout) \/ Deferrable(sec)) /\ Fault
                 /\ section' = None /\ renderPc' = "idle" /\ shown' = Screen("error") /\ PlaceLost
    /\ UNCHANGED <<layout, spine, pend, saving, mainVars, renderSave, pageOffset, retries,
                   notified, goal, byMenu, marked, marks, inputs, origin, eob>>

(* One buildSomeMore() of a build render waits for, going on at pc. *)
BuildMore(pc) ==
    \/ /\ section' = Advanced(section)
       /\ cache' = IF section'.building THEN cache
                   ELSE [cache EXCEPT ![section.spine] = File(section, section'.count)]
       /\ renderPc' = pc
       /\ UNCHANGED <<shown, excused, stale, faults>>
    \/ /\ Fault
       /\ cache' = Dispose(cache) /\ section' = None
       /\ renderPc' = "idle" /\ shown' = Screen("error") /\ PlaceLost
RenderUnchanged ==
    UNCHANGED <<layout, spine, saving, mainVars, renderSave, pageOffset, retries, notified,
                goal, byMenu, marked, marks, inputs, origin, eob, startFailed>>

RenderBuild ==
    /\ renderPc = "build" /\ section.building /\ ~Reached(section)
    /\ BuildMore("build")
    /\ UNCHANGED <<pend, deferred>> /\ RenderUnchanged
RenderBuilt ==
    /\ renderPc = "build" /\ (~section.building \/ Reached(section))
    /\ renderPc' = "place"
    /\ UNCHANGED <<layout, cache, place, saving, mainVars, renderSave, shown, pageOffset,
                   retries, notified, history, bounds, rest>>

(* The page of a new section: page, then offset, then anchor, then percentage. *)
PlacedPage(sec) ==
    LET o == IF OffsetJump(sec) = None THEN None ELSE PageAt(sec, OffsetJump(sec))
        a == IF pend.anchor = None THEN None ELSE AnchorPage(sec, pend.anchor)
    IN  CASE pend.percent # None /\ sec.count > 0 -> (pend.percent * sec.count) \div Units
          [] pend.percent = None /\ a # None -> a
          [] OTHER -> IF o # None THEN o ELSE Target

(* History: the offset of a bookmark is beyond what is laid out, and its page number,
   which another layout may have given it, is taken instead. *)
OffsetMissed(sec) == pend.offset # None /\ PageAt(sec, pend.offset) = None

RenderPlace ==
    /\ renderPc = "place"
    /\ LET oj == OffsetJump(section) IN
       deferred' = IF pend.offset # None \/ (oj # None /\ PageAt(section, oj) # None)
                     THEN NoDeferred(deferred) ELSE deferred
    /\ section' = [section EXCEPT !.page = PlacedPage(section)]
    /\ pend' = [NoPend EXCEPT !.next = pend.next]
    /\ excused' = (excused \/ (stale /\ Leftover) \/ OffsetMissed(section)) /\ stale' = FALSE
    /\ renderPc' = "fit"
    /\ UNCHANGED <<cache, shown, faults>> /\ RenderUnchanged

(* applyDeferredReposition() *)
DoesReposition(sec) ==
    (deferred.offset # None \/ deferred.total # 0) /\ sec # None /\ ~sec.building
RepositionedPage(sec) ==
    LET o == IF deferred.offset = None THEN None ELSE PageAt(sec, deferred.offset)
        p == CASE o # None -> o
               [] o = None /\ deferred.total > 0 /\ sec.count # deferred.total ->
                     (sec.page * sec.count) \div deferred.total
               [] OTHER -> sec.page
    IN  IF spine = deferred.spine THEN Max({0, Min({p, sec.count - 1})}) ELSE sec.page
Repositioned(sec) ==
    IF DoesReposition(sec) THEN [sec EXCEPT !.page = RepositionedPage(sec)] ELSE sec

(* Mutant: off by one. *)
ShortByTwo(sec) == sec.page > sec.count
(* The page is beyond what is laid out: the build goes on until it is not. *)
Short(sec) == sec.page >= sec.count
RenderFitStart ==
    /\ renderPc = "fit" /\ section.partial /\ Short(section) /\ ~section.building
    /\ \/ section' = Started(section) /\ UNCHANGED <<cache, renderPc, shown, excused, stale, faults>>
       \/ /\ Fault
          /\ section' = None /\ renderPc' = "idle" /\ shown' = Screen("error") /\ PlaceLost
          /\ UNCHANGED cache
    /\ UNCHANGED <<pend, deferred>> /\ RenderUnchanged
RenderFitBuild ==
    /\ renderPc = "fit" /\ section.building /\ Short(section)
    /\ BuildMore("fit")
    /\ UNCHANGED <<pend, deferred>> /\ RenderUnchanged
RenderFit ==
    /\ renderPc = "fit" /\ ~(Short(section) /\ (section.building \/ section.partial))
    /\ LET sec == IF ~section.building /\ Short(section)
                    THEN [section EXCEPT !.page = section.count - 1] ELSE section
       IN  /\ section' = Repositioned(sec)
           /\ deferred' = IF DoesReposition(sec) THEN NoDeferred(deferred) ELSE deferred
    /\ renderPc' = "show"
    /\ UNCHANGED <<cache, pend, shown, excused, stale, faults>> /\ RenderUnchanged

PageScreen == [kind |-> "page", spine |-> section.spine, page |-> section.page,
               layout |-> section.layout]
(* Mutant: the offset of the first page drawn is kept. *)
DrawPageOnce ==
    /\ shown' = PageScreen
    /\ pageOffset' = IF pageOffset = None THEN OffsetOf(section, section.page) ELSE pageOffset
DrawPage == shown' = PageScreen /\ pageOffset' = OffsetOf(section, section.page)

(* loadPage() and drawing; a page out of bounds is only reported. A page that
   cannot be read clears the file of the chapter, and the section is opened again
   until the retries are used up. *)
RenderShow ==
    /\ renderPc = "show"
    /\ \/ /\ InBounds(section)
          /\ DrawPage
          /\ retries' = 0 /\ renderPc' = "save"
          /\ UNCHANGED <<cache, section, notified, excused, stale, faults>>
       \/ /\ ~InBounds(section)
          /\ shown' = Screen("outOfBounds") /\ renderPc' = "idle"
          /\ UNCHANGED <<cache, section, pageOffset, retries, notified, excused, stale, faults>>
       \/ /\ InBounds(section) /\ Fault
          /\ cache' = [cache EXCEPT ![section.spine].pages = 0]
          /\ section' = None /\ renderPc' = "idle" /\ PlaceLost
          /\ IF retries < MaxRetries
               THEN retries' = retries + 1 /\ Request /\ UNCHANGED shown
               ELSE retries' = 0 /\ shown' = Screen("error") /\ UNCHANGED notified
          /\ UNCHANGED pageOffset
    /\ marks' = marks \ {"turned"}
    /\ UNCHANGED <<layout, spine, pend, deferred, saving, mainVars, renderSave, goal, byMenu,
                   marked, inputs, rest>>

(* Mutant: the page is not compared. *)
UnsavedChapter == spine # lastSaved.spine \/ section.count # lastSaved.count
Unsaved ==
    spine # lastSaved.spine \/ section.page # lastSaved.page \/ section.count # lastSaved.count

RenderSave ==
    /\ renderPc = "save"
    /\ IF Unsaved
         THEN /\ \E n \in Estimates(section) :
                    Save(spine, section.page, n) /\ renderSave' = Bytes(spine, section.page, n)
              /\ renderPc' = "write"
              /\ marks' = CASE "turned" \in marks -> (marks \ {"turned"}) \cup {"torn"}
                            [] "turned" \notin marks /\ spine = Spines -> marks
                            [] OTHER -> marks \ {"torn"}
         ELSE /\ renderPc' = "idle"
              /\ UNCHANGED <<marks, status, manual, lastSaved, renderSave>>
    /\ UNCHANGED <<layout, cache, place, progress, mainVars, shown, pageOffset, retries,
                   notified, goal, excused, stale, byMenu, marked, bounds, rest>>
RenderWrite ==
    /\ renderPc = "write"
    /\ Write(renderSave, (IF mainPc = "endSave" THEN {"overlap"} ELSE {})
                          \cup (IF "turned" \in marks THEN {"torn"} ELSE {}))
    /\ IF progress' = renderSave
         THEN \E n \in Estimates(section) :
                lastSaved' = [spine |-> spine, page |-> section.page, count |-> n]
         ELSE UNCHANGED lastSaved
    /\ renderSave' = None /\ renderPc' = "idle"
    /\ UNCHANGED <<layout, cache, place, status, manual, mainVars, shown, pageOffset, retries,
                   notified, goal, excused, stale, byMenu, marked, inputs, rest>>

----------------------------------------------------------------------------
(* main task: loop() *)

(* A null section was used: the device panics and starts again. *)
Panic == mainPc' = "panic" /\ section = None

RenderSide == <<renderPc, renderSave, shown, pageOffset, retries>>

(* The deferred extension of a partial layout: tested without the lock. *)
ExtendDue ==
    /\ section # None /\ ~startFailed /\ ~section.building /\ section.partial
    /\ section.page + StartMargin >= section.count
ExtendTest ==
    /\ Idle /\ LockFree /\ ExtendDue
    /\ mainPc' = "extend"
    /\ UNCHANGED <<layout, cache, place, saving, turn, mainSave, queued, drawVars, notified,
                   history, bounds, rest>>
Extend ==
    /\ mainPc = "extend" /\ LockFree
    /\ \/ Panic /\ UNCHANGED <<section, startFailed, faults>>
       \/ /\ section # None /\ mainPc' = "loop"
          /\ \/ ~section.building /\ section' = Started(section) /\ UNCHANGED <<startFailed, faults>>
             \/ section.building /\ startFailed' = TRUE /\ UNCHANGED <<section, faults>>
             \/ ~section.building /\ Fault /\ startFailed' = TRUE /\ UNCHANGED section
    /\ UNCHANGED <<layout, cache, spine, pend, deferred, saving, turn, mainSave, queued, drawVars,
                   notified, history, inputs, origin, eob>>

(* A tick of the background build, up to WindowAhead pages beyond the reader. *)
TickTest ==
    /\ Idle /\ LockFree /\ section # None /\ section.building
    /\ section.partial \/ section.count < section.page + WindowAhead
    /\ mainPc' = "tick"
    /\ UNCHANGED <<layout, cache, place, saving, turn, mainSave, queued, drawVars, notified,
                   history, bounds, rest>>
Tick ==
    /\ mainPc = "tick" /\ LockFree
    /\ \/ Panic /\ UNCHANGED <<cache, section, deferred, notified, excused, stale, marked, faults>>
       \/ /\ section # None /\ ~section.building /\ mainPc' = "loop"
          /\ UNCHANGED <<cache, section, deferred, notified, excused, stale, marked, faults>>
       \/ /\ section # None /\ section.building /\ mainPc' = "loop"
          /\ LET sec == Advanced(section)
             IN  /\ section' = Repositioned(sec)
                 /\ deferred' = IF DoesReposition(sec) THEN NoDeferred(deferred) ELSE deferred
                 /\ cache' = IF sec.building THEN cache
                             ELSE [cache EXCEPT ![sec.spine] = File(sec, sec.count)]
                 /\ notified' = (notified \/ section'.page # sec.page)
                 /\ marked' = IF section'.page # sec.page THEN None ELSE marked
          /\ UNCHANGED <<excused, stale, faults>>
       \/ /\ section # None /\ section.building /\ mainPc' = "loop" /\ Fault
          /\ cache' = Dispose(cache) /\ section' = None /\ Request /\ PlaceLost
          /\ UNCHANGED <<deferred, marked>>
    /\ UNCHANGED <<layout, spine, pend, saving, turn, mainSave, queued, drawVars, goal, byMenu,
                   marks, inputs, rest>>

(* The end of the book: the last save, then Ao3EndOfBookActivity over the reader. *)
EndTest ==
    /\ Idle /\ spine >= Spines /\ ~eob
    /\ eob' = TRUE
    /\ IF lastSaved.spine # spine
         THEN Save(spine, 0, 0) /\ mainSave' = Bytes(spine, 0, 0) /\ mainPc' = "endSave"
         ELSE mainPc' = "endPush" /\ UNCHANGED <<status, manual, lastSaved, mainSave>>
    /\ marks' = IF renderPc = "write" THEN marks \cup {"overlap"} ELSE marks
    /\ UNCHANGED <<layout, cache, place, progress, turn, queued, drawVars, notified, goal, excused,
                   stale, byMenu, marked, bounds, origin, startFailed>>
EndSave ==
    /\ mainPc = "endSave"
    /\ Write(mainSave, {})
    /\ mainSave' = None /\ mainPc' = "endPush"
    /\ UNCHANGED <<layout, cache, place, status, manual, lastSaved, turn, queued, drawVars, notified,
                   goal, excused, stale, byMenu, marked, inputs, rest>>
EndPush ==
    /\ mainPc = "endPush" /\ LockFree
    /\ mainPc' = "end" /\ notified' = FALSE /\ shown' = Screen("end")
    /\ UNCHANGED <<layout, cache, place, saving, turn, mainSave, queued, renderPc, renderSave,
                   pageOffset, retries, history, bounds, rest>>
EndReset ==
    /\ Idle /\ spine < Spines /\ eob
    /\ eob' = FALSE
    /\ UNCHANGED <<layout, cache, place, saving, mainVars, drawVars, notified, history, bounds,
                   origin, startFailed>>

(* onReturnFromEndOfBook(): the section of the last chapter is still there. *)
(* History: after an SD card failure the last page of the chapter may not be laid out. *)
LastMissed ==
    faults < MaxFaults /\ section # None /\ section.page + 1 < Pages(section.layout)
ReturnFromEnd ==
    /\ mainPc = "end" /\ Input("return")
    /\ spine' = Spines - 1 /\ pend' = [pend EXCEPT !.next = 0, !.last = TRUE]
    /\ mainPc' = "loop" /\ Request
    /\ AimUnless(Spines - 1, Units - 1, LastMissed \/ OldPlace(Spines - 1)) /\ Somewhere
    /\ stale' = (stale \/ section # None)
    /\ UNCHANGED <<layout, cache, section, deferred, saving, turn, mainSave, queued, drawVars, marks,
                   faults, rest>>

(* Input is read once the end of the book is dealt with, and the extension of the
   layout that loop() tests first is under way; a render that ends between that test
   and the input of the same loop() is not modelled. *)
Ready == Idle /\ spine < Spines /\ ~eob /\ ~(LockFree /\ ExtendDue)

----------------------------------------------------------------------------
(* Page turns: pageTurn() and its guard. *)

Chosen(dir) ==
    /\ mainPc' = "turnLock" /\ turn' = [dir |-> dir, page |-> 0]
PressTurn(dir) ==
    /\ Ready /\ Input("turn") /\ queued = 0
    /\ IF section = None
         THEN Request /\ UNCHANGED <<mainPc, turn, queued>>
         ELSE /\ IF LockFree THEN Chosen(dir) /\ UNCHANGED queued
                             ELSE queued' = dir /\ UNCHANGED <<mainPc, turn>>
              /\ UNCHANGED notified
    /\ UNCHANGED <<layout, cache, place, saving, mainSave, drawVars, history, faults, rest>>
(* Mutant: the section may have gone in the meantime. *)
QueuedTurnUnchecked ==
    /\ Ready /\ queued # 0 /\ LockFree
    /\ queued' = 0 /\ Chosen(queued)
    /\ UNCHANGED <<layout, cache, place, saving, mainSave, drawVars, notified, history, bounds, rest>>
QueuedTurn ==
    /\ Ready /\ queued # 0 /\ LockFree
    /\ queued' = 0
    /\ IF section = None THEN UNCHANGED <<mainPc, turn>> ELSE Chosen(queued)
    /\ UNCHANGED <<layout, cache, place, saving, mainSave, drawVars, notified, history, bounds, rest>>

TurnLock ==
    /\ mainPc = "turnLock" /\ LockFree
    /\ deferred' = NoDeferred(deferred)
    /\ mainPc' = "turnTest"
    /\ UNCHANGED <<layout, cache, section, spine, pend, saving, turn, mainSave, queued, drawVars,
                   notified, history, bounds, rest>>

(* Mutant: only what is laid out. *)
PagesAheadLaidOut == section.page < section.count - 1
PagesAhead == section.page < section.count - 1 \/ section.building

(* The test, without the lock. *)
TurnTest ==
    /\ mainPc = "turnTest"
    /\ \/ Panic /\ UNCHANGED <<spine, turn, notified>>
       \/ /\ section # None
          /\ turn' = [turn EXCEPT !.page = section.page]
          /\ IF turn.dir > 0
               THEN CASE PagesAhead ->
                            mainPc' = "turnPage" /\ UNCHANGED <<spine, notified>>
                      [] ~PagesAhead /\ spine + 1 < Spines ->
                            mainPc' = "turnChapter" /\ UNCHANGED <<spine, notified>>
                      [] OTHER -> spine' = Spines /\ Request /\ mainPc' = "loop"
               ELSE CASE section.page > 0 -> mainPc' = "turnPage" /\ UNCHANGED <<spine, notified>>
                      [] section.page <= 0 /\ spine > 0 ->
                            mainPc' = "turnChapter" /\ UNCHANGED <<spine, notified>>
                      [] OTHER -> Request /\ mainPc' = "loop" /\ UNCHANGED spine
    /\ IF mainPc' = "loop"
         THEN Somewhere /\ marks' = IF renderPc \in {"save", "write"} THEN marks \cup {"turned"} ELSE marks
         ELSE UNCHANGED <<marked, byMenu, marks>>
    /\ UNCHANGED <<layout, cache, section, pend, deferred, saving, mainSave, queued, drawVars, goal,
                   excused, stale, bounds, rest>>

(* section->currentPage++ or --, on the value the test read or on the current one.
   A render() that opens the section anew, after a page could not be read, may lose
   the turn. *)
PageSet(p) ==
    /\ section' = [section EXCEPT !.page = p]
    /\ goal' = [spine |-> section.spine, offset |-> Min({OffsetOf(section, Max({p, 0})), Units - 1})]
    /\ excused' = \/ faults < MaxFaults /\ (p < 0 \/ renderPc \in {"build", "place"})
                  \/ OldOffset(section.spine)
    /\ Somewhere
    /\ marks' = IF renderPc \in {"save", "write"} THEN marks \cup {"turned"} ELSE marks

TurnPage ==
    /\ mainPc = "turnPage"
    /\ \/ Panic /\ UNCHANGED <<section, notified, goal, excused, marked, byMenu, marks>>
       \/ /\ section # None /\ mainPc' = "loop" /\ Request
          /\ \E p \in {turn.page, section.page} : PageSet(p + turn.dir)
    /\ turn' = None
    /\ UNCHANGED <<layout, cache, spine, pend, deferred, saving, mainSave, queued, drawVars, stale,
                   bounds, rest>>
(* Under the lock, the section of the new chapter left to render(). *)
ToChapter(s, last) ==
    /\ spine' = s /\ pend' = [pend EXCEPT !.next = 0, !.last = @ \/ last]
    /\ cache' = Dispose(cache) /\ section' = None
    /\ mainPc' = "loop" /\ turn' = None /\ Request
    /\ AimUnless(s, IF last THEN Units - 1 ELSE 0, OldOffset(s))
    /\ stale' = (stale \/ Leftover) /\ Somewhere
    /\ UNCHANGED <<layout, deferred, saving, mainSave, queued, drawVars, marks, faults, rest>>
TurnChapter ==
    /\ mainPc = "turnChapter" /\ LockFree
    /\ ToChapter(spine + turn.dir, turn.dir < 0)
    /\ UNCHANGED inputs

(* skipPages(): a long press, not held back by the render lock. *)
SkipForward ==
    /\ Ready /\ Input("skip") /\ section # None
    /\ mainPc' = "skipNext"
    /\ UNCHANGED <<layout, cache, place, saving, turn, mainSave, queued, drawVars, notified, history,
                   faults, rest>>
SkipNext ==
    /\ mainPc = "skipNext" /\ LockFree
    /\ ToChapter(spine + 1, FALSE)
    /\ UNCHANGED inputs
SkipBack ==
    /\ Ready /\ Input("skip") /\ section # None
    /\ IF section.page > 0
         THEN mainPc' = "skipPage"
         ELSE mainPc' = IF spine > 0 THEN "skipChapter" ELSE "loop"
    /\ notified' = (notified \/ mainPc' = "loop")
    /\ UNCHANGED <<layout, cache, place, saving, turn, mainSave, queued, drawVars, history, faults, rest>>
SkipPage ==
    /\ mainPc = "skipPage"
    /\ \/ Panic /\ UNCHANGED <<section, notified, goal, excused, marked, byMenu, marks>>
       \/ section # None /\ mainPc' = "loop" /\ Request /\ PageSet(0)
    /\ UNCHANGED <<layout, cache, spine, pend, deferred, saving, turn, mainSave, queued, drawVars,
                   stale, bounds, rest>>
SkipChapter ==
    /\ mainPc = "skipChapter" /\ LockFree
    /\ ToChapter(spine - 1, FALSE)
    /\ UNCHANGED inputs

----------------------------------------------------------------------------
(* The handlers of the menus. Their screen covers the reader, so the render task
   draws that, and an update of the reader is requested when it closes. Opening a
   menu drops a queued turn; a gesture or a key does not. *)

ResetSection == cache' = Dispose(cache) /\ section' = None

(* History: from here on the place is the beginning of the current page; a page
   number that waits for a section, without its offset, is one of the old layout. *)
AimRemembered ==
    CASE section # None /\ InBounds(section) ->
            Aim(section.spine, OffsetOf(section, section.page))
      [] section # None /\ ~InBounds(section) -> excused' = TRUE /\ UNCHANGED goal
      [] OTHER -> /\ excused' = (excused \/ (pend.next # 0 /\ deferred.offset \in {None, 0}))
                  /\ UNCHANGED goal

(* applyOrientation(), TEXT_SETTINGS: the layout changes, the place is remembered. *)
Relayout(L) ==
    /\ Ready /\ Input("relayout") /\ LockFree /\ L # layout
    /\ layout' = L
    /\ deferred' = Remembered[1] /\ pend' = [pend EXCEPT !.next = Remembered[2]]
    /\ ResetSection /\ Request
    /\ AimRemembered
    /\ Somewhere
    /\ UNCHANGED <<spine, saving, mainVars, drawVars, stale, marks, faults, rest>>

(* SELECT_CHAPTER frees the section before the list of chapters opens. *)
OpenChapters ==
    /\ Ready /\ Input("chapter") /\ LockFree /\ queued' = 0
    /\ deferred' = Remembered[1] /\ pend' = [pend EXCEPT !.next = Remembered[2]]
    /\ ResetSection
    /\ mainPc' = "chapters" /\ notified' = FALSE /\ byMenu' = ~notified
    /\ AimRemembered
    /\ UNCHANGED <<layout, spine, saving, turn, mainSave, drawVars, stale, marked, marks,
                   faults, rest>>
ChooseChapter(s) ==
    /\ mainPc = "chapters"
    /\ status' = IF status = "START" THEN "READING" ELSE status
    /\ deferred' = NoDeferred(deferred)
    /\ spine' = s /\ pend' = [pend EXCEPT !.next = 0, !.anchor = None]
    /\ mainPc' = "loop" /\ Request
    /\ JumpTo(s, 0) /\ marked' = None
    /\ UNCHANGED <<layout, cache, section, progress, manual, lastSaved, turn, mainSave, queued,
                   drawVars, byMenu, marks, bounds, rest>>
CancelChapters ==
    /\ mainPc = "chapters" /\ mainPc' = "loop" /\ Request
    /\ byMenu' = FALSE
    /\ UNCHANGED <<layout, cache, place, saving, turn, mainSave, queued, drawVars, goal, excused,
                   stale, marked, marks, bounds, rest>>

(* A bookmark: its offset, and its page in the layout it was made in. *)
GoToBookmark(s, o, L) ==
    /\ Ready /\ Input("bookmark") /\ LockFree /\ queued' = 0
    /\ deferred' = NoDeferred(deferred)
    /\ IF section # None /\ spine = s
         THEN /\ section' = [section EXCEPT !.page =
                                IF PageAt(section, o) # None THEN PageAt(section, o)
                                ELSE o \div LenOf[L]]
              /\ UNCHANGED <<cache, spine, pend>>
         ELSE /\ spine' = s /\ pend' = [pend EXCEPT !.offset = o, !.next = o \div LenOf[L]]
              /\ ResetSection
    /\ Request /\ Somewhere
    /\ goal' = [spine |-> s, offset |-> o] /\ stale' = (stale \/ Leftover)
    /\ excused' = (section # None /\ spine = s /\ PageAt(section, o) = None)
    /\ UNCHANGED <<layout, saving, mainPc, turn, mainSave, drawVars, marks, faults, rest>>

(* jumpToPercent(), to a unit of a chapter. *)
JumpToPercent(s, o) ==
    /\ Ready /\ Input("percent") /\ LockFree /\ queued' = 0
    /\ deferred' = NoDeferred(deferred)
    /\ spine' = s /\ pend' = [pend EXCEPT !.percent = o, !.next = 0]
    /\ ResetSection
    /\ Request /\ JumpTo(s, o) /\ Somewhere
    /\ UNCHANGED <<layout, saving, mainPc, turn, mainSave, drawVars, marks, faults, rest>>

(* Mutant: the depth of the footnotes is not looked at. *)
OriginPushedAlways ==
    IF section # None THEN Append(origin, [spine |-> spine, page |-> section.page]) ELSE origin
OriginPushed ==
    IF section # None /\ Len(origin) < MaxDepth
      THEN Append(origin, [spine |-> spine, page |-> section.page])
      ELSE origin

(* navigateToHref(): the position is read without the lock. *)
Footnote(s, o) ==
    /\ Ready /\ Input("footnote") /\ LockFree
    /\ origin' = OriginPushed
    /\ deferred' = NoDeferred(deferred)
    /\ spine' = s /\ pend' = [pend EXCEPT !.anchor = o, !.next = 0]
    /\ ResetSection
    /\ Request /\ JumpTo(s, o) /\ Somewhere
    /\ UNCHANGED <<layout, saving, mainVars, drawVars, marks, faults, eob, startFailed>>

(* restoreSavedPosition() *)
RestoreSavedPosition ==
    /\ Ready /\ origin # <<>> /\ LockFree
    /\ LET pos == origin[Len(origin)] IN
       /\ origin' = SubSeq(origin, 1, Len(origin) - 1)
       /\ deferred' = NoDeferred(deferred)
       /\ spine' = pos.spine /\ pend' = [pend EXCEPT !.next = pos.page]
       /\ goal' = [spine |-> pos.spine, offset |-> Min({pos.page * LenOf[layout], Units - 1})]
       /\ excused' = (pos.page < 0) /\ stale' = (stale \/ Leftover)
    /\ ResetSection
    /\ Request /\ Somewhere
    /\ UNCHANGED <<layout, saving, mainVars, drawVars, marks, bounds, eob, startFailed>>

(* The status chosen in the reader menu, and persistManualStatus(). *)
SetStatus(st) ==
    /\ Ready /\ Input("status") /\ queued' = 0 /\ st # status
    /\ status' = st /\ manual' = TRUE
    /\ mainPc' = IF section = None THEN "loop" ELSE "persist"
    /\ Request /\ marked' = IF Quiet /\ OnScreen /\ section # None /\ ~Leftover THEN st ELSE None
    /\ UNCHANGED <<layout, cache, place, progress, lastSaved, turn, mainSave, drawVars, goal,
                   excused, stale, byMenu, marks, faults, rest>>
(* History: the offset kept is of the page, not of one that was turned to and back. *)
Redrawn == pageOffset \in {None, OffsetOf(section, section.page)}
Persist ==
    /\ mainPc = "persist" /\ LockFree
    /\ \/ Panic /\ UNCHANGED <<saving, notified, marks, faults>>
       \/ /\ section # None /\ mainPc' = "loop" /\ Request
          /\ \E n \in Estimates(section) :
                /\ Save(spine, section.page, n)
                /\ Write(Bytes(spine, section.page, n),
                         IF Moved(spine, section.page) \/ "turned" \in marks \/ ~Redrawn
                           THEN {"torn"} ELSE {})
    /\ UNCHANGED <<layout, cache, place, turn, mainSave, queued, drawVars, goal, excused, stale,
                   byMenu, marked, inputs, rest>>

(* DELETE_CACHE: every layout of the book goes, the progress is written again. *)
Closed ==
    /\ mainPc' = "closed" /\ section' = None /\ origin' = <<>> /\ notified' = FALSE
    /\ shown' = Screen("blank") /\ queued' = 0 /\ Somewhere
DeleteCache ==
    /\ Ready /\ Input("deleteCache") /\ LockFree /\ section # None
    /\ cache' = [s \in Chapters |-> [layout |-> layout, pages |-> 0]]
    /\ LET bytes == [Bytes(spine, section.page, section.count) EXCEPT !.offset = 0, !.of = None] IN
       /\ Save(spine, section.page, section.count)
       /\ Write(bytes, {})
    /\ excused' = TRUE
    /\ Closed
    /\ UNCHANGED <<layout, spine, pend, deferred, turn, mainSave, renderPc, renderSave, pageOffset,
                   retries, goal, stale, eob, startFailed>>

----------------------------------------------------------------------------
(* The session ends and the next one begins. *)

(* ~EpubReaderActivity(): in a footnote the place it was opened from is saved. *)
Leave ==
    /\ \/ mainPc = "end" /\ UNCHANGED inputs
       \/ Ready /\ Input("leave")
    /\ LockFree
    /\ cache' = Dispose(cache)
    /\ IF origin # <<>>
         THEN LET pos == origin[1] IN
              /\ Save(pos.spine, pos.page, 0) /\ Write(Bytes(pos.spine, pos.page, 0), {})
              /\ goal' = [spine |-> pos.spine, offset |-> Min({pos.page * LenOf[layout], Units - 1})]
              /\ excused' = \/ progress' # Bytes(pos.spine, pos.page, 0) \/ ~Quiet
                            \/ pos.spine < Spines /\ cache'[pos.spine].layout # layout
         ELSE /\ UNCHANGED <<saving, marks, faults>>   \* saved in another layout: not again
              /\ goal' = IF OnScreen THEN [spine |-> shown.spine, offset |-> OffsetOf(shown, shown.page)]
                                     ELSE goal
              /\ excused' = \/ excused \/ ~Quiet \/ marks # {}
                            \/ OnScreen /\ progress # None /\ progress.of \notin {None, shown.layout}
    /\ Closed
    /\ UNCHANGED <<layout, spine, pend, deferred, turn, mainSave, renderPc, renderSave, pageOffset,
                   retries, stale, eob, startFailed>>

(* After a panic the RAM is gone, and a new session is opened by hand. *)
Reboot ==
    /\ mainPc = "panic" /\ LockFree
    /\ Closed /\ excused' = TRUE
    /\ UNCHANGED <<layout, cache, spine, pend, deferred, saving, turn, mainSave, renderPc, renderSave,
                   pageOffset, retries, goal, stale, marks, bounds, eob, startFailed>>

(* loadBook(), in a layout that may have been changed in the meantime. *)
Open(L) ==
    /\ mainPc = "closed" /\ Input("open")
    /\ layout' = L
    /\ LET saved == IF progress = None
                      THEN [spine |-> 0, page |-> 0, count |-> 0, offset |-> None, of |-> None, status |-> "START"]
                      ELSE progress
           at    == [spine |-> IF progress = None THEN -1 ELSE saved.spine,
                     page  |-> IF progress = None THEN -1 ELSE saved.page, count |-> -1]
       IN  /\ spine' = saved.spine /\ pend' = [NoPend EXCEPT !.next = saved.page]
           /\ deferred' = [spine |-> saved.spine, total |-> saved.count, offset |-> saved.offset]
           /\ status' = saved.status /\ lastSaved' = at
           /\ excused' = \/ excused \/ progress = None
                         \/ saved.of = None /\ saved.spine < Spines
                               /\ ~(cache[saved.spine].layout = L /\ cache[saved.spine].pages > 0)
    /\ manual' = FALSE /\ eob' = FALSE /\ startFailed' = FALSE /\ retries' = 0
    /\ turn' = None /\ mainSave' = None /\ renderSave' = None /\ pageOffset' = None
    /\ mainPc' = "loop" /\ Request /\ stale' = FALSE
    /\ marks' = marks \cap {"torn", "lost"}     \* until the next save
    /\ UNCHANGED <<cache, progress, section, origin, queued, renderPc, shown, faults, goal, byMenu,
                   marked>>

Render ==
    \/ RenderBegin \/ RenderOpen \/ RenderBuild \/ RenderBuilt \/ RenderPlace
    \/ RenderFitStart \/ RenderFitBuild \/ RenderFit \/ RenderShow \/ RenderSave \/ RenderWrite
Background == ExtendTest \/ Extend \/ TickTest \/ Tick
End   == EndTest \/ EndSave \/ EndPush \/ EndReset \/ ReturnFromEnd
Turns ==
    \/ \E dir \in {-1, 1} : PressTurn(dir)
    \/ QueuedTurn \/ TurnLock \/ TurnTest \/ TurnPage \/ TurnChapter
    \/ SkipForward \/ SkipNext \/ SkipBack \/ SkipPage \/ SkipChapter
Menus ==
    \/ \E L \in Layouts : Relayout(L)
    \/ OpenChapters \/ CancelChapters
    \/ \E s \in Chapters : ChooseChapter(s)
    \/ \E s \in Chapters, o \in Anchors : JumpToPercent(s, o) \/ Footnote(s, o)
    \/ \E s \in Chapters, o \in Anchors, L \in Layouts : GoToBookmark(s, o, L)
    \/ RestoreSavedPosition
    \/ \E st \in ManualStatuses : SetStatus(st)
    \/ Persist \/ DeleteCache
Sessions == Leave \/ Reboot \/ \E L \in Layouts : Open(L)

Next == Render \/ Background \/ End \/ Turns \/ Menus \/ Sessions
Spec == Init /\ [][Next]_vars

----------------------------------------------------------------------------
(* Properties                                                               *)

Maybe(S) == S \cup {None}
TypeOK ==
    /\ layout \in Layouts
    /\ cache \in [Chapters -> [layout : Layouts, pages : 0 .. Units]]
    /\ spine \in 0 .. Spines /\ status \in Statuses /\ manual \in BOOLEAN
    /\ section # None => /\ section.spine \in Chapters /\ section.layout \in Layouts
                         /\ section.count \in 0 .. Pages(section.layout)
                         /\ section.built \in 0 .. Pages(section.layout)
    /\ pend.last \in BOOLEAN /\ pend.offset \in Maybe(0 .. Units) /\ pend.anchor \in Maybe(Anchors)
    /\ origin \in Seq([spine : 0 .. Spines, page : Nat \cup {-1}]) /\ Len(origin) <= MaxDepth
    /\ marks \subseteq {"torn", "turned", "lost", "overlap"}

Contains(page, g) ==
    /\ page.spine = g.spine
    /\ g.offset \in page.page * LenOf[page.layout] .. (page.page + 1) * LenOf[page.layout] - 1

(* When both tasks rest, the page on the screen is the one the reader turned to or
   jumped to, and holds the text that was there before the layout changed or the
   book was closed, whatever was laid out of the chapter by then and whichever task
   laid it out. Not so after an SD card failure, a reset, a page number left pending
   by the end of the book (ChapterSelected) or kept without its offset, a place left
   deferred by a skip or by the return from the end of the book, a bookmark beyond the
   part laid out, when the book is left from a footnote and the file of the chapter it
   stands in is of another layout, and when the page was not saved because the one
   saved last, in another layout, has its number and count. *)
PlaceKept == Quiet /\ OnScreen /\ ~excused => Contains(shown, goal)

(* When both tasks rest, a page is on the screen unless the SD card failed. *)
PageShown == Quiet /\ ~excused /\ spine < Spines => OnScreen

(* When both tasks rest, progress.bin holds the page on the screen, unless the page
   was turned, without the lock, between the drawing and the save. *)
ProgressFollows ==
    Quiet /\ OnScreen /\ marks = {} =>
        progress # None /\ progress.spine = shown.spine /\ progress.page = shown.page

(* The offset in progress.bin is the one its page has in the layout it was saved in,
   with the same exception, and unless a status is saved with a page that was turned
   away from and back while it was drawn. *)
OffsetOfPage ==
    Quiet /\ OnScreen /\ marks = {} /\ progress # None /\ progress.of # None =>
        progress.offset = progress.page * LenOf[progress.of]

(* A work read to its end is saved as finished, or as waiting for a chapter, unless
   the two tasks saved at the same time, the page was turned under the save or the
   last save failed, in this session or the one before. *)
EndRecorded ==
    mainPc = "end" /\ marks = {} =>
        /\ progress # None /\ progress.spine = Spines
        /\ progress.status \in {EndStatus, "WAITING_FOR_CHAPTER", "NEW_CHAPTER_AVAILABLE"}

(* A status chosen in the menu, once saved, stays in progress.bin until the reader
   moves, the layout changes or a finished layout moves the page, unless the SD card
   failed. Not so for one chosen while a page number left pending by the end of the
   book (ChapterSelected) waits for the chapter to be loaded again: the page moves. *)
ManualStatusKept ==
    marked # None /\ faults = MaxFaults /\ mainPc # "persist" =>
        progress # None /\ progress.status = marked

(* The main task tests the section, waits for the lock and uses the section without
   a second test (Extend, Tick, TurnTest, TurnPage, SkipPage, Persist): it never
   meets a null one unless the SD card failed. *)
NoNullSection == mainPc = "panic" => faults < MaxFaults

(* A forward turn leaves a chapter, or ends the book, from the last page of its text and
   never from the last page that happens to be laid out, unless the SD card failed. *)
NothingSkipped ==
    section # None /\ (spine = Spines \/ (mainPc = "turnChapter" /\ turn.dir > 0)) =>
        Whole(section) \/ faults < MaxFaults

(* docs: a chapter chosen from the list is shown from its first page. *)
ChapterSelected == Quiet /\ OnScreen /\ byMenu => Contains(shown, goal)

=============================================================================
