------------------------- MODULE ReaderSavingProofs -------------------------
(***************************************************************************)
(* Proofs of what ReaderSession promises of progress.bin and the screen:   *)
(* the file holds the page on the screen, the offset of that page, the end *)
(* of the book and a status chosen by hand, and a page is on the screen.   *)
(*                                                                         *)
(* Nearly every step is the same to these properties as many others, so    *)
(* the steps are first sorted into kinds, by what they do to the page, the *)
(* screen and what is saved; the invariants are proved kind by kind.       *)
(***************************************************************************)
EXTENDS ReaderSessionProofs

(* What saveProgress() notes of page p of chapter s, and what it is to write. *)
Noted(s, p) ==
    /\ lastSaved'.spine = s /\ lastSaved'.page = SavedPage(s, p) /\ lastSaved'.count \in Nat
    /\ status' = NaturalStatus(s, p) /\ manual' = KeepManual(s, p)
Packed(b, s, p) ==
    /\ b # None /\ BytesOK(b)
    /\ b.spine = s /\ b.page = SavedPage(s, p) /\ b.status = NaturalStatus(s, p)
OffsetFits(b) == b.of # None => b.offset = b.page * LenOf[b.of]

(* The outcomes of a write: refused, done, failed. *)
Written(b, also) ==
    \/ /\ b.page < 0 /\ UNCHANGED <<progress, faults>>
       /\ marks' = (marks \ {"turned"}) \cup also
    \/ /\ b.page >= 0 /\ progress' = b /\ UNCHANGED faults
       /\ marks' = (marks \ {"lost", "turned"}) \cup also
    \/ /\ b.page >= 0 /\ progress' \in {progress, None} /\ faults' = faults - 1
       /\ marks' = (marks \ {"turned"}) \cup {"lost"} \cup also

(* The page is laid out, or will be by the build that goes on; in the latter case its end
   does not move the page, for no place is deferred. *)
InReach(sec) ==
    /\ sec.page \in 0 .. Pages(sec.layout) - 1
    /\ sec.page < sec.count \/ (sec.building /\ ~sec.partial /\ sec.built = sec.count)
Cleared   == deferred.offset = None /\ deferred.total = 0
PlaceHeld == InReach(section) /\ (section.page < section.count \/ Cleared)

(* What the main task does without a menu, a step at a time, it does inside the book. *)
Inside == mainPc \in InTurn \cup {"skipPage", "persist"} => spine < Spines

Begins ==
    /\ renderPc = "idle" /\ notified /\ ~notified' /\ mainPc \notin {"chapters", "end", "closed", "panic"}
    /\ \/ spine = Spines /\ renderPc' = "idle"
       \/ spine < Spines /\ section = None /\ renderPc' = "open"
       \/ spine < Spines /\ section # None /\ renderPc' = "fit"
    /\ UNCHANGED <<spine, section, origin, marks, marked, faults, mainPc, mainSave, renderSave,
                   shown, pageOffset, progress, status, manual, lastSaved>>
LaysOut ==
    /\ renderPc \in {"open", "build", "place", "fit"}
    /\ \/ /\ section' # None /\ renderPc' \in {"build", "place", "fit", "show"}
          /\ renderPc' = "fit" /\ (renderPc = "fit" => section.page >= 0) => section'.page >= 0
          /\ renderPc' = "show" => renderPc = "fit" /\ (section.page >= 0 => InBounds(section'))
          /\ UNCHANGED <<shown, faults>>
       \/ Failed /\ renderPc' = "idle" /\ shown' = Screen("error")
    /\ UNCHANGED <<spine, origin, marks, marked, mainPc, mainSave, renderSave, notified,
                   pageOffset, progress, status, manual, lastSaved>>
Draws ==
    /\ renderPc = "show" /\ section # None
    /\ \/ /\ renderPc' = "save" /\ InBounds(section) /\ shown' = PageScreen
          /\ pageOffset' = OffsetOf(section, section.page) /\ UNCHANGED <<section, notified, faults>>
       \/ /\ renderPc' = "idle" /\ shown' = Screen("outOfBounds") /\ ~InBounds(section)
          /\ UNCHANGED <<section, notified, pageOffset, faults>>
       \/ /\ renderPc' = "idle" /\ Failed /\ UNCHANGED pageOffset
          /\ \/ notified' /\ UNCHANGED shown
             \/ shown' = Screen("error") /\ UNCHANGED notified
    /\ marks' = marks \ {"turned"}
    /\ UNCHANGED <<spine, origin, marked, mainPc, mainSave, renderSave, progress, status, manual,
                   lastSaved>>
NotesPage ==
    /\ renderPc = "save" /\ section # None /\ section.page \in Int /\ section.count \in Nat
    /\ \/ /\ Unsaved /\ renderPc' = "write"
          /\ Noted(spine, section.page) /\ Packed(renderSave', spine, section.page)
          /\ pageOffset = OffsetOf(section, section.page) /\ spine < Spines => OffsetFits(renderSave')
          /\ marks' = CASE "turned" \in marks -> (marks \ {"turned"}) \cup {"torn"}
                        [] "turned" \notin marks /\ spine = Spines -> marks
                        [] OTHER -> marks \ {"torn"}
       \/ ~Unsaved /\ renderPc' = "idle" /\ UNCHANGED <<marks, status, manual, lastSaved, renderSave>>
    /\ UNCHANGED <<spine, section, origin, marked, faults, mainPc, mainSave, shown, pageOffset,
                   notified, progress>>
WritesPage ==
    /\ renderPc = "write" /\ renderPc' = "idle" /\ section # None /\ section.page \in Int
    /\ renderSave # None /\ BytesOK(renderSave)
    /\ Written(renderSave, (IF mainPc = "endSave" THEN {"overlap"} ELSE {})
                          \cup (IF "turned" \in marks THEN {"torn"} ELSE {}))
    /\ \/ /\ progress' = renderSave /\ lastSaved'.spine = spine /\ lastSaved'.page = section.page
          /\ lastSaved'.count \in Nat
       \/ progress' # renderSave /\ UNCHANGED lastSaved
    /\ UNCHANGED <<spine, section, origin, marked, mainPc, mainSave, shown, pageOffset, notified,
                   status, manual>>
Works ==
    /\ renderPc = "idle" /\ mainPc \in {"loop", "extend", "tick"}
    /\ mainPc' \in {"loop", "extend", "tick", "panic"}
    /\ \/ UNCHANGED <<section, notified, marked>> /\ (mainPc' \in {"extend", "tick"} => section # None)
       \/ /\ section # None /\ SameChapter(section', section) /\ mainPc' = "loop"
          /\ \/ /\ section'.page = section.page /\ UNCHANGED <<notified, marked>>
                /\ PlaceHeld /\ (section.building \/ Cleared) => PlaceHeld'
             \/ section'.page \in Nat /\ notified' /\ marked' = None
       \/ Failed /\ notified' /\ mainPc' = "loop" /\ marked' \in {marked, None}
    /\ faults' \in {faults, faults - 1}
    /\ UNCHANGED <<spine, origin, marks, mainSave, renderSave, renderPc, shown, pageOffset,
                   progress, status, manual, lastSaved>>
EndTests ==
    /\ mainPc = "loop" /\ spine = Spines
    /\ \/ /\ lastSaved.spine # Spines /\ mainPc' = "endSave"
          /\ Noted(Spines, 0) /\ Packed(mainSave', Spines, 0)
       \/ lastSaved.spine = Spines /\ mainPc' = "endPush" /\ UNCHANGED <<status, manual, lastSaved, mainSave>>
    /\ marks' = IF renderPc = "write" THEN marks \cup {"overlap"} ELSE marks
    /\ UNCHANGED <<spine, section, origin, marked, faults, renderPc, renderSave, shown, pageOffset,
                   notified, progress>>
EndSaves ==
    /\ mainPc = "endSave" /\ spine = Spines /\ mainPc' = "endPush" /\ mainSave # None /\ BytesOK(mainSave)
    /\ Written(mainSave, {})
    /\ UNCHANGED <<spine, section, origin, marked, renderPc, renderSave, shown, pageOffset, notified,
                   status, manual, lastSaved>>
EndShows ==
    /\ mainPc = "endPush" /\ mainPc' = "end" /\ renderPc = "idle" /\ spine = Spines
    /\ ~notified' /\ shown' = Screen("end")
    /\ UNCHANGED <<spine, section, origin, marks, marked, faults, mainSave, renderPc, renderSave,
                   pageOffset, progress, status, manual, lastSaved>>
Returns ==
    /\ mainPc = "end" /\ mainPc' = "loop" /\ renderPc = "idle"
    /\ spine' = Spines - 1 /\ notified' /\ marked' = None
    /\ UNCHANGED <<section, origin, marks, faults, mainSave, renderPc, renderSave, shown, pageOffset,
                   progress, status, manual, lastSaved>>
Chooses ==
    /\ \/ mainPc = "loop" /\ mainPc' = "loop"
       \/ mainPc = "chapters" /\ mainPc' = "loop" /\ notified' /\ renderPc = "idle"
       \/ mainPc = "turnLock" /\ mainPc' = "turnTest"
       \/ /\ mainPc = "loop" /\ spine < Spines /\ section # None
          /\ \/ mainPc' \in {"skipNext", "skipPage", "skipChapter"}
             \/ mainPc' = "turnLock" /\ renderPc = "idle"
    /\ notified' = notified \/ notified'
    /\ UNCHANGED <<spine, section, origin, marks, marked, faults, mainSave, renderPc, renderSave,
                   shown, pageOffset, progress, status, manual, lastSaved>>
TurnTests ==
    /\ mainPc = "turnTest"
    /\ \/ mainPc' \in {"panic", "turnPage", "turnChapter"} /\ UNCHANGED <<spine, notified, marks, marked>>
       \/ /\ mainPc' = "loop" /\ notified' /\ section # None /\ marked' = None
          /\ UNCHANGED spine \/ (spine' = Spines /\ section.page >= section.count - 1)
          /\ marks' = IF renderPc \in {"save", "write"} THEN marks \cup {"turned"} ELSE marks
    /\ UNCHANGED <<section, origin, faults, mainSave, renderPc, renderSave, shown, pageOffset,
                   progress, status, manual, lastSaved>>
TurnsPage ==
    /\ mainPc \in {"turnPage", "skipPage"}
    /\ \/ mainPc' = "panic" /\ section = None /\ UNCHANGED <<section, notified, marks, marked>>
       \/ /\ mainPc' = "loop" /\ notified' /\ marked' = None
          /\ section # None /\ SameLayout(section', section)
          /\ mainPc = "skipPage" => section'.page = 0
          /\ marks' = IF renderPc \in {"save", "write"} THEN marks \cup {"turned"} ELSE marks
    /\ UNCHANGED <<spine, origin, faults, mainSave, renderPc, renderSave, shown, pageOffset,
                   progress, status, manual, lastSaved>>
Jumps ==
    /\ renderPc = "idle" /\ mainPc \in {"loop", "turnChapter", "skipNext", "skipChapter", "chapters"}
    /\ mainPc' = "loop" /\ notified' /\ marked' = None
    /\ section' = None \/ (section # None /\ UNCHANGED spine /\ SameLayout(section', section))
    /\ status' = status \/ (status = "START" /\ status' = "READING")
    /\ UNCHANGED <<marks, faults, mainSave, renderPc, renderSave, shown, pageOffset, progress, manual,
                   lastSaved>>
OpensList ==
    /\ renderPc = "idle" /\ mainPc = "loop" /\ mainPc' = "chapters" /\ section' = None /\ ~notified'
    /\ UNCHANGED <<spine, origin, marks, marked, faults, mainSave, renderPc, renderSave, shown,
                   pageOffset, progress, status, manual, lastSaved>>
SetsStatus ==
    /\ mainPc = "loop" /\ mainPc' = IF section = None THEN "loop" ELSE "persist"
    /\ spine < Spines /\ notified' /\ manual' /\ status' \in ManualStatuses
    /\ marked' = IF Quiet /\ OnScreen /\ section # None /\ ~Leftover THEN status' ELSE None
    /\ UNCHANGED <<layout, cache, pend, deferred, spine, section, origin, marks, faults, mainSave,
                   renderPc, renderSave, shown, pageOffset, progress, lastSaved>>
Persists ==
    /\ renderPc = "idle" /\ mainPc = "persist"
    /\ \/ /\ section = None /\ mainPc' = "panic"
          /\ UNCHANGED <<notified, marks, faults, progress, status, manual, lastSaved>>
       \/ /\ section # None /\ section.page \in Int /\ mainPc' = "loop" /\ notified'
          /\ Noted(spine, section.page)
          /\ \E b : /\ Packed(b, spine, section.page)
                    /\ Redrawn => OffsetFits(b)
                    /\ Written(b, IF Moved(spine, section.page) \/ "turned" \in marks \/ ~Redrawn
                                    THEN {"torn"} ELSE {})
    /\ UNCHANGED <<spine, section, origin, marked, mainSave, renderPc, renderSave, shown, pageOffset>>
Closes ==
    /\ renderPc = "idle" /\ mainPc \in {"loop", "end", "panic"} /\ mainPc' = "closed"
    /\ section' = None /\ shown' = Screen("blank") /\ ~notified' /\ marked' = None /\ origin' = <<>>
    /\ \/ UNCHANGED <<marks, progress, status, manual, lastSaved>>
       \/ \E b : BytesOK(b) /\ b.spine \in Chapters /\ Written(b, {})
    /\ UNCHANGED <<spine, mainSave, renderPc, renderSave, pageOffset>>
Opens ==
    /\ mainPc = "closed" /\ mainPc' = "loop" /\ renderPc = "idle" /\ section = None
    /\ notified' /\ ~manual' /\ lastSaved'.count = -1
    /\ \/ /\ progress = None /\ spine' = 0 /\ status' = "START"
          /\ lastSaved'.spine = -1 /\ lastSaved'.page = -1
       \/ /\ progress # None /\ spine' = progress.spine /\ status' = progress.status
          /\ lastSaved'.spine = progress.spine /\ lastSaved'.page = progress.page
    /\ marks' = marks \cap {"torn", "lost"}
    /\ UNCHANGED <<section, origin, marked, faults, renderPc, shown, progress>>
Stutters ==
    UNCHANGED <<spine, section, origin, marks, marked, faults, mainPc, mainSave, renderPc, renderSave,
                shown, pageOffset, notified, progress, status, manual, lastSaved>>

(* Every step is of one of these kinds. *)

LEMMA BeginsKind == ASSUME Types, RenderBegin PROVE Begins
<1>1. spine = Spines \/ spine < Spines
  BY ReaderAssumption DEF Types, PlaceOK
<1>2. QED
  BY <1>1, ReaderAssumption DEF RenderBegin, Begins, LockFree, mainVars, place, saving, history, bounds, rest

LEMMA WriteOutcome ==
    ASSUME NEW b, NEW also, BytesOK(b), Write(b, also)
    PROVE  Written(b, also)
<1>1. b.page \in Int
  BY DEF BytesOK, Saved, PageNumbers
<1>2. CASE b.page < 0
  BY <1>1, <1>2 DEF Write, Written
<1>3. CASE b.page >= 0
  <2>1. \/ /\ marks' = (marks \ {"lost", "turned"}) \cup also
           /\ progress' = b /\ UNCHANGED faults
        \/ /\ marks' = (marks \ {"turned"}) \cup {"lost"} \cup also
           /\ progress' \in {progress, None} /\ faults' = faults - 1
    BY <1>1, <1>3 DEF Write, Fault
  <2>2. QED
    BY <1>3, <2>1 DEF Written
<1>4. QED
  BY <1>1, <1>2, <1>3

(* The steps of render() up to the page it shows. *)
LEMMA LaysOutKind ==
    ASSUME Types,
           \/ RenderOpen \/ RenderBuild \/ RenderBuilt \/ RenderPlace
           \/ RenderFitStart \/ RenderFitBuild \/ RenderFit
    PROVE  LaysOut
<1>1. CASE RenderOpen
  <2>1. /\ UNCHANGED <<spine, origin, marks, marked, mainPc, mainSave, renderSave, notified,
                       pageOffset, progress, status, manual, lastSaved>>
        /\ renderPc' = "idle" => shown' = Screen("error")
        /\ renderPc' # "idle" => UNCHANGED shown
    BY <1>1 DEF RenderOpen, mainVars, saving, bounds
  <2>2. QED
    BY <1>1, <2>1, OpenEffect DEF LaysOut
<1>2. ASSUME NEW pc \in {"build", "fit"}, renderPc = pc, section.building, BuildMore(pc), RenderUnchanged
      PROVE  LaysOut
  <2>1. /\ UNCHANGED <<spine, origin, marks, marked, mainPc, mainSave, renderSave, notified,
                       pageOffset, progress, status, manual, lastSaved>>
        /\ renderPc' = "idle" => shown' = Screen("error")
        /\ renderPc' # "idle" => UNCHANGED shown
    BY <1>2 DEF BuildMore, RenderUnchanged, mainVars, saving
  <2>2. section # None
    BY <1>2 DEF Types, StepsOK
  <2>3. \/ Failed /\ renderPc' = "idle"
        \/ UNCHANGED faults /\ Continued(section', section) /\ renderPc' = pc
    BY <1>2, <2>2, BuildEffect
  <2>4. QED
    BY <1>2, <2>1, <2>2, <2>3 DEF LaysOut, Continued, SameChapter
<1>3. CASE RenderBuild
  BY <1>2, <1>3 DEF RenderBuild
<1>4. CASE RenderBuilt
  <2>1. /\ UNCHANGED <<spine, section, origin, marks, marked, mainPc, mainSave, renderSave, notified,
                       shown, faults, pageOffset, progress, status, manual, lastSaved>>
        /\ renderPc = "build" /\ renderPc' = "place"
    BY <1>4 DEF RenderBuilt, mainVars, saving, place, history, bounds, rest
  <2>2. section # None
    BY <2>1 DEF Types, StepsOK
  <2>3. QED
    BY <2>1, <2>2 DEF LaysOut
<1>5. CASE RenderPlace
  <2>1. /\ UNCHANGED <<spine, origin, marks, marked, mainPc, mainSave, renderSave, notified,
                       shown, faults, pageOffset, progress, status, manual, lastSaved>>
        /\ renderPc = "place" /\ renderPc' = "fit"
    BY <1>5 DEF RenderPlace, RenderUnchanged, mainVars, saving
  <2>2. section' # None /\ section'.page >= 0
    BY <1>5, PlaceEffect DEF SameLayout, SameChapter
  <2>3. QED
    BY <2>1, <2>2 DEF LaysOut
<1>6. CASE RenderFitStart
  <2>1. /\ UNCHANGED <<spine, origin, marks, marked, mainPc, mainSave, renderSave, notified,
                       pageOffset, progress, status, manual, lastSaved>>
        /\ renderPc = "fit"
        /\ renderPc' = "idle" => shown' = Screen("error")
        /\ renderPc' # "idle" => UNCHANGED shown
    BY <1>6 DEF RenderFitStart, RenderUnchanged, mainVars, saving
  <2>2. QED
    BY <1>6, <2>1, FitStartEffect DEF LaysOut, Restarted, SameChapter, Failed
<1>7. CASE RenderFitBuild
  BY <1>2, <1>7 DEF RenderFitBuild
<1>8. CASE RenderFit
  <2>1. /\ UNCHANGED <<spine, origin, marks, marked, mainPc, mainSave, renderSave, notified,
                       shown, faults, pageOffset, progress, status, manual, lastSaved>>
        /\ renderPc = "fit" /\ renderPc' = "show"
    BY <1>8 DEF RenderFit, RenderUnchanged, mainVars, saving
  <2>2. section' # None /\ (section.page >= 0 => InBounds(section'))
    BY <1>8, FitEffect DEF SameLayout, SameChapter
  <2>3. QED
    BY <2>1, <2>2 DEF LaysOut
<1>9. QED
  BY <1>1, <1>3, <1>4, <1>5, <1>6, <1>7, <1>8

LEMMA DrawsKind == ASSUME Types, RenderShow PROVE Draws
<1>1. /\ renderPc = "show" /\ marks' = marks \ {"turned"}
      /\ UNCHANGED <<spine, origin, marked, mainPc, mainSave, renderSave, progress, status, manual, lastSaved>>
      /\ \/ /\ InBounds(section) /\ DrawPage /\ renderPc' = "save" /\ UNCHANGED <<section, notified, faults>>
         \/ /\ ~InBounds(section) /\ shown' = Screen("outOfBounds") /\ renderPc' = "idle"
            /\ UNCHANGED <<section, notified, pageOffset, faults>>
         \/ /\ Fault /\ section' = None /\ renderPc' = "idle" /\ UNCHANGED pageOffset
            /\ \/ notified' /\ UNCHANGED shown
               \/ shown' = Screen("error") /\ UNCHANGED notified
  BY DEF RenderShow, mainVars, saving, rest, Request
<1>2. section # None
  BY ShowEffect
<1>3. QED
  BY <1>1, <1>2 DEF Draws, DrawPage, Failed, Fault

(* The offset of the page drawn last is that of the page saved. *)
LEMMA BytesFit ==
    ASSUME Types, section # None, spine < Spines, NEW n, Redrawn
    PROVE  OffsetFits(Bytes(spine, section.page, n))
<1> DEFINE so == SavedOffset(spine, section.page)
<1>1. SavedPage(spine, section.page) = section.page
  BY ReaderAssumption DEF SavedPage, AtEnd, Types, PlaceOK
<1>2. so # None => so = OffsetOf(section, section.page)
  BY DEF SavedOffset, Redrawn
<1> DEFINE b == Bytes(spine, section.page, n)
           of == IF so = None THEN None ELSE section.layout
           o  == IF so = None THEN 0 ELSE so
<1>3. b.of = of /\ b.offset = o /\ b.page = section.page
  BY <1>1 DEF Bytes
<1> HIDE DEF b, so
<1>4. QED
  BY <1>2, <1>3 DEF OffsetFits, OffsetOf, b

LEMMA NotesPageKind == ASSUME Types, RenderSave PROVE NotesPage
<1>1. /\ section # None /\ renderPc = "save" /\ SectionOK(section)
      /\ section.page \in PageNumbers /\ section.count \in Nat /\ spine \in 0 .. Spines
  BY SectionRecord DEF RenderSave, Types, StepsOK, SectionInv, PlaceOK
<1>2. UNCHANGED <<spine, section, origin, marked, faults, mainPc, mainSave, shown, pageOffset,
                   notified, progress>>
  BY DEF RenderSave, place, mainVars, bounds, rest
<1>3. CASE Unsaved
  <2>1. PICK n \in Estimates(section) :
           Save(spine, section.page, n) /\ renderSave' = Bytes(spine, section.page, n)
    BY <1>3 DEF RenderSave
  <2>2. n \in Nat
    BY <1>1, EstimateOK
  <2>3. Noted(spine, section.page)
    <3>1. lastSaved' = [spine |-> spine, page |-> SavedPage(spine, section.page), count |-> n]
          /\ status' = NaturalStatus(spine, section.page) /\ manual' = KeepManual(spine, section.page)
      BY <2>1 DEF Save
    <3> HIDE DEF SavedPage, NaturalStatus, KeepManual
    <3>2. QED
      BY <2>2, <3>1 DEF Noted
  <2>4. Packed(renderSave', spine, section.page)
    BY <1>1, <2>1, <2>2, BytesTyped DEF Packed
  <2>5. pageOffset = OffsetOf(section, section.page) /\ spine < Spines => OffsetFits(renderSave')
    BY <1>1, <2>1, BytesFit DEF Redrawn
  <2>6. renderPc' = "write"
        /\ marks' = CASE "turned" \in marks -> (marks \ {"turned"}) \cup {"torn"}
                      [] "turned" \notin marks /\ spine = Spines -> marks
                      [] OTHER -> marks \ {"torn"}
    BY <1>3 DEF RenderSave
  <2>7. QED
    BY <1>1, <1>2, <1>3, <2>3, <2>4, <2>5, <2>6 DEF NotesPage, PageNumbers
<1>4. CASE ~Unsaved
  <2>1. renderPc' = "idle" /\ UNCHANGED <<marks, status, manual, lastSaved, renderSave>>
    BY <1>4 DEF RenderSave
  <2>2. QED
    BY <1>1, <1>2, <1>4, <2>1 DEF NotesPage, PageNumbers
<1>5. QED
  BY <1>3, <1>4

LEMMA WritesPageKind == ASSUME Types, RenderWrite PROVE WritesPage
<1>1. /\ section # None /\ renderPc = "write" /\ section.page \in Int /\ SectionOK(section)
      /\ renderSave # None /\ BytesOK(renderSave)
  BY SectionRecord DEF RenderWrite, Types, StepsOK, SectionInv, SavingOK, PageNumbers
<1>2. /\ renderPc' = "idle"
      /\ UNCHANGED <<spine, section, origin, marked, mainPc, mainSave, shown, pageOffset, notified,
                   status, manual>>
  BY DEF RenderWrite, place, mainVars, rest
<1>3. Written(renderSave, (IF mainPc = "endSave" THEN {"overlap"} ELSE {})
                          \cup (IF "turned" \in marks THEN {"torn"} ELSE {}))
  BY <1>1, WriteOutcome DEF RenderWrite
<1>4. CASE progress' = renderSave
  <2>1. PICK n \in Estimates(section) : lastSaved' = [spine |-> spine, page |-> section.page, count |-> n]
    BY <1>4 DEF RenderWrite
  <2>2. QED
    BY <1>1, <1>2, <1>3, <1>4, <2>1, EstimateOK DEF WritesPage
<1>5. CASE progress' # renderSave
  BY <1>1, <1>2, <1>3, <1>5 DEF WritesPage, RenderWrite
<1>6. QED
  BY <1>4, <1>5

LEMMA ReachKept ==
    ASSUME NEW sec, NEW new, SectionOK(sec), InReach(sec),
           (SectionOK(new) /\ Continued(new, sec)) \/ (~sec.building /\ Restarted(new, sec))
    PROVE  InReach(new)
<1>1. sec.count \in Nat /\ sec.built \in Nat /\ sec.page \in Int /\ Pages(sec.layout) \in Nat
  BY SectionRecord
<1>2. new.layout = sec.layout /\ new.page = sec.page
  BY DEF Continued, Restarted, SameChapter
<1>3. CASE SectionOK(new) /\ Continued(new, sec)
  <2>1. new.count \in Nat /\ new.built \in Nat
    BY <1>3, SectionRecord
  <2>2. /\ new.count >= sec.count /\ (~new.building => new.count = Pages(new.layout))
        /\ new.partial = (sec.partial /\ new.building)
        /\ ~sec.partial /\ sec.built = sec.count => new.built = new.count
    BY <1>3 DEF Continued
  <2>3. CASE sec.page < sec.count
    BY <1>1, <1>2, <2>1, <2>2, <2>3 DEF InReach
  <2>4. CASE sec.building /\ ~sec.partial /\ sec.built = sec.count
    <3>1. new.built = new.count /\ ~new.partial
      BY <2>2, <2>4
    <3>2. ~new.building => new.page < new.count
      BY <1>1, <1>2, <2>1, <2>2 DEF InReach
    <3>3. QED
      BY <1>1, <1>2, <3>1, <3>2 DEF InReach
  <2>5. QED
    BY <2>3, <2>4 DEF InReach
<1>4. CASE ~sec.building /\ Restarted(new, sec)
  BY <1>1, <1>2, <1>4 DEF InReach, Restarted
<1>5. QED
  BY <1>3, <1>4

LEMMA WorksKind ==
    ASSUME Types, ExtendTest \/ Extend \/ TickTest \/ Tick
    PROVE  Works
<1>1. CASE ExtendTest \/ TickTest
  <2>1. /\ renderPc = "idle" /\ mainPc = "loop" /\ mainPc' \in {"extend", "tick"} /\ section # None
        /\ UNCHANGED <<section, notified, marked, faults, spine, origin, marks, mainSave, renderSave,
                       renderPc, shown, pageOffset, progress, status, manual, lastSaved>>
    BY <1>1 DEF ExtendTest, TickTest, ExtendDue, Idle, LockFree, place, saving, drawVars, history, bounds, rest
  <2>2. QED
    BY <2>1 DEF Works
<1>2. CASE Extend
  <2>1. /\ renderPc = "idle" /\ mainPc = "extend"
        /\ UNCHANGED <<spine, notified, marked, origin, marks, mainSave, renderSave, renderPc, shown, pageOffset,
                       progress, status, manual, lastSaved>>
    BY <1>2 DEF Extend, LockFree, saving, drawVars, history
  <2>2. ASSUME section # None, ~section.building, Restarted(section', section), SectionOK(section)
        PROVE  /\ SameChapter(section', section) /\ section'.page = section.page
               /\ PlaceHeld /\ (section.building \/ Cleared) => PlaceHeld'
    <3>1. InReach(section) => InReach(section')
      BY <2>2, ReachKept
    <3>2. UNCHANGED deferred
      BY <1>2 DEF Extend
    <3>3. QED
      BY <2>2, <3>1, <3>2 DEF Restarted, PlaceHeld, Cleared
  <2>3. QED
    BY <1>2, <2>1, <2>2, ExtendEffect DEF Works
<1>3. CASE Tick
  <2>1. /\ renderPc = "idle" /\ mainPc = "tick"
        /\ UNCHANGED <<spine, origin, marks, mainSave, renderSave, renderPc, shown, pageOffset,
                       progress, status, manual, lastSaved>>
        /\ marked' \in {marked, None}
    BY <1>3 DEF Tick, Panic, LockFree, saving, drawVars, rest
  <2>2. ASSUME section # None, Continued(section', section), SectionOK(section), SectionOK(section'),
               deferred' \in {deferred, NoDeferred(deferred)}
        PROVE  /\ SameChapter(section', section) /\ section'.page = section.page
               /\ PlaceHeld /\ (section.building \/ Cleared) => PlaceHeld'
    <3>1. InReach(section) => InReach(section')
      BY <2>2, ReachKept
    <3>2. Cleared => Cleared'
      BY <2>2, NoDeferredOK DEF Cleared, Types, PlaceOK
    <3>3. section.page < section.count => section'.page < section'.count
      BY <2>2, SectionRecord DEF Continued
    <3>4. QED
      BY <2>2, <3>1, <3>2, <3>3 DEF Continued, PlaceHeld
  <2>3. QED
    BY <1>3, <2>1, <2>2, TickEffect DEF Works, SameChapter, Failed
<1>4. QED
  BY <1>1, <1>2, <1>3

LEMMA EndTestsKind == ASSUME Types, EndTest PROVE EndTests
<1>1. /\ mainPc = "loop" /\ spine = Spines /\ Spines \in Nat /\ Spines \in 0 .. Spines /\ 0 \in PageNumbers
      /\ marks' = IF renderPc = "write" THEN marks \cup {"overlap"} ELSE marks
      /\ UNCHANGED <<spine, section, origin, marked, faults, renderPc, renderSave, shown, pageOffset,
                     notified, progress>>
  BY ReaderAssumption DEF EndTest, Idle, place, drawVars, bounds, Types, PlaceOK, PageNumbers
<1>2. CASE lastSaved.spine # spine
  <2>1. Save(Spines, 0, 0) /\ mainSave' = Bytes(Spines, 0, 0) /\ mainPc' = "endSave"
    BY <1>1, <1>2 DEF EndTest
  <2>2. Packed(mainSave', Spines, 0)
    BY <1>1, <2>1, BytesTyped DEF Packed
  <2>3. Noted(Spines, 0)
    <3>1. lastSaved' = [spine |-> Spines, page |-> SavedPage(Spines, 0), count |-> 0]
          /\ status' = NaturalStatus(Spines, 0) /\ manual' = KeepManual(Spines, 0)
      BY <2>1 DEF Save
    <3> HIDE DEF SavedPage, NaturalStatus, KeepManual
    <3>2. QED
      BY <3>1 DEF Noted
  <2>4. QED
    BY <1>1, <1>2, <2>1, <2>2, <2>3 DEF EndTests
<1>3. CASE lastSaved.spine = spine
  BY <1>1, <1>3 DEF EndTests, EndTest
<1>4. QED
  BY <1>2, <1>3

LEMMA EndSavesKind == ASSUME Types, EndSave PROVE EndSaves
<1>1. /\ mainPc = "endSave" /\ spine = Spines /\ mainSave # None /\ BytesOK(mainSave)
  BY DEF EndSave, Types, StepsOK, SavingOK
<1>2. Written(mainSave, {})
  BY <1>1, WriteOutcome DEF EndSave
<1>3. QED
  BY <1>1, <1>2 DEF EndSaves, EndSave, place, drawVars, rest

LEMMA EndShowsKind == ASSUME Types, EndPush PROVE EndShows
BY DEF EndPush, EndShows, LockFree, Types, StepsOK, place, saving, history, bounds, rest

LEMMA ReturnsKind == ASSUME Types, ReturnFromEnd PROVE Returns
BY DEF ReturnFromEnd, Returns, Request, Somewhere, Types, StepsOK, saving, drawVars, rest

LEMMA ChoosesKind ==
    ASSUME Types,
           \/ \E dir \in {-1, 1} : PressTurn(dir)
           \/ QueuedTurn \/ TurnLock \/ SkipForward \/ SkipBack \/ EndReset \/ CancelChapters
    PROVE  Chooses
<1>1. UNCHANGED <<spine, section, origin, marks, marked, faults, mainSave, renderPc, renderSave,
                   shown, pageOffset, progress, status, manual, lastSaved>>
  BY DEF PressTurn, QueuedTurn, TurnLock, SkipForward, SkipBack, EndReset, CancelChapters, place, saving,
    drawVars, history, bounds, rest, mainVars
<1>2. notified \in BOOLEAN
  BY DEF Types, NotifiedOK
<1>3. CASE \E dir \in {-1, 1} : PressTurn(dir)
  BY <1>1, <1>2, <1>3 DEF Chooses, PressTurn, Ready, Idle, Chosen, Request, LockFree
<1>4. CASE QueuedTurn
  BY <1>1, <1>2, <1>4 DEF Chooses, QueuedTurn, Ready, Idle, Chosen, LockFree
<1>5. CASE TurnLock \/ EndReset
  BY <1>1, <1>2, <1>5 DEF Chooses, TurnLock, EndReset, Idle, mainVars
<1>6. CASE SkipForward \/ SkipBack
  BY <1>1, <1>2, <1>6 DEF Chooses, SkipForward, SkipBack, Ready, Idle
<1>7. CASE CancelChapters
  BY <1>1, <1>2, <1>7 DEF Chooses, CancelChapters, Request, Types, StepsOK
<1>8. QED
  BY <1>3, <1>4, <1>5, <1>6, <1>7

LEMMA TurnTestsKind == ASSUME Types, TurnTest PROVE TurnTests
<1>1. /\ mainPc = "turnTest"
      /\ UNCHANGED <<section, origin, faults, mainSave, renderPc, renderSave, shown, pageOffset,
                   progress, status, manual, lastSaved>>
  BY DEF TurnTest, saving, drawVars, bounds, rest
<1>2. CASE section = None
  BY <1>1, <1>2 DEF TurnTest, TurnTests, Panic
<1>3. CASE section # None
  <2>1. section.page \in Int /\ section.count \in Int
    BY <1>3, SectionRecord DEF Types, SectionInv, PageNumbers
  <2>2. \/ mainPc' \in {"turnPage", "turnChapter"} /\ UNCHANGED <<spine, notified>>
        \/ mainPc' = "loop" /\ notified' /\ (UNCHANGED spine \/ (spine' = Spines /\ ~PagesAhead))
    BY <1>3 DEF TurnTest, Panic, Request
  <2>3. IF mainPc' = "loop"
          THEN marked' = None /\ marks' = IF renderPc \in {"save", "write"} THEN marks \cup {"turned"} ELSE marks
          ELSE UNCHANGED <<marked, marks>>
    BY DEF TurnTest, Somewhere
  <2>4. ~PagesAhead => section.page >= section.count - 1
    BY <2>1 DEF PagesAhead
  <2>5. QED
    BY <1>1, <1>3, <2>2, <2>3, <2>4 DEF TurnTests
<1>4. QED
  BY <1>2, <1>3

LEMMA TurnsPageKind == ASSUME Types, TurnPage \/ SkipPage PROVE TurnsPage
<1>1. CASE TurnPage
  <2>1. /\ mainPc = "turnPage" /\ section = None => UNCHANGED notified
        /\ UNCHANGED <<spine, origin, faults, mainSave, renderPc, renderSave, shown, pageOffset,
                   progress, status, manual, lastSaved>>
    BY <1>1 DEF TurnPage, Panic, saving, drawVars, bounds, rest
  <2>2. mainPc = "turnPage"
    BY <1>1 DEF TurnPage
  <2>3. QED
    BY <1>1, <2>1, <2>2, TurnPageEffect DEF TurnsPage, Somewhere
<1>2. CASE SkipPage
  <2>1. /\ section = None => UNCHANGED notified
        /\ UNCHANGED <<spine, origin, faults, mainSave, renderPc, renderSave, shown, pageOffset,
                   progress, status, manual, lastSaved>>
    BY <1>2 DEF SkipPage, Panic, saving, drawVars, bounds, rest
  <2>2. mainPc = "skipPage"
    BY <1>2 DEF SkipPage
  <2>3. QED
    BY <1>2, <2>1, <2>2, SkipPageEffect DEF TurnsPage, Somewhere
<1>3. QED
  BY <1>1, <1>2

LEMMA JumpsKind ==
    ASSUME Types,
           \/ TurnChapter \/ SkipNext \/ SkipChapter \/ RestoreSavedPosition
           \/ \E L \in Layouts : Relayout(L)
           \/ \E s \in Chapters : ChooseChapter(s)
           \/ \E s \in Chapters, o \in Anchors : JumpToPercent(s, o) \/ Footnote(s, o)
           \/ \E s \in Chapters, o \in Anchors, L \in Layouts : GoToBookmark(s, o, L)
    PROVE  Jumps
<1>1. CASE TurnChapter \/ SkipNext \/ SkipChapter
  BY <1>1 DEF Jumps, TurnChapter, SkipNext, SkipChapter, ToChapter, LockFree, Request, Somewhere, saving,
    drawVars
<1>2. CASE RestoreSavedPosition
  BY <1>2 DEF Jumps, RestoreSavedPosition, Ready, Idle, ResetSection, LockFree, Request, Somewhere, saving,
    drawVars, mainVars, bounds
<1>3. ASSUME NEW L \in Layouts, Relayout(L) PROVE Jumps
  BY <1>3 DEF Jumps, Relayout, Ready, Idle, ResetSection, LockFree, Request, Somewhere, saving, drawVars,
    mainVars
<1>4. ASSUME NEW s \in Chapters, ChooseChapter(s) PROVE Jumps
  <2>1. section = None /\ renderPc = "idle"
    BY <1>4 DEF ChooseChapter, Types, StepsOK
  <2>2. QED
    BY <1>4, <2>1 DEF Jumps, ChooseChapter, Request, drawVars, bounds
<1>5. ASSUME NEW s \in Chapters, NEW o \in Anchors, JumpToPercent(s, o) \/ Footnote(s, o) PROVE Jumps
  BY <1>5 DEF Jumps, JumpToPercent, Footnote, Ready, Idle, ResetSection, LockFree, Request, Somewhere,
    saving, drawVars, mainVars
<1>6. ASSUME NEW s \in Chapters, NEW o \in Anchors, NEW L \in Layouts, GoToBookmark(s, o, L) PROVE Jumps
  <2>1. /\ renderPc = "idle" /\ mainPc = "loop" /\ mainPc' = "loop" /\ notified' /\ marked' = None
        /\ UNCHANGED <<status, marks, faults, mainSave, renderPc, renderSave, shown, pageOffset, progress,
                       manual, lastSaved>>
    BY <1>6 DEF GoToBookmark, Ready, Idle, LockFree, Request, Somewhere, saving, drawVars
  <2>2. QED
    BY <1>6, <2>1, BookmarkEffect DEF Jumps
<1>7. QED
  BY <1>1, <1>2, <1>3, <1>4, <1>5, <1>6

LEMMA OpensListKind == ASSUME Types, OpenChapters PROVE OpensList
BY DEF OpensList, OpenChapters, Ready, Idle, ResetSection, LockFree, saving, drawVars, rest

LEMMA SetsStatusKind == ASSUME Types, \E st \in ManualStatuses : SetStatus(st) PROVE SetsStatus
BY DEF SetsStatus, SetStatus, Ready, Idle, Request, place, drawVars, rest

LEMMA PersistsKind == ASSUME Types, Inside, Persist PROVE Persists
<1>1. /\ renderPc = "idle" /\ mainPc = "persist" /\ spine < Spines
      /\ UNCHANGED <<spine, section, origin, marked, mainSave, renderSave, renderPc, shown, pageOffset>>
  BY DEF Persist, Inside, LockFree, place, drawVars, rest
<1>2. CASE section = None
  BY <1>1, <1>2 DEF Persist, Persists, Panic, saving
<1>3. CASE section # None
  <2>1. /\ SectionOK(section) /\ section.page \in PageNumbers /\ spine \in 0 .. Spines
        /\ mainPc' = "loop" /\ notified'
    BY <1>3, SectionRecord DEF Persist, Panic, Request, Types, SectionInv, PlaceOK
  <2> DEFINE also == IF Moved(spine, section.page) \/ "turned" \in marks \/ ~Redrawn THEN {"torn"} ELSE {}
  <2>2. PICK n \in Estimates(section) :
           Save(spine, section.page, n) /\ Write(Bytes(spine, section.page, n), also)
    BY <1>3 DEF Persist, Panic
  <2> HIDE DEF also
  <2>3. n \in Nat
    BY <2>1, EstimateOK
  <2> DEFINE b == Bytes(spine, section.page, n)
  <2>4. Packed(b, spine, section.page)
    BY <2>1, <2>3, BytesTyped DEF Packed
  <2>5. Redrawn => OffsetFits(b)
    BY <1>1, <1>3, BytesFit
  <2>6. Written(b, also)
    BY <2>2, <2>4, WriteOutcome DEF Packed
  <2>7. Noted(spine, section.page)
    <3>1. lastSaved' = [spine |-> spine, page |-> SavedPage(spine, section.page), count |-> n]
          /\ status' = NaturalStatus(spine, section.page) /\ manual' = KeepManual(spine, section.page)
      BY <2>2 DEF Save
    <3> HIDE DEF SavedPage, NaturalStatus, KeepManual
    <3>2. QED
      BY <2>3, <3>1 DEF Noted
  <2> HIDE DEF b
  <2>8. QED
    BY <1>1, <1>3, <2>1, <2>4, <2>5, <2>6, <2>7 DEF Persists, PageNumbers, also
<1>4. QED
  BY <1>2, <1>3

LEMMA ClosesKind == ASSUME Types, DeleteCache \/ Leave \/ Reboot PROVE Closes
<1>1. /\ renderPc = "idle" /\ mainPc \in {"loop", "end", "panic"} /\ mainPc' = "closed"
      /\ section' = None /\ shown' = Screen("blank") /\ ~notified' /\ marked' = None /\ origin' = <<>>
      /\ UNCHANGED <<spine, mainSave, renderSave, renderPc, pageOffset>>
  BY DEF DeleteCache, Leave, Reboot, Closed, Ready, Idle, LockFree, Somewhere
<1>2. CASE DeleteCache
  <2>1. section # None /\ SectionOK(section) /\ section.page \in PageNumbers /\ section.count \in Nat
    BY <1>2, SectionRecord DEF DeleteCache, Types, SectionInv
  <2>2. spine \in Chapters /\ spine \in 0 .. Spines
    BY <1>2, ReaderAssumption DEF DeleteCache, Ready, Types, PlaceOK, Chapters
  <2> DEFINE p == Bytes(spine, section.page, section.count)
             b == [p EXCEPT !.offset = 0, !.of = None]
  <2>3. BytesOK(p) /\ p.spine = spine
    BY <2>1, <2>2, BytesTyped
  <2>4. Write(b, {})
    BY <1>2 DEF DeleteCache
  <2> HIDE DEF p
  <2>5. BytesOK(b) /\ b.spine = spine
    <3> DEFINE zero == 0
    <3>1. zero \in Int /\ zero \in Nat /\ zero = 0
      OBVIOUS
    <3>2. b = [p EXCEPT !.offset = zero, !.of = None]
      OBVIOUS
    <3> HIDE DEF zero, b
    <3>3. b \in Saved /\ b.offset = zero /\ b.spine = spine
      BY <2>3, <3>1, <3>2 DEF BytesOK, Saved
    <3>4. QED
      BY <3>1, <3>3 DEF BytesOK
  <2> HIDE DEF b
  <2>6. Written(b, {})
    BY <2>4, <2>5, WriteOutcome
  <2>7. QED
    BY <1>1, <2>2, <2>5, <2>6 DEF Closes
<1>3. CASE Leave
  <2>1. CASE origin # <<>>
    <3> DEFINE pos == origin[1]
               b == Bytes(pos.spine, pos.page, 0)
    <3>1. pos \in [spine : Chapters, page : PageNumbers]
      BY <2>1, EndsOfSequence DEF Types, OriginOK
    <3>2. pos.spine \in Chapters /\ pos.spine \in 0 .. Spines /\ pos.page \in PageNumbers
      BY <3>1, ReaderAssumption DEF Chapters
    <3>3. Write(b, {})
      BY <1>3, <2>1 DEF Leave
    <3>4. BytesOK(b) /\ b.spine = pos.spine
      BY <3>2, BytesTyped
    <3> HIDE DEF b, pos
    <3>5. Written(b, {})
      BY <3>3, <3>4, WriteOutcome
    <3>6. QED
      BY <1>1, <3>2, <3>4, <3>5 DEF Closes
  <2>2. CASE origin = <<>>
    <3>1. UNCHANGED <<marks, progress, status, manual, lastSaved>>
      BY <1>3, <2>2 DEF Leave, saving
    <3>2. QED
      BY <1>1, <3>1 DEF Closes
  <2>3. QED
    BY <2>1, <2>2
<1>4. CASE Reboot
  BY <1>1, <1>4 DEF Reboot, Closes, saving
<1>5. QED
  BY <1>2, <1>3, <1>4

LEMMA OpensKind == ASSUME Types, \E L \in Layouts : Open(L) PROVE Opens
<1> PICK L \in Layouts : Open(L)
  OBVIOUS
<1>1. /\ mainPc = "closed" /\ mainPc' = "loop" /\ renderPc = "idle" /\ section = None
      /\ notified' /\ ~manual' /\ marks' = marks \cap {"torn", "lost"}
      /\ UNCHANGED <<section, origin, marked, faults, renderPc, shown, progress>>
  BY DEF Open, Types, StepsOK, Request
<1>2. CASE progress = None
  <2>1. spine' = 0 /\ status' = "START" /\ lastSaved' = [spine |-> -1, page |-> -1, count |-> -1]
    BY <1>2 DEF Open
  <2>2. QED
    BY <1>1, <1>2, <2>1 DEF Opens
<1>3. CASE progress # None
  <2>1. /\ spine' = progress.spine /\ status' = progress.status
        /\ lastSaved' = [spine |-> progress.spine, page |-> progress.page, count |-> -1]
    BY <1>3 DEF Open
  <2>2. QED
    BY <1>1, <1>3, <2>1 DEF Opens
<1>4. QED
  BY <1>2, <1>3

LEMMA StuttersKind == UNCHANGED vars => Stutters
BY DEF Stutters, vars, place, saving, mainVars, drawVars, history, bounds, rest

Kinds ==
    \/ Begins \/ LaysOut \/ Draws \/ NotesPage \/ WritesPage \/ Works
    \/ EndTests \/ EndSaves \/ EndShows \/ Returns \/ Chooses \/ TurnTests \/ TurnsPage
    \/ Jumps \/ OpensList \/ SetsStatus \/ Persists \/ Closes \/ Opens \/ Stutters
LEMMA EveryStep == ASSUME Types, Inside, [Next]_vars PROVE Kinds
<1>1. CASE Render
  BY <1>1, BeginsKind, LaysOutKind, DrawsKind, NotesPageKind, WritesPageKind DEF Render, Kinds
<1>2. CASE Background
  BY <1>2, WorksKind DEF Background, Kinds
<1>3. CASE End
  BY <1>3, EndTestsKind, EndSavesKind, EndShowsKind, ReturnsKind, ChoosesKind DEF End, Kinds
<1>4. CASE Turns
  BY <1>4, ChoosesKind, TurnTestsKind, TurnsPageKind, JumpsKind DEF Turns, Kinds
<1>5. CASE Menus
  BY <1>5, ChoosesKind, JumpsKind, OpensListKind, SetsStatusKind, PersistsKind, ClosesKind DEF Menus, Kinds
<1>6. CASE Sessions
  BY <1>6, ClosesKind, OpensKind DEF Sessions, Kinds
<1>7. CASE UNCHANGED vars
  BY <1>7, StuttersKind DEF Kinds
<1>8. QED
  BY <1>1, <1>2, <1>3, <1>4, <1>5, <1>6, <1>7 DEF Next

----------------------------------------------------------------------------
(* progress.bin follows the screen: what holds at the end of the book, while a page is
   drawn and saved, and between two saves. A save is "torn" when the page was turned
   under it. *)
Finished == {EndStatus, "WAITING_FOR_CHAPTER", "NEW_CHAPTER_AVAILABLE"}
Ended ==
    /\ mainPc \in {"endSave", "endPush", "end"} => lastSaved.spine = Spines
    /\ mainPc = "endSave" => /\ mainSave.spine = Spines /\ mainSave.page = 0
                             /\ mainSave.status \in Finished /\ ~manual
Intact == "turned" \notin marks /\ "torn" \notin marks
ShownPage == shown.kind = "page" => shown.spine \in Chapters /\ shown.page \in Nat
Drawn ==
    /\ renderPc = "save" => section.count > 0 /\ (spine = Spines => section.page >= 0)
    /\ renderPc = "save" /\ "turned" \notin marks /\ spine < Spines =>
          shown = PageScreen /\ section.page >= 0 /\ pageOffset = OffsetOf(section, section.page)
Writing ==
    /\ renderPc = "write" /\ Intact /\ spine < Spines =>
          /\ shown = PageScreen /\ lastSaved.count # -1
          /\ lastSaved.spine = spine /\ lastSaved.page = section.page
    /\ renderPc = "write" /\ lastSaved.spine # Spines =>
          renderSave.spine = lastSaved.spine /\ renderSave.page = lastSaved.page
    /\ renderPc = "write" /\ renderSave.spine = Spines => renderSave.page >= 0
    /\ renderPc = "write" /\ "torn" \notin marks /\ renderSave.spine \in Chapters =>
          OffsetFits(renderSave) /\ renderSave.page >= 0
Followed ==
    renderPc = "idle" /\ ~notified /\ mainPc # "chapters" /\ shown.kind = "page" /\ spine < Spines /\ Intact =>
        lastSaved.spine = shown.spine /\ lastSaved.page = shown.page /\ lastSaved.count # -1
PageNoted ==
    lastSaved.spine \in Chapters /\ mainPc # "closed" /\ "torn" \notin marks => lastSaved.page >= 0
Stored ==
    renderPc # "write" /\ mainPc # "closed" /\ "lost" \notin marks /\ "torn" \notin marks =>
      /\ lastSaved.spine \in Chapters =>
            progress # None /\ progress.spine = lastSaved.spine /\ progress.page = lastSaved.page
      /\ progress # None /\ progress.spine \in Chapters /\ lastSaved.count # -1 /\ mainPc # "endSave" =>
            OffsetFits(progress)

LEMMA Located ==
    ASSUME Types
    PROVE  /\ spine \in 0 .. Spines /\ Spines \in Nat /\ (spine = Spines \/ spine \in Chapters)
           /\ Spines \notin Chapters
           /\ section # None => section.spine \in Chapters /\ section.page \in PageNumbers
                                /\ section.page \in Int /\ section.count \in Nat
           /\ section # None /\ spine < Spines => section.spine = spine
           /\ mainPc \in {"closed", "chapters", "end"} => renderPc = "idle"
           /\ mainPc \in {"endSave", "endPush", "end"} => spine = Spines
           /\ renderPc \in {"build", "place", "fit", "show", "save", "write"} => section # None
           /\ renderPc = "open" => spine < Spines
           /\ lastSaved.spine \in Int /\ lastSaved.page \in PageNumbers
           /\ progress # None => progress.page >= 0
           /\ renderSave # None => renderSave.page \in Int /\ (renderSave.spine = Spines \/ renderSave.spine \in Chapters)
<1>1. /\ spine \in 0 .. Spines /\ Spines \in Nat /\ (spine = Spines \/ spine \in Chapters)
      /\ Spines \notin Chapters
  BY ReaderAssumption DEF Types, PlaceOK, Chapters
<1>2. section # None => section.spine \in Chapters /\ section.page \in PageNumbers
                        /\ section.page \in Int /\ section.count \in Nat
  BY SectionRecord DEF Types, SectionInv, PageNumbers
<1>3. section # None /\ spine < Spines => section.spine = spine
  BY DEF Types, LocatedOK
<1>4. /\ lastSaved.spine \in Int /\ lastSaved.page \in PageNumbers
      /\ progress # None => progress.page >= 0
  BY ReaderAssumption DEF Types, SavingOK
<1>5. renderSave # None => renderSave.page \in Int /\ (renderSave.spine = Spines \/ renderSave.spine \in Chapters)
  BY ReaderAssumption DEF Types, SavingOK, BytesOK, Saved, Chapters, PageNumbers
<1>6. QED
  BY <1>1, <1>2, <1>3, <1>4, <1>5 DEF Types, StepsOK

LEMMA PageKept ==
    ASSUME Types, NEW p
    PROVE  /\ spine < Spines => SavedPage(spine, p) = p
           /\ SavedPage(spine, p) \in {0, p}
<1>1. spine < Spines => ~AtEnd(spine)
  BY Located DEF AtEnd
<1>2. QED
  BY <1>1 DEF SavedPage

(* What a write does to the history and to the file. *)
LEMMA Outcome ==
    ASSUME NEW b, NEW also, BytesOK(b), Written(b, also), also \subseteq {"torn", "overlap"}
    PROVE  /\ "turned" \notin marks'
           /\ "torn" \in marks' <=> "torn" \in marks \/ "torn" \in also
           /\ "overlap" \in marks' <=> "overlap" \in marks \/ "overlap" \in also
           /\ "lost" \notin marks' =>
                 \/ b.page >= 0 /\ progress' = b
                 \/ b.page < 0 /\ progress' = progress /\ "lost" \notin marks
           /\ progress' \in {progress, b, None}
BY DEF Written

(* The two writers of a page, in these terms. *)
LEMMA RenderOutcome ==
    ASSUME WritesPage
    PROVE  /\ "turned" \notin marks'
           /\ "torn" \in marks' <=> "torn" \in marks \/ "turned" \in marks
           /\ "overlap" \in marks' <=> "overlap" \in marks \/ mainPc = "endSave"
           /\ "lost" \notin marks' =>
                 \/ renderSave.page >= 0 /\ progress' = renderSave
                 \/ renderSave.page < 0 /\ progress' = progress /\ "lost" \notin marks
           /\ progress' \in {progress, renderSave, None}
<1> DEFINE also == (IF mainPc = "endSave" THEN {"overlap"} ELSE {})
                    \cup (IF "turned" \in marks THEN {"torn"} ELSE {})
<1>1. Written(renderSave, also) /\ BytesOK(renderSave)
  BY DEF WritesPage
<1>2. /\ also \subseteq {"torn", "overlap"} /\ ("torn" \in also <=> "turned" \in marks)
      /\ ("overlap" \in also <=> mainPc = "endSave")
  OBVIOUS
<1> HIDE DEF also
<1>3. QED
  BY <1>1, <1>2, Outcome

LEMMA EndOutcome ==
    ASSUME EndSaves
    PROVE  /\ "turned" \notin marks' /\ ("torn" \in marks' <=> "torn" \in marks)
           /\ "overlap" \in marks' <=> "overlap" \in marks
           /\ "lost" \notin marks' =>
                 \/ mainSave.page >= 0 /\ progress' = mainSave
                 \/ mainSave.page < 0 /\ progress' = progress /\ "lost" \notin marks
           /\ progress' \in {progress, mainSave, None}
BY Outcome DEF EndSaves

(* persistManualStatus() does not tear: the page is the one saved last, and drawn. *)
LEMMA PersistOutcome ==
    ASSUME Types, Inside, Persists, section # None
    PROVE  /\ spine \in Chapters /\ lastSaved'.spine = spine /\ lastSaved'.page = section.page
           /\ lastSaved'.count \in Nat
           /\ status' = NaturalStatus(spine, section.page) /\ manual' = KeepManual(spine, section.page)
           /\ "turned" \notin marks' /\ ("overlap" \in marks' <=> "overlap" \in marks)
           /\ "torn" \notin marks' =>
                 "torn" \notin marks /\ lastSaved.spine = spine /\ lastSaved.page = section.page
           /\ \E b : /\ b # None /\ b.spine = spine /\ b.page = section.page
                     /\ b.status = NaturalStatus(spine, section.page)
                     /\ "torn" \notin marks' => OffsetFits(b)
                     /\ progress' \in {progress, b, None}
                     /\ "lost" \notin marks' =>
                          \/ b.page >= 0 /\ progress' = b
                          \/ b.page < 0 /\ progress' = progress /\ "lost" \notin marks
<1> DEFINE also == IF Moved(spine, section.page) \/ "turned" \in marks \/ ~Redrawn THEN {"torn"} ELSE {}
<1>1. /\ spine < Spines /\ spine \in Chapters
      /\ Noted(spine, section.page)
      /\ \E b : Packed(b, spine, section.page) /\ (Redrawn => OffsetFits(b)) /\ Written(b, also)
  BY Located DEF Persists, Inside
<1>2. PICK b : Packed(b, spine, section.page) /\ (Redrawn => OffsetFits(b)) /\ Written(b, also)
  BY <1>1
<1>3. SavedPage(spine, section.page) = section.page
  BY <1>1, PageKept
<1>4. /\ also \subseteq {"torn", "overlap"} /\ "overlap" \notin also
      /\ "torn" \notin also => ~Moved(spine, section.page) /\ Redrawn
  BY DEF also
<1> HIDE DEF also
<1>5. /\ "turned" \notin marks' /\ ("torn" \in marks' <=> "torn" \in marks \/ "torn" \in also)
      /\ "overlap" \in marks' <=> "overlap" \in marks
      /\ "lost" \notin marks' =>
            \/ b.page >= 0 /\ progress' = b
            \/ b.page < 0 /\ progress' = progress /\ "lost" \notin marks
      /\ progress' \in {progress, b, None}
  BY <1>2, <1>4, Outcome DEF Packed
<1>6. QED
  BY <1>1, <1>2, <1>3, <1>4, <1>5 DEF Noted, Packed, Moved

LEMMA InsideStep == ASSUME Types, Inside, [Next]_vars
  PROVE  Inside'
<1>0. Spines \in Nat
  BY ReaderAssumption
<1>1. CASE Begins
  BY <1>0, <1>1 DEF Begins, Inside, InTurn
<1>2. CASE LaysOut
  BY <1>0, <1>2 DEF LaysOut, Inside, InTurn
<1>3. CASE Draws
  BY <1>0, <1>3 DEF Draws, Inside, InTurn
<1>4. CASE NotesPage
  BY <1>0, <1>4 DEF NotesPage, Inside, InTurn
<1>5. CASE WritesPage
  BY <1>0, <1>5 DEF WritesPage, Inside, InTurn
<1>6. CASE Works
  BY <1>0, <1>6 DEF Works, Inside, InTurn
<1>7. CASE EndTests
  BY <1>0, <1>7 DEF EndTests, Inside, InTurn
<1>8. CASE EndSaves
  BY <1>0, <1>8 DEF EndSaves, Inside, InTurn
<1>9. CASE EndShows
  BY <1>0, <1>9 DEF EndShows, Inside, InTurn
<1>10. CASE Returns
  BY <1>0, <1>10 DEF Returns, Inside, InTurn
<1>11. CASE Chooses
  BY <1>0, <1>11 DEF Chooses, Inside, InTurn
<1>12. CASE TurnTests
  BY <1>0, <1>12 DEF TurnTests, Inside, InTurn
<1>13. CASE TurnsPage
  BY <1>0, <1>13 DEF TurnsPage, Inside, InTurn
<1>14. CASE Jumps
  BY <1>0, <1>14 DEF Jumps, Inside, InTurn
<1>15. CASE OpensList
  BY <1>0, <1>15 DEF OpensList, Inside, InTurn
<1>16. CASE SetsStatus
  BY <1>0, <1>16 DEF SetsStatus, Inside, InTurn
<1>17. CASE Persists
  BY <1>0, <1>17 DEF Persists, Inside, InTurn
<1>18. CASE Closes
  BY <1>0, <1>18 DEF Closes, Inside, InTurn
<1>19. CASE Opens
  BY <1>0, <1>19 DEF Opens, Inside, InTurn
<1>20. CASE Stutters
  BY <1>0, <1>20 DEF Stutters, Inside, InTurn
<1>21. QED
  BY EveryStep, <1>1, <1>2, <1>3, <1>4, <1>5, <1>6, <1>7, <1>8, <1>9, <1>10, <1>11, <1>12,
    <1>13, <1>14, <1>15, <1>16, <1>17, <1>18, <1>19, <1>20 DEF Kinds

(* Past the last chapter only a status chosen in the menu is not a finished one. *)
LEMMA StatusAtEnd ==
    ASSUME NEW p, ~KeepManual(Spines, p)
    PROVE  NaturalStatus(Spines, p) \in Finished
<1>1. Spines # 0 /\ AtEnd(Spines)
  BY ReaderAssumption DEF AtEnd
<1> HIDE DEF KeepManual
<1>2. QED
  BY <1>1 DEF NaturalStatus, Held, Finished

LEMMA ManualKept ==
    ASSUME NEW s, NEW p, KeepManual(s, p)
    PROVE  manual /\ lastSaved.spine = s /\ lastSaved.page = p
BY DEF KeepManual, Moved

LEMMA EndedStep == ASSUME Types, Inside, Ended, [Next]_vars
  PROVE  Ended'
<1>1. CASE Begins
  BY Located, <1>1 DEF Begins, Ended
<1>2. CASE LaysOut
  BY Located, <1>2 DEF LaysOut, Ended
<1>3. CASE Draws
  BY Located, <1>3 DEF Draws, Ended
<1>4. CASE NotesPage
  <2>1. /\ UNCHANGED <<mainPc, mainSave, spine>> /\ (lastSaved'.spine = spine \/ UNCHANGED lastSaved)
        /\ manual' = manual \/ manual' = KeepManual(spine, section.page)
    BY <1>4 DEF NotesPage, Noted
  <2>2. ~manual => ~manual'
    BY <2>1, ManualKept
  <2>3. QED
    BY Located, <2>1, <2>2 DEF Ended
<1>5. CASE WritesPage
  <2>1. /\ UNCHANGED <<mainPc, mainSave, spine, manual>>
        /\ lastSaved'.spine = spine \/ UNCHANGED lastSaved
    BY <1>5 DEF WritesPage
  <2>2. QED
    BY Located, <2>1 DEF Ended
<1>6. CASE Works
  BY Located, <1>6 DEF Works, Ended
<1>7. CASE EndTests
  <2>1. CASE lastSaved.spine # Spines
    <3>1. /\ mainPc' = "endSave" /\ lastSaved'.spine = Spines /\ manual' = KeepManual(Spines, 0)
          /\ mainSave'.spine = Spines /\ mainSave'.page = SavedPage(Spines, 0)
          /\ mainSave'.status = NaturalStatus(Spines, 0)
      BY <1>7, <2>1 DEF EndTests, Noted, Packed
    <3>2. ~KeepManual(Spines, 0)
      BY <2>1, ManualKept
    <3>3. SavedPage(Spines, 0) = 0
      BY DEF SavedPage
    <3>4. QED
      BY <3>1, <3>2, <3>3, StatusAtEnd DEF Ended
  <2>2. CASE lastSaved.spine = Spines
    BY <1>7, <2>2 DEF EndTests, Ended
  <2>3. QED
    BY <2>1, <2>2
<1>8. CASE EndSaves
  BY <1>8 DEF EndSaves, Ended
<1>9. CASE EndShows
  BY Located, <1>9 DEF EndShows, Ended
<1>10. CASE Returns
  BY Located, <1>10 DEF Returns, Ended
<1>11. CASE Chooses
  BY Located, <1>11 DEF Chooses, Ended
<1>12. CASE TurnTests
  BY Located, <1>12 DEF TurnTests, Ended
<1>13. CASE TurnsPage
  BY Located, <1>13 DEF TurnsPage, Ended
<1>14. CASE Jumps
  BY Located, <1>14 DEF Jumps, Ended
<1>15. CASE OpensList
  BY Located, <1>15 DEF OpensList, Ended
<1>16. CASE SetsStatus
  BY Located, <1>16 DEF SetsStatus, Ended
<1>17. CASE Persists
  BY <1>17 DEF Persists, Ended
<1>18. CASE Closes
  BY Located, <1>18 DEF Closes, Ended
<1>19. CASE Opens
  BY Located, <1>19 DEF Opens, Ended
<1>20. CASE Stutters
  BY Located, <1>20 DEF Stutters, Ended
<1>21. QED
  BY EveryStep, <1>1, <1>2, <1>3, <1>4, <1>5, <1>6, <1>7, <1>8, <1>9, <1>10, <1>11, <1>12,
    <1>13, <1>14, <1>15, <1>16, <1>17, <1>18, <1>19, <1>20 DEF Kinds

LEMMA ShownPageStep == ASSUME Types, Inside, ShownPage, [Next]_vars
  PROVE  ShownPage'
<1>1. CASE Begins
  BY Located, <1>1 DEF Begins, ShownPage, PageScreen, Screen, InBounds
<1>2. CASE LaysOut
  BY Located, <1>2 DEF LaysOut, ShownPage, PageScreen, Screen, InBounds
<1>3. CASE Draws
  BY Located, <1>3 DEF Draws, ShownPage, PageScreen, Screen, InBounds
<1>4. CASE NotesPage
  BY Located, <1>4 DEF NotesPage, ShownPage, PageScreen, Screen, InBounds
<1>5. CASE WritesPage
  BY Located, <1>5 DEF WritesPage, ShownPage, PageScreen, Screen, InBounds
<1>6. CASE Works
  BY Located, <1>6 DEF Works, ShownPage, PageScreen, Screen, InBounds
<1>7. CASE EndTests
  BY Located, <1>7 DEF EndTests, ShownPage, PageScreen, Screen, InBounds
<1>8. CASE EndSaves
  BY Located, <1>8 DEF EndSaves, ShownPage, PageScreen, Screen, InBounds
<1>9. CASE EndShows
  BY Located, <1>9 DEF EndShows, ShownPage, PageScreen, Screen, InBounds
<1>10. CASE Returns
  BY Located, <1>10 DEF Returns, ShownPage, PageScreen, Screen, InBounds
<1>11. CASE Chooses
  BY Located, <1>11 DEF Chooses, ShownPage, PageScreen, Screen, InBounds
<1>12. CASE TurnTests
  BY Located, <1>12 DEF TurnTests, ShownPage, PageScreen, Screen, InBounds
<1>13. CASE TurnsPage
  BY Located, <1>13 DEF TurnsPage, ShownPage, PageScreen, Screen, InBounds
<1>14. CASE Jumps
  BY Located, <1>14 DEF Jumps, ShownPage, PageScreen, Screen, InBounds
<1>15. CASE OpensList
  BY Located, <1>15 DEF OpensList, ShownPage, PageScreen, Screen, InBounds
<1>16. CASE SetsStatus
  BY Located, <1>16 DEF SetsStatus, ShownPage, PageScreen, Screen, InBounds
<1>17. CASE Persists
  BY Located, <1>17 DEF Persists, ShownPage, PageScreen, Screen, InBounds
<1>18. CASE Closes
  BY Located, <1>18 DEF Closes, ShownPage, PageScreen, Screen, InBounds
<1>19. CASE Opens
  BY Located, <1>19 DEF Opens, ShownPage, PageScreen, Screen, InBounds
<1>20. CASE Stutters
  BY Located, <1>20 DEF Stutters, ShownPage, PageScreen, Screen, InBounds
<1>21. QED
  BY EveryStep, <1>1, <1>2, <1>3, <1>4, <1>5, <1>6, <1>7, <1>8, <1>9, <1>10, <1>11, <1>12,
    <1>13, <1>14, <1>15, <1>16, <1>17, <1>18, <1>19, <1>20 DEF Kinds

LEMMA DrawnStep == ASSUME Types, Inside, Drawn, [Next]_vars
  PROVE  Drawn'
<1>1. CASE Begins
  BY Located, <1>1 DEF Begins, Drawn, PageScreen, InBounds, OffsetOf
<1>2. CASE LaysOut
  BY Located, <1>2 DEF LaysOut, Drawn, PageScreen, InBounds, OffsetOf
<1>3. CASE Draws
  BY Located, <1>3 DEF Draws, Drawn, PageScreen, InBounds, OffsetOf
<1>4. CASE NotesPage
  BY Located, <1>4 DEF NotesPage, Drawn, PageScreen, InBounds, OffsetOf
<1>5. CASE WritesPage
  BY Located, <1>5 DEF WritesPage, Drawn, PageScreen, InBounds, OffsetOf
<1>6. CASE Works
  BY Located, <1>6 DEF Works, Drawn, PageScreen, InBounds, OffsetOf
<1>7. CASE EndTests
  BY Located, <1>7 DEF EndTests, Drawn, PageScreen, InBounds, OffsetOf
<1>8. CASE EndSaves
  BY Located, <1>8 DEF EndSaves, Drawn, PageScreen, InBounds, OffsetOf
<1>9. CASE EndShows
  BY Located, <1>9 DEF EndShows, Drawn, PageScreen, InBounds, OffsetOf
<1>10. CASE Returns
  BY Located, <1>10 DEF Returns, Drawn, PageScreen, InBounds, OffsetOf
<1>11. CASE Chooses
  BY Located, <1>11 DEF Chooses, Drawn, PageScreen, InBounds, OffsetOf
<1>12. CASE TurnTests
  BY Located, <1>12 DEF TurnTests, Drawn, PageScreen, InBounds, OffsetOf
<1>13. CASE TurnsPage
  BY Located, <1>13 DEF TurnsPage, Drawn, PageScreen, OffsetOf, SameLayout, SameChapter, Inside, InTurn
<1>14. CASE Jumps
  BY Located, <1>14 DEF Jumps, Drawn, PageScreen, InBounds, OffsetOf
<1>15. CASE OpensList
  BY Located, <1>15 DEF OpensList, Drawn, PageScreen, InBounds, OffsetOf
<1>16. CASE SetsStatus
  BY Located, <1>16 DEF SetsStatus, Drawn, PageScreen, InBounds, OffsetOf
<1>17. CASE Persists
  BY Located, <1>17 DEF Persists, Drawn, PageScreen, InBounds, OffsetOf
<1>18. CASE Closes
  BY Located, <1>18 DEF Closes, Drawn, PageScreen, InBounds, OffsetOf
<1>19. CASE Opens
  BY Located, <1>19 DEF Opens, Drawn, PageScreen, InBounds, OffsetOf
<1>20. CASE Stutters
  BY Located, <1>20 DEF Stutters, Drawn, PageScreen, InBounds, OffsetOf
<1>21. QED
  BY EveryStep, <1>1, <1>2, <1>3, <1>4, <1>5, <1>6, <1>7, <1>8, <1>9, <1>10, <1>11, <1>12,
    <1>13, <1>14, <1>15, <1>16, <1>17, <1>18, <1>19, <1>20 DEF Kinds

LEMMA WritingStep == ASSUME Types, Inside, ShownPage, Drawn, Writing, [Next]_vars
  PROVE  Writing'
<1>1. CASE Begins
  BY Located, <1>1 DEF Begins, Writing, Intact, PageScreen
<1>2. CASE LaysOut
  BY Located, <1>2 DEF LaysOut, Writing, Intact, PageScreen
<1>3. CASE Draws
  BY Located, <1>3 DEF Draws, Writing, Intact, PageScreen
<1>4. CASE NotesPage
  <2>1. \/ /\ renderPc' = "write" /\ lastSaved'.count \in Nat /\ renderSave' # None
           /\ lastSaved'.spine = spine /\ lastSaved'.page = SavedPage(spine, section.page)
           /\ renderSave'.spine = spine /\ renderSave'.page = SavedPage(spine, section.page)
           /\ pageOffset = OffsetOf(section, section.page) /\ spine < Spines => OffsetFits(renderSave')
           /\ "turned" \in marks => "torn" \in marks'
           /\ "turned" \notin marks' /\ ("torn" \notin marks' => "turned" \notin marks)
        \/ /\ renderPc' = "idle" /\ UNCHANGED <<marks, lastSaved>>
           /\ spine = lastSaved.spine /\ section.page = lastSaved.page /\ section.count = lastSaved.count
    BY <1>4 DEF NotesPage, Unsaved, Noted, Packed
  <2>2. renderPc = "save" /\ section # None /\ UNCHANGED <<spine, section, mainPc, shown, pageOffset, notified, progress>>
    BY <1>4 DEF NotesPage
  <2>3. /\ spine < Spines => SavedPage(spine, section.page) = section.page
        /\ SavedPage(spine, section.page) \in {0, section.page}
    BY PageKept
  <2> HIDE DEF SavedPage
  <2>4. CASE spine = Spines
    BY Located, <2>1, <2>2, <2>3, <2>4 DEF Writing, Intact, Drawn, PageScreen
  <2>5. CASE spine \in Chapters
    <3>1. spine < Spines /\ spine # Spines
      BY <2>5, Located DEF Chapters
    <3>2. QED
      BY Located, <2>1, <2>2, <2>3, <2>5, <3>1 DEF Writing, Intact, Drawn, PageScreen
  <2>6. QED
    BY <2>4, <2>5, Located
<1>5. CASE WritesPage
  BY Located, <1>5 DEF WritesPage, Writing, Intact, PageScreen
<1>6. CASE Works
  BY Located, <1>6 DEF Works, Writing, Intact, PageScreen
<1>7. CASE EndTests
  <2>1. /\ \/ lastSaved'.spine = Spines /\ mainPc' = "endSave"
           \/ UNCHANGED lastSaved /\ mainPc' = "endPush"
        /\ "torn" \in marks' <=> "torn" \in marks
        /\ "turned" \in marks' <=> "turned" \in marks
        /\ "lost" \in marks' <=> "lost" \in marks
        /\ UNCHANGED <<spine, section, renderPc, renderSave, shown, notified, progress>>
        /\ mainPc = "loop" /\ spine = Spines
    BY <1>7 DEF EndTests, Noted
  <2>2. QED
    BY Located, <2>1 DEF Writing, Intact, PageScreen
<1>8. CASE EndSaves
  <2>1. /\ mainPc = "endSave" /\ spine = Spines /\ mainPc' = "endPush"
        /\ UNCHANGED <<spine, section, renderPc, renderSave, shown, notified, lastSaved>>
    BY <1>8 DEF EndSaves
  <2>2. QED
    BY Located, <2>1, <1>8, EndOutcome DEF Writing, Intact, PageScreen
<1>9. CASE EndShows
  BY Located, <1>9 DEF EndShows, Writing, Intact, PageScreen
<1>10. CASE Returns
  BY Located, <1>10 DEF Returns, Writing, Intact, PageScreen
<1>11. CASE Chooses
  BY Located, <1>11 DEF Chooses, Writing, Intact, PageScreen
<1>12. CASE TurnTests
  BY Located, <1>12 DEF TurnTests, Writing, Intact, PageScreen
<1>13. CASE TurnsPage
  BY Located, <1>13 DEF TurnsPage, Writing, Intact, PageScreen
<1>14. CASE Jumps
  BY Located, <1>14 DEF Jumps, Writing, Intact, PageScreen
<1>15. CASE OpensList
  BY Located, <1>15 DEF OpensList, Writing, Intact, PageScreen
<1>16. CASE SetsStatus
  BY Located, <1>16 DEF SetsStatus, Writing, Intact, PageScreen
<1>17. CASE Persists
  BY Located, <1>17 DEF Persists, Writing, Intact, PageScreen
<1>18. CASE Closes
  BY Located, <1>18 DEF Closes, Writing, Intact, PageScreen
<1>19. CASE Opens
  BY Located, <1>19 DEF Opens, Writing, Intact, PageScreen
<1>20. CASE Stutters
  BY Located, <1>20 DEF Stutters, Writing, Intact, PageScreen
<1>21. QED
  BY EveryStep, <1>1, <1>2, <1>3, <1>4, <1>5, <1>6, <1>7, <1>8, <1>9, <1>10, <1>11, <1>12,
    <1>13, <1>14, <1>15, <1>16, <1>17, <1>18, <1>19, <1>20 DEF Kinds

LEMMA FollowedStep == ASSUME Types, Inside, Ended, ShownPage, Drawn, Writing, Followed,
  [Next]_vars
  PROVE  Followed'
<1>1. CASE Begins
  BY Located, <1>1 DEF Begins, Followed, Intact, Screen
<1>2. CASE LaysOut
  BY Located, <1>2 DEF LaysOut, Followed, Intact, Screen
<1>3. CASE Draws
  BY Located, <1>3 DEF Draws, Followed, Intact, Screen
<1>4. CASE NotesPage
  <2>1. \/ /\ renderPc' = "write" /\ lastSaved'.count \in Nat /\ renderSave' # None
           /\ lastSaved'.spine = spine /\ lastSaved'.page = SavedPage(spine, section.page)
           /\ renderSave'.spine = spine /\ renderSave'.page = SavedPage(spine, section.page)
           /\ pageOffset = OffsetOf(section, section.page) /\ spine < Spines => OffsetFits(renderSave')
           /\ "turned" \in marks => "torn" \in marks'
           /\ "turned" \notin marks' /\ ("torn" \notin marks' => "turned" \notin marks)
        \/ /\ renderPc' = "idle" /\ UNCHANGED <<marks, lastSaved>>
           /\ spine = lastSaved.spine /\ section.page = lastSaved.page /\ section.count = lastSaved.count
    BY <1>4 DEF NotesPage, Unsaved, Noted, Packed
  <2>2. renderPc = "save" /\ section # None /\ UNCHANGED <<spine, section, mainPc, shown, pageOffset, notified, progress>>
    BY <1>4 DEF NotesPage
  <2>3. /\ spine < Spines => SavedPage(spine, section.page) = section.page
        /\ SavedPage(spine, section.page) \in {0, section.page}
    BY PageKept
  <2> HIDE DEF SavedPage
  <2>4. CASE spine = Spines
    BY Located, <2>1, <2>2, <2>3, <2>4 DEF Followed, Intact, Drawn, PageScreen
  <2>5. CASE spine \in Chapters
    <3>1. spine < Spines /\ spine # Spines
      BY <2>5, Located DEF Chapters
    <3>2. QED
      BY Located, <2>1, <2>2, <2>3, <2>5, <3>1 DEF Followed, Intact, Drawn, PageScreen
  <2>6. QED
    BY <2>4, <2>5, Located
<1>5. CASE WritesPage
  <2>1. /\ renderPc = "write" /\ renderPc' = "idle" /\ renderSave # None /\ section # None
        /\ \/ /\ progress' = renderSave /\ lastSaved'.spine = spine /\ lastSaved'.page = section.page
              /\ lastSaved'.count # -1
           \/ progress' # renderSave /\ UNCHANGED lastSaved
        /\ UNCHANGED <<spine, section, mainPc, shown, notified>>
    BY <1>5 DEF WritesPage
  <2>2. CASE spine = Spines
    BY Located, <2>1, <2>2, <1>5, RenderOutcome DEF Followed, Intact, Writing, PageScreen, ShownPage
  <2>3. CASE spine \in Chapters
    <3>1. spine < Spines /\ spine # Spines
      BY <2>3, Located DEF Chapters
    <3>2. QED
      BY Located, <2>1, <2>3, <3>1, <1>5, RenderOutcome DEF Followed, Intact, Writing, PageScreen, ShownPage
  <2>4. QED
    BY <2>2, <2>3, Located
<1>6. CASE Works
  BY Located, <1>6 DEF Works, Followed, Intact, Screen
<1>7. CASE EndTests
  BY Located, <1>7 DEF EndTests, Followed, Intact, Screen
<1>8. CASE EndSaves
  BY Located, <1>8 DEF EndSaves, Followed, Intact, Screen
<1>9. CASE EndShows
  BY Located, <1>9 DEF EndShows, Followed, Intact, Screen
<1>10. CASE Returns
  BY Located, <1>10 DEF Returns, Followed, Intact, Screen
<1>11. CASE Chooses
  BY Located, <1>11 DEF Chooses, Followed, Intact, Screen
<1>12. CASE TurnTests
  BY Located, <1>12 DEF TurnTests, Followed, Intact, Screen
<1>13. CASE TurnsPage
  BY Located, <1>13 DEF TurnsPage, Followed, Intact, Screen
<1>14. CASE Jumps
  BY Located, <1>14 DEF Jumps, Followed, Intact, Screen
<1>15. CASE OpensList
  BY Located, <1>15 DEF OpensList, Followed, Intact, Screen
<1>16. CASE SetsStatus
  BY Located, <1>16 DEF SetsStatus, Followed, Intact, Screen
<1>17. CASE Persists
  BY Located, <1>17 DEF Persists, Followed, Intact, Screen
<1>18. CASE Closes
  BY Located, <1>18 DEF Closes, Followed, Intact, Screen
<1>19. CASE Opens
  BY Located, <1>19 DEF Opens, Followed, Intact, Screen
<1>20. CASE Stutters
  BY Located, <1>20 DEF Stutters, Followed, Intact, Screen
<1>21. QED
  BY EveryStep, <1>1, <1>2, <1>3, <1>4, <1>5, <1>6, <1>7, <1>8, <1>9, <1>10, <1>11, <1>12,
    <1>13, <1>14, <1>15, <1>16, <1>17, <1>18, <1>19, <1>20 DEF Kinds

LEMMA PageNotedStep == ASSUME Types, Inside, Ended, ShownPage, Drawn, Writing, PageNoted,
  [Next]_vars
  PROVE  PageNoted'
<1>1. CASE Begins
  BY Located, <1>1 DEF Begins, PageNoted
<1>2. CASE LaysOut
  BY Located, <1>2 DEF LaysOut, PageNoted
<1>3. CASE Draws
  BY Located, <1>3 DEF Draws, PageNoted
<1>4. CASE NotesPage
  <2>1. \/ /\ renderPc' = "write" /\ lastSaved'.count \in Nat /\ renderSave' # None
           /\ lastSaved'.spine = spine /\ lastSaved'.page = SavedPage(spine, section.page)
           /\ renderSave'.spine = spine /\ renderSave'.page = SavedPage(spine, section.page)
           /\ pageOffset = OffsetOf(section, section.page) /\ spine < Spines => OffsetFits(renderSave')
           /\ "turned" \in marks => "torn" \in marks'
           /\ "turned" \notin marks' /\ ("torn" \notin marks' => "turned" \notin marks)
        \/ /\ renderPc' = "idle" /\ UNCHANGED <<marks, lastSaved>>
           /\ spine = lastSaved.spine /\ section.page = lastSaved.page /\ section.count = lastSaved.count
    BY <1>4 DEF NotesPage, Unsaved, Noted, Packed
  <2>2. renderPc = "save" /\ section # None /\ UNCHANGED <<spine, section, mainPc, shown, pageOffset, notified, progress>>
    BY <1>4 DEF NotesPage
  <2>3. /\ spine < Spines => SavedPage(spine, section.page) = section.page
        /\ SavedPage(spine, section.page) \in {0, section.page}
    BY PageKept
  <2> HIDE DEF SavedPage
  <2>4. CASE spine = Spines
    BY Located, <2>1, <2>2, <2>3, <2>4 DEF PageNoted, Drawn
  <2>5. CASE spine \in Chapters
    <3>1. spine < Spines /\ spine # Spines
      BY <2>5, Located DEF Chapters
    <3>2. QED
      BY Located, <2>1, <2>2, <2>3, <2>5, <3>1 DEF PageNoted, Drawn
  <2>6. QED
    BY <2>4, <2>5, Located
<1>5. CASE WritesPage
  <2>1. /\ renderPc = "write" /\ renderPc' = "idle" /\ renderSave # None /\ section # None
        /\ \/ /\ progress' = renderSave /\ lastSaved'.spine = spine /\ lastSaved'.page = section.page
              /\ lastSaved'.count # -1
           \/ progress' # renderSave /\ UNCHANGED lastSaved
        /\ UNCHANGED <<spine, section, mainPc, shown, notified>>
    BY <1>5 DEF WritesPage
  <2>2. CASE spine = Spines
    BY Located, <2>1, <2>2, <1>5, RenderOutcome DEF PageNoted, Writing, Intact, PageScreen, ShownPage
  <2>3. CASE spine \in Chapters
    <3>1. spine < Spines /\ spine # Spines
      BY <2>3, Located DEF Chapters
    <3>2. QED
      BY Located, <2>1, <2>3, <3>1, <1>5, RenderOutcome DEF PageNoted, Writing, Intact, PageScreen, ShownPage
  <2>4. QED
    BY <2>2, <2>3, Located
<1>6. CASE Works
  BY Located, <1>6 DEF Works, PageNoted
<1>7. CASE EndTests
  <2>1. /\ \/ lastSaved'.spine = Spines /\ mainPc' = "endSave"
           \/ UNCHANGED lastSaved /\ mainPc' = "endPush"
        /\ "torn" \in marks' <=> "torn" \in marks
        /\ "turned" \in marks' <=> "turned" \in marks
        /\ "lost" \in marks' <=> "lost" \in marks
        /\ UNCHANGED <<spine, section, renderPc, renderSave, shown, notified, progress>>
        /\ mainPc = "loop" /\ spine = Spines
    BY <1>7 DEF EndTests, Noted
  <2>2. QED
    BY Located, <2>1 DEF PageNoted
<1>8. CASE EndSaves
  <2>1. /\ mainPc = "endSave" /\ spine = Spines /\ mainPc' = "endPush"
        /\ UNCHANGED <<spine, section, renderPc, renderSave, shown, notified, lastSaved>>
    BY <1>8 DEF EndSaves
  <2>2. QED
    BY Located, <2>1, <1>8, EndOutcome DEF PageNoted
<1>9. CASE EndShows
  BY Located, <1>9 DEF EndShows, PageNoted
<1>10. CASE Returns
  BY Located, <1>10 DEF Returns, PageNoted
<1>11. CASE Chooses
  BY Located, <1>11 DEF Chooses, PageNoted
<1>12. CASE TurnTests
  BY Located, <1>12 DEF TurnTests, PageNoted
<1>13. CASE TurnsPage
  BY Located, <1>13 DEF TurnsPage, PageNoted
<1>14. CASE Jumps
  BY Located, <1>14 DEF Jumps, PageNoted
<1>15. CASE OpensList
  BY Located, <1>15 DEF OpensList, PageNoted
<1>16. CASE SetsStatus
  BY Located, <1>16 DEF SetsStatus, PageNoted
<1>17. CASE Persists
  <2>1. /\ renderPc = "idle" /\ renderPc' = "idle" /\ mainPc = "persist" /\ mainPc' \in {"loop", "panic"}
        /\ UNCHANGED <<spine, section, shown>>
    BY <1>17 DEF Persists
  <2>2. CASE section = None
    <3>1. UNCHANGED <<notified, marks, progress, lastSaved>>
      BY <1>17, <2>2 DEF Persists
    <3>2. QED
      BY <2>1, <3>1 DEF PageNoted
  <2>3. CASE section # None
    <3>1. notified' /\ mainPc' = "loop"
      BY <1>17, <2>3 DEF Persists
    <3>2. QED
      BY Located, <2>1, <2>3, <3>1, <1>17, PersistOutcome DEF PageNoted
  <2>4. QED
    BY <2>2, <2>3
<1>18. CASE Closes
  BY Located, <1>18 DEF Closes, PageNoted
<1>19. CASE Opens
  <2>1. /\ renderPc' = "idle" /\ mainPc' = "loop" /\ notified' /\ UNCHANGED progress /\ lastSaved'.count = -1
        /\ \/ progress = None /\ lastSaved'.spine = -1
           \/ progress # None /\ lastSaved'.spine = progress.spine /\ lastSaved'.page = progress.page
    BY <1>19 DEF Opens
  <2>2. -1 \notin Chapters
    BY DEF Chapters
  <2>3. QED
    BY Located, <2>1, <2>2 DEF PageNoted
<1>20. CASE Stutters
  BY Located, <1>20 DEF Stutters, PageNoted
<1>21. QED
  BY EveryStep, <1>1, <1>2, <1>3, <1>4, <1>5, <1>6, <1>7, <1>8, <1>9, <1>10, <1>11, <1>12,
    <1>13, <1>14, <1>15, <1>16, <1>17, <1>18, <1>19, <1>20 DEF Kinds

LEMMA StoredStep == ASSUME Types, Inside, Ended, Writing, PageNoted, Stored, [Next]_vars
  PROVE  Stored'
<1>1. CASE Begins
  BY Located, <1>1 DEF Begins, Stored, Ended
<1>2. CASE LaysOut
  BY Located, <1>2 DEF LaysOut, Stored, Ended
<1>3. CASE Draws
  BY Located, <1>3 DEF Draws, Stored, Ended
<1>4. CASE NotesPage
  BY Located, <1>4 DEF NotesPage, Stored, Ended
<1>5. CASE WritesPage
  <2>1. /\ renderPc = "write" /\ renderPc' = "idle" /\ renderSave # None /\ section # None
        /\ \/ /\ progress' = renderSave /\ lastSaved'.spine = spine /\ lastSaved'.page = section.page
              /\ lastSaved'.count # -1
           \/ progress' # renderSave /\ UNCHANGED lastSaved
        /\ UNCHANGED <<spine, section, mainPc, shown, notified>>
    BY <1>5 DEF WritesPage
  <2>2. CASE spine = Spines
    BY Located, <2>1, <2>2, <1>5, RenderOutcome DEF Stored, Writing, Intact, PageNoted
  <2>3. CASE spine \in Chapters
    <3>1. spine < Spines /\ spine # Spines
      BY <2>3, Located DEF Chapters
    <3>2. QED
      BY Located, <2>1, <2>3, <3>1, <1>5, RenderOutcome DEF Stored, Writing, Intact, PageNoted
  <2>4. QED
    BY <2>2, <2>3, Located
<1>6. CASE Works
  BY Located, <1>6 DEF Works, Stored, Ended
<1>7. CASE EndTests
  <2>1. /\ \/ lastSaved'.spine = Spines /\ mainPc' = "endSave"
           \/ UNCHANGED lastSaved /\ mainPc' = "endPush"
        /\ "torn" \in marks' <=> "torn" \in marks
        /\ "turned" \in marks' <=> "turned" \in marks
        /\ "lost" \in marks' <=> "lost" \in marks
        /\ UNCHANGED <<spine, section, renderPc, renderSave, shown, notified, progress>>
        /\ mainPc = "loop" /\ spine = Spines
    BY <1>7 DEF EndTests, Noted
  <2>2. QED
    BY Located, <2>1 DEF Stored
<1>8. CASE EndSaves
  <2>1. /\ mainPc = "endSave" /\ spine = Spines /\ mainPc' = "endPush"
        /\ UNCHANGED <<spine, section, renderPc, renderSave, shown, notified, lastSaved>>
    BY <1>8 DEF EndSaves
  <2>2. QED
    BY Located, <2>1, <1>8, EndOutcome DEF Stored, Ended
<1>9. CASE EndShows
  BY Located, <1>9 DEF EndShows, Stored, Ended
<1>10. CASE Returns
  BY Located, <1>10 DEF Returns, Stored, Ended
<1>11. CASE Chooses
  BY Located, <1>11 DEF Chooses, Stored, Ended
<1>12. CASE TurnTests
  BY Located, <1>12 DEF TurnTests, Stored, Ended
<1>13. CASE TurnsPage
  BY Located, <1>13 DEF TurnsPage, Stored, Ended
<1>14. CASE Jumps
  BY Located, <1>14 DEF Jumps, Stored, Ended
<1>15. CASE OpensList
  BY Located, <1>15 DEF OpensList, Stored, Ended
<1>16. CASE SetsStatus
  BY Located, <1>16 DEF SetsStatus, Stored, Ended
<1>17. CASE Persists
  <2>1. /\ renderPc = "idle" /\ renderPc' = "idle" /\ mainPc = "persist" /\ mainPc' \in {"loop", "panic"}
        /\ UNCHANGED <<spine, section, shown>>
    BY <1>17 DEF Persists
  <2>2. CASE section = None
    <3>1. UNCHANGED <<notified, marks, progress, lastSaved>>
      BY <1>17, <2>2 DEF Persists
    <3>2. QED
      BY <2>1, <3>1 DEF Stored, PageNoted
  <2>3. CASE section # None
    <3>1. notified' /\ mainPc' = "loop"
      BY <1>17, <2>3 DEF Persists
    <3>2. QED
      BY Located, <2>1, <2>3, <3>1, <1>17, PersistOutcome DEF Stored, PageNoted
  <2>4. QED
    BY <2>2, <2>3
<1>18. CASE Closes
  BY Located, <1>18 DEF Closes, Stored, Ended
<1>19. CASE Opens
  <2>1. /\ renderPc' = "idle" /\ mainPc' = "loop" /\ notified' /\ UNCHANGED progress /\ lastSaved'.count = -1
        /\ \/ progress = None /\ lastSaved'.spine = -1
           \/ progress # None /\ lastSaved'.spine = progress.spine /\ lastSaved'.page = progress.page
    BY <1>19 DEF Opens
  <2>2. -1 \notin Chapters
    BY DEF Chapters
  <2>3. QED
    BY Located, <2>1, <2>2 DEF Stored
<1>20. CASE Stutters
  BY Located, <1>20 DEF Stutters, Stored, Ended
<1>21. QED
  BY EveryStep, <1>1, <1>2, <1>3, <1>4, <1>5, <1>6, <1>7, <1>8, <1>9, <1>10, <1>11, <1>12,
    <1>13, <1>14, <1>15, <1>16, <1>17, <1>18, <1>19, <1>20 DEF Kinds

FollowOK == Inside /\ Ended /\ ShownPage /\ Drawn /\ Writing /\ Followed /\ PageNoted /\ Stored

LEMMA FollowInit == Init => FollowOK
BY DEF Init, FollowOK, Inside, InTurn, Ended, ShownPage, Drawn, Writing, Followed, PageNoted, Stored,
  Screen, Chapters

LEMMA FollowStep == Types /\ FollowOK /\ [Next]_vars => FollowOK'
BY InsideStep, EndedStep, ShownPageStep, DrawnStep, WritingStep, FollowedStep, PageNotedStep, StoredStep
  DEF FollowOK

LEMMA FollowHolds == Spec => [](Types /\ FollowOK)
<1>1. Init => Types /\ FollowOK
  BY TypesInit, FollowInit
<1>2. Types /\ FollowOK /\ [Next]_vars => Types' /\ FollowOK'
  BY TypesStep, FollowStep
<1>3. QED
  BY <1>1, <1>2, PTL DEF Spec

(* ProgressFollows: when both tasks rest, progress.bin holds the chapter and the page on
   the screen, whichever task saved last and whatever of the chapter is laid out, unless
   the page was turned under a save or the SD card failed in it. *)
THEOREM PageSaved == Spec => []ProgressFollows
<1>1. Types /\ FollowOK => ProgressFollows
  <2> SUFFICES ASSUME Types, FollowOK, Quiet, OnScreen, marks = {}
               PROVE  progress # None /\ progress.spine = shown.spine /\ progress.page = shown.page
    BY DEF ProgressFollows
  <2>1. lastSaved.spine = shown.spine /\ lastSaved.page = shown.page
    BY DEF FollowOK, Followed, Intact, Quiet, OnScreen, LockFree
  <2>2. shown.spine \in Chapters
    BY DEF FollowOK, ShownPage, OnScreen
  <2>3. QED
    BY <2>1, <2>2 DEF FollowOK, Stored, Quiet, LockFree
<1>2. QED
  BY <1>1, FollowHolds, PTL

(* OffsetOfPage: the offset saved beside a page is where that page begins in the layout
   it was saved in, though it is taken from the page drawn last and not from the layout,
   unless the save was torn or lost. *)
THEOREM OffsetSaved == Spec => []OffsetOfPage
<1>1. Types /\ FollowOK => OffsetOfPage
  <2> SUFFICES ASSUME Types, FollowOK, Quiet, OnScreen, marks = {}, progress # None, progress.of # None
               PROVE  progress.offset = progress.page * LenOf[progress.of]
    BY DEF OffsetOfPage
  <2>1. lastSaved.spine = shown.spine /\ lastSaved.count # -1
    BY DEF FollowOK, Followed, Intact, Quiet, OnScreen, LockFree
  <2>2. shown.spine \in Chapters
    BY DEF FollowOK, ShownPage, OnScreen
  <2>3. progress.spine \in Chapters
    BY <2>1, <2>2 DEF FollowOK, Stored, Quiet, LockFree
  <2>4. QED
    BY <2>1, <2>3 DEF FollowOK, Stored, Quiet, LockFree, OffsetFits
<1>2. QED
  BY <1>1, FollowHolds, PTL

----------------------------------------------------------------------------
(* The end of the book is saved. A status chosen after the end was saved is not itself
   saved at the end: the reader has then turned back, and a render or the status itself
   saves a page of the book first. *)
Rendering == {"build", "place", "fit", "show", "save"}
TurnedBack ==
    "torn" \notin marks /\ manual /\ lastSaved.spine = Spines /\ mainPc \notin {"closed", "persist"} =>
        /\ mainPc \notin InTurn \cup {"extend", "tick"}
        /\ \/ section = None
           \/ /\ spine < Spines /\ renderPc \in Rendering
              /\ renderPc = "fit" => section.page >= 0
              /\ renderPc \in {"show", "save"} => InBounds(section)
EndWriting ==
    /\ renderPc = "write" /\ spine = Spines /\ Intact => ~manual
    /\ renderPc = "write" /\ mainPc = "endSave" /\ renderSave.spine # Spines => "overlap" \in marks
    /\ renderPc = "write" /\ Intact /\ "overlap" \notin marks /\ (spine = Spines \/ lastSaved.spine = Spines) =>
          renderSave.spine = Spines
    /\ renderPc = "write" /\ "torn" \notin marks /\ renderSave.spine = Spines => renderSave.status \in Finished
EndStored ==
    /\ /\ "lost" \notin marks /\ "torn" \notin marks /\ "overlap" \notin marks /\ lastSaved.spine = Spines
       /\ renderPc # "write" /\ mainPc \notin {"endSave", "closed"}
       => progress # None /\ progress.spine = Spines
    /\ /\ "lost" \notin marks /\ "torn" \notin marks /\ renderPc # "write"
       /\ progress # None /\ progress.spine = Spines
       => progress.status \in Finished

LEMMA TurnedBackStep == ASSUME Types, Inside, TurnedBack, EndWriting, [Next]_vars
  PROVE  TurnedBack'
<1>1. CASE Begins
  BY Located, <1>1 DEF Begins, TurnedBack, Rendering, InTurn
<1>2. CASE LaysOut
  <2>1. /\ UNCHANGED <<marks, manual, lastSaved, mainPc, spine>>
        /\ renderPc \in {"open", "build", "place", "fit"}
        /\ \/ section' = None
           \/ /\ renderPc' \in {"build", "place", "fit", "show"}
              /\ renderPc' = "fit" /\ (renderPc = "fit" => section.page >= 0) => section'.page >= 0
              /\ renderPc' = "show" => renderPc = "fit" /\ (section.page >= 0 => InBounds(section'))
    BY <1>2 DEF LaysOut, Failed
  <2>2. /\ renderPc = "open" => spine < Spines
        /\ renderPc # "open" => section # None
    BY <2>1, Located
  <2>3. QED
    BY <2>1, <2>2 DEF TurnedBack, Rendering
<1>3. CASE Draws
  <2>1. /\ UNCHANGED <<manual, lastSaved, mainPc, spine>> /\ ("torn" \in marks' <=> "torn" \in marks)
        /\ renderPc = "show" /\ section # None
        /\ \/ section' = None
           \/ renderPc' = "save" /\ UNCHANGED section
           \/ ~InBounds(section)
    BY <1>3 DEF Draws, Failed
  <2>2. QED
    BY <2>1 DEF TurnedBack, Rendering
<1>4. CASE NotesPage
  <2>1. /\ UNCHANGED <<section, spine, mainPc>> /\ section # None /\ renderPc = "save"
        /\ \/ /\ lastSaved'.spine = spine /\ manual' = KeepManual(spine, section.page)
              /\ "torn" \notin marks' => "turned" \notin marks /\ ("torn" \notin marks \/ spine # Spines)
           \/ UNCHANGED <<marks, lastSaved, manual>> /\ lastSaved.spine = spine
    BY <1>4 DEF NotesPage, Noted, Unsaved
  <2>2. manual' /\ manual' = KeepManual(spine, section.page) => manual /\ lastSaved.spine = spine
    BY ManualKept
  <2>3. mainPc # "closed" /\ (spine = Spines => mainPc # "persist")
    BY <2>1, Located DEF Inside
  <2>4. spine = Spines => ~(spine < Spines)
    BY Located
  <2>5. ~("torn" \notin marks' /\ manual' /\ lastSaved'.spine = Spines)
    BY <2>1, <2>2, <2>3, <2>4 DEF TurnedBack
  <2>6. QED
    BY <2>5 DEF TurnedBack
<1>5. CASE WritesPage
  <2>1. /\ renderPc = "write" /\ UNCHANGED <<section, spine, mainPc, manual>> /\ section # None
        /\ lastSaved'.spine = spine \/ UNCHANGED lastSaved
    BY <1>5 DEF WritesPage
  <2>2. "torn" \notin marks' => Intact
    BY <1>5, RenderOutcome DEF Intact
  <2>3. ~(manual /\ lastSaved.spine = Spines /\ "torn" \notin marks' /\ mainPc \notin {"closed", "persist"})
    BY <2>1, <2>2 DEF TurnedBack, Rendering, Intact
  <2>4. ~(manual /\ spine = Spines /\ "torn" \notin marks')
    BY <2>1, <2>2 DEF EndWriting
  <2>5. QED
    BY <2>1, <2>3, <2>4 DEF TurnedBack
<1>6. CASE Works
  <2>1. /\ renderPc = "idle" /\ mainPc \in {"loop", "extend", "tick"}
        /\ UNCHANGED <<marks, manual, lastSaved>> /\ mainPc' \in {"loop", "extend", "tick", "panic"}
        /\ section = None => section' = None /\ mainPc' \notin {"extend", "tick"}
    BY <1>6 DEF Works, Failed
  <2>2. QED
    BY <2>1 DEF TurnedBack, Rendering, InTurn
<1>7. CASE EndTests
  <2>1. /\ UNCHANGED section /\ spine = Spines /\ mainPc = "loop" /\ mainPc' \in {"endSave", "endPush"}
        /\ "torn" \in marks' <=> "torn" \in marks
        /\ \/ lastSaved.spine # Spines /\ manual' = KeepManual(Spines, 0)
           \/ UNCHANGED <<lastSaved, manual>>
    BY <1>7 DEF EndTests, Noted
  <2>2. lastSaved.spine # Spines => ~KeepManual(Spines, 0)
    BY ManualKept
  <2>3. ~(spine < Spines)
    BY <2>1, Located
  <2>4. "torn" \notin marks' /\ manual' /\ lastSaved'.spine = Spines => section = None
    BY <2>1, <2>2, <2>3 DEF TurnedBack
  <2>5. QED
    BY <2>1, <2>4 DEF TurnedBack, InTurn
<1>8. CASE EndSaves
  <2>1. /\ UNCHANGED <<section, manual, lastSaved, spine, renderPc>> /\ mainPc = "endSave" /\ mainPc' = "endPush"
    BY <1>8 DEF EndSaves
  <2>2. QED
    BY <2>1, <1>8, EndOutcome DEF TurnedBack, InTurn
<1>9. CASE EndShows
  BY Located, <1>9 DEF EndShows, TurnedBack, Rendering, InTurn
<1>10. CASE Returns
  BY Located, <1>10 DEF Returns, TurnedBack, Rendering, InTurn
<1>11. CASE Chooses
  BY Located, <1>11 DEF Chooses, TurnedBack, Rendering, InTurn
<1>12. CASE TurnTests
  BY Located, <1>12 DEF TurnTests, TurnedBack, Rendering, InTurn
<1>13. CASE TurnsPage
  <2>1. /\ mainPc \in {"turnPage", "skipPage"} /\ mainPc' \in {"loop", "panic"}
        /\ UNCHANGED <<spine, renderPc, manual, lastSaved>>
        /\ "torn" \in marks' <=> "torn" \in marks
        /\ \/ section = None /\ section' = None
           \/ section # None /\ section' # None /\ section'.count = section.count
              /\ (mainPc = "skipPage" => section'.page = 0)
    BY <1>13, NoneAssumption DEF TurnsPage, SameLayout, SameChapter
  <2>2. section # None /\ section' # None /\ section'.page = 0 /\ section'.count = section.count /\ InBounds(section)
          => InBounds(section') /\ section'.page >= 0
    BY Located DEF InBounds
  <2>3. QED
    BY <2>1, <2>2 DEF TurnedBack, InTurn, Rendering
<1>14. CASE Jumps
  BY Located, <1>14 DEF Jumps, TurnedBack, Rendering, InTurn
<1>15. CASE OpensList
  BY Located, <1>15 DEF OpensList, TurnedBack, Rendering, InTurn
<1>16. CASE SetsStatus
  BY Located, <1>16 DEF SetsStatus, TurnedBack, Rendering, InTurn
<1>17. CASE Persists
  <2>1. renderPc = "idle" /\ mainPc = "persist" /\ UNCHANGED section /\ mainPc' \in {"loop", "panic"}
    BY <1>17 DEF Persists
  <2>2. section # None => lastSaved'.spine # Spines
    BY <1>17, Located, PersistOutcome
  <2>3. QED
    BY <2>1, <2>2 DEF TurnedBack, InTurn
<1>18. CASE Closes
  BY Located, <1>18 DEF Closes, TurnedBack, Rendering, InTurn
<1>19. CASE Opens
  BY Located, <1>19 DEF Opens, TurnedBack, Rendering, InTurn
<1>20. CASE Stutters
  BY Located, <1>20 DEF Stutters, TurnedBack, Rendering, InTurn
<1>21. QED
  BY EveryStep, <1>1, <1>2, <1>3, <1>4, <1>5, <1>6, <1>7, <1>8, <1>9, <1>10, <1>11, <1>12,
    <1>13, <1>14, <1>15, <1>16, <1>17, <1>18, <1>19, <1>20 DEF Kinds

LEMMA EndWritingStep == ASSUME Types, Inside, Ended, TurnedBack, EndWriting, [Next]_vars
  PROVE  EndWriting'
<1>1. CASE Begins
  BY Located, <1>1 DEF Begins, EndWriting, Intact
<1>2. CASE LaysOut
  BY Located, <1>2 DEF LaysOut, EndWriting, Intact
<1>3. CASE Draws
  BY Located, <1>3 DEF Draws, EndWriting, Intact
<1>4. CASE NotesPage
  <2>1. /\ UNCHANGED <<section, spine, mainPc>> /\ section # None /\ renderPc = "save"
        /\ \/ /\ renderPc' = "write" /\ lastSaved'.spine = spine /\ manual' = KeepManual(spine, section.page)
              /\ renderSave'.spine = spine /\ renderSave'.status = NaturalStatus(spine, section.page)
              /\ "torn" \notin marks' => "turned" \notin marks /\ ("torn" \notin marks \/ spine # Spines)
              /\ "overlap" \in marks' <=> "overlap" \in marks
           \/ renderPc' = "idle"
    BY <1>4 DEF NotesPage, Noted, Packed
  <2>2. mainPc # "closed" /\ (spine = Spines => mainPc # "persist")
    BY <2>1, Located DEF Inside
  <2>3. spine = Spines /\ "torn" \notin marks' /\ renderPc' = "write" => ~KeepManual(spine, section.page)
    <3>1. spine = Spines => ~(spine < Spines)
      BY Located
    <3>2. KeepManual(spine, section.page) => manual /\ lastSaved.spine = spine
      BY ManualKept
    <3>3. QED
      BY <2>1, <2>2, <3>1, <3>2 DEF TurnedBack
  <2>4. spine = Spines /\ "torn" \notin marks' /\ renderPc' = "write" => renderSave'.status \in Finished /\ ~manual'
    BY <2>1, <2>3, StatusAtEnd
  <2>5. mainPc = "endSave" => spine = Spines
    BY Located
  <2>6. QED
    BY <2>1, <2>4, <2>5 DEF EndWriting, Intact
<1>5. CASE WritesPage
  BY Located, <1>5 DEF WritesPage, EndWriting, Intact
<1>6. CASE Works
  BY Located, <1>6 DEF Works, EndWriting, Intact
<1>7. CASE EndTests
  <2>1. /\ UNCHANGED <<spine, renderSave, renderPc>> /\ spine = Spines /\ mainPc = "loop"
        /\ "torn" \in marks' <=> "torn" \in marks
        /\ "turned" \in marks' <=> "turned" \in marks
        /\ "overlap" \in marks => "overlap" \in marks'
        /\ renderPc = "write" => "overlap" \in marks'
        /\ \/ lastSaved.spine # Spines /\ manual' = KeepManual(Spines, 0)
           \/ UNCHANGED <<lastSaved, manual>>
    BY <1>7 DEF EndTests, Noted
  <2>2. lastSaved.spine # Spines => ~KeepManual(Spines, 0)
    BY ManualKept
  <2>3. QED
    BY <2>1, <2>2 DEF EndWriting, Intact
<1>8. CASE EndSaves
  <2>1. /\ UNCHANGED <<manual, lastSaved, spine, renderPc, renderSave>> /\ mainPc = "endSave" /\ mainPc' = "endPush"
    BY <1>8 DEF EndSaves
  <2>2. ~manual
    BY <2>1 DEF Ended
  <2>3. QED
    BY <2>1, <2>2, <1>8, EndOutcome DEF EndWriting, Intact
<1>9. CASE EndShows
  BY Located, <1>9 DEF EndShows, EndWriting, Intact
<1>10. CASE Returns
  BY Located, <1>10 DEF Returns, EndWriting, Intact
<1>11. CASE Chooses
  BY Located, <1>11 DEF Chooses, EndWriting, Intact
<1>12. CASE TurnTests
  BY Located, <1>12 DEF TurnTests, EndWriting, Intact
<1>13. CASE TurnsPage
  BY Located, <1>13 DEF TurnsPage, EndWriting, Intact
<1>14. CASE Jumps
  BY Located, <1>14 DEF Jumps, EndWriting, Intact
<1>15. CASE OpensList
  BY Located, <1>15 DEF OpensList, EndWriting, Intact
<1>16. CASE SetsStatus
  BY Located, <1>16 DEF SetsStatus, EndWriting, Intact
<1>17. CASE Persists
  BY Located, <1>17 DEF Persists, EndWriting, Intact
<1>18. CASE Closes
  BY Located, <1>18 DEF Closes, EndWriting, Intact
<1>19. CASE Opens
  BY Located, <1>19 DEF Opens, EndWriting, Intact
<1>20. CASE Stutters
  BY Located, <1>20 DEF Stutters, EndWriting, Intact
<1>21. QED
  BY EveryStep, <1>1, <1>2, <1>3, <1>4, <1>5, <1>6, <1>7, <1>8, <1>9, <1>10, <1>11, <1>12,
    <1>13, <1>14, <1>15, <1>16, <1>17, <1>18, <1>19, <1>20 DEF Kinds

LEMMA EndStoredStep == ASSUME Types, Inside, Ended, Writing, PageNoted, EndWriting, EndStored,
  [Next]_vars
  PROVE  EndStored'
<1>1. CASE Begins
  BY Located, <1>1 DEF Begins, EndStored
<1>2. CASE LaysOut
  BY Located, <1>2 DEF LaysOut, EndStored
<1>3. CASE Draws
  BY Located, <1>3 DEF Draws, EndStored
<1>4. CASE NotesPage
  BY Located, <1>4 DEF NotesPage, EndStored
<1>5. CASE WritesPage
  <2>1. /\ renderPc = "write" /\ renderPc' = "idle" /\ renderSave # None /\ UNCHANGED <<mainPc, spine>>
        /\ lastSaved'.spine = spine \/ UNCHANGED lastSaved
    BY <1>5 DEF WritesPage
  <2>2. "lost" \notin marks' /\ "torn" \notin marks' => Intact /\ progress' = renderSave
    <3>1. "torn" \notin marks' => Intact
      BY <1>5, RenderOutcome DEF Intact
    <3>2. Intact => renderSave.page >= 0
      BY <2>1, Located DEF Writing, Intact
    <3>3. renderSave.page \in Int
      BY <2>1, Located
    <3>4. QED
      BY <3>1, <3>2, <3>3, <1>5, RenderOutcome
  <2>3. "overlap" \notin marks' => "overlap" \notin marks
    BY <1>5, RenderOutcome
  <2>4. QED
    BY <2>1, <2>2, <2>3 DEF EndStored, EndWriting, Intact
<1>6. CASE Works
  BY Located, <1>6 DEF Works, EndStored
<1>7. CASE EndTests
  BY Located, <1>7 DEF EndTests, EndStored
<1>8. CASE EndSaves
  <2>1. /\ mainPc = "endSave" /\ mainSave # None /\ mainSave.page = 0
        /\ mainSave.spine = Spines /\ mainSave.status \in Finished
    BY <1>8 DEF EndSaves, Ended
  <2>2. "lost" \notin marks' => progress' = mainSave
    BY <2>1, <1>8, EndOutcome
  <2>3. QED
    BY <2>1, <2>2 DEF EndStored
<1>9. CASE EndShows
  BY Located, <1>9 DEF EndShows, EndStored
<1>10. CASE Returns
  BY Located, <1>10 DEF Returns, EndStored
<1>11. CASE Chooses
  BY Located, <1>11 DEF Chooses, EndStored
<1>12. CASE TurnTests
  BY Located, <1>12 DEF TurnTests, EndStored
<1>13. CASE TurnsPage
  BY Located, <1>13 DEF TurnsPage, EndStored
<1>14. CASE Jumps
  BY Located, <1>14 DEF Jumps, EndStored
<1>15. CASE OpensList
  BY Located, <1>15 DEF OpensList, EndStored
<1>16. CASE SetsStatus
  BY Located, <1>16 DEF SetsStatus, EndStored
<1>17. CASE Persists
  <2>1. UNCHANGED renderPc /\ mainPc = "persist"
    BY <1>17 DEF Persists
  <2>2. CASE section = None
    <3>1. UNCHANGED <<marks, progress, lastSaved>>
      BY <1>17, <2>2 DEF Persists
    <3>2. QED
      BY <2>1, <3>1 DEF EndStored
  <2>3. CASE section # None
    <3>1. PICK b : /\ b # None /\ b.spine = spine /\ b.page = section.page
                   /\ "lost" \notin marks' =>
                         \/ b.page >= 0 /\ progress' = b
                         \/ b.page < 0 /\ progress' = progress /\ "lost" \notin marks
      BY <1>17, <2>3, PersistOutcome
    <3>2. lastSaved'.spine # Spines /\ spine # Spines
      BY <1>17, <2>3, PersistOutcome, Located
    <3>3. "torn" \notin marks' => "torn" \notin marks
      BY <1>17, <2>3, PersistOutcome
    <3>4. QED
      BY <2>1, <3>1, <3>2, <3>3 DEF EndStored
  <2>4. QED
    BY <2>2, <2>3
<1>18. CASE Closes
  <2>1. mainPc' = "closed" /\ UNCHANGED renderPc
    BY <1>18 DEF Closes
  <2>2. CASE UNCHANGED <<marks, progress>>
    BY <2>1, <2>2 DEF EndStored
  <2>3. ASSUME NEW b, BytesOK(b), b.spine \in Chapters, Written(b, {}) PROVE EndStored'
    <3>1. b.spine # Spines
      BY <2>3, Located
    <3>2. QED
      BY <2>1, <2>3, <3>1, Outcome DEF EndStored
  <2>4. QED
    BY <1>18, <2>2, <2>3 DEF Closes
<1>19. CASE Opens
  BY Located, <1>19 DEF Opens, EndStored
<1>20. CASE Stutters
  BY Located, <1>20 DEF Stutters, EndStored
<1>21. QED
  BY EveryStep, <1>1, <1>2, <1>3, <1>4, <1>5, <1>6, <1>7, <1>8, <1>9, <1>10, <1>11, <1>12,
    <1>13, <1>14, <1>15, <1>16, <1>17, <1>18, <1>19, <1>20 DEF Kinds

EndOK == TurnedBack /\ EndWriting /\ EndStored

LEMMA EndInit == Init => EndOK
BY ReaderAssumption DEF Init, EndOK, TurnedBack, EndWriting, EndStored

LEMMA EndStep == Types /\ FollowOK /\ EndOK /\ [Next]_vars => EndOK'
BY TurnedBackStep, EndWritingStep, EndStoredStep DEF FollowOK, EndOK

(* EndRecorded: when the end-of-book screen is open, progress.bin is past the last chapter
   and holds a status of a work read to its end, whatever statuses were chosen in the menu
   and wherever the reader turned back to, unless the two tasks saved at the same time, a
   page was turned under a save, or the SD card failed in one. *)
THEOREM EndSaved == Spec => []EndRecorded
<1>1. Init => Types /\ FollowOK /\ EndOK
  BY TypesInit, FollowInit, EndInit
<1>2. Types /\ FollowOK /\ EndOK /\ [Next]_vars => Types' /\ FollowOK' /\ EndOK'
  BY TypesStep, FollowStep, EndStep
<1>3. Types /\ FollowOK /\ EndOK => EndRecorded
  <2> SUFFICES ASSUME Types, FollowOK, EndOK, mainPc = "end", marks = {}
               PROVE  /\ progress # None /\ progress.spine = Spines
                      /\ progress.status \in Finished
    BY DEF EndRecorded, Finished
  <2>1. lastSaved.spine = Spines /\ renderPc = "idle"
    BY Located DEF FollowOK, Ended
  <2>2. progress # None /\ progress.spine = Spines
    BY <2>1 DEF EndOK, EndStored
  <2>3. QED
    BY <2>1, <2>2 DEF EndOK, EndStored
<1>4. QED
  BY <1>1, <1>2, <1>3, PTL DEF Spec

----------------------------------------------------------------------------
(* A chosen status stays: it is saved with the page it was chosen on, and nothing moves
   that page, though the chapter may be loaded again. To this the steps of the main task
   but a few are of two kinds: they leave the place alone, or the reader is somewhere else. *)
Stays ==
    /\ UNCHANGED <<layout, cache, section, deferred, pend, renderPc, excused>>
    /\ UNCHANGED spine \/ TurnTest
Leaves ==
    /\ UNCHANGED renderPc /\ (notified' \/ mainPc' = "closed") /\ (marked' = None \/ mainPc = "closed")
    /\ \/ section' = None
       \/ /\ section # None /\ SameLayout(section', section) /\ (UNCHANGED deferred \/ Cleared')
          /\ \/ TurnPage \/ SkipPage \/ ReturnFromEnd
             \/ \E s \in Chapters, o \in Anchors, L \in Layouts : GoToBookmark(s, o, L)

LEMMA LeavesChapter ==
    ASSUME Types, TurnChapter \/ SkipNext \/ SkipChapter \/ RestoreSavedPosition \/ DeleteCache \/ Leave \/ Reboot
    PROVE  Leaves
<1>1. CASE TurnChapter \/ SkipNext \/ SkipChapter
  BY <1>1 DEF TurnChapter, SkipNext, SkipChapter, ToChapter, Somewhere, Request, Leaves, drawVars
<1>2. CASE RestoreSavedPosition
  BY <1>2 DEF RestoreSavedPosition, ResetSection, Somewhere, Request, Leaves, drawVars
<1>3. CASE DeleteCache \/ Leave \/ Reboot
  BY <1>3 DEF DeleteCache, Leave, Reboot, Closed, Somewhere, Leaves
<1>4. QED
  BY <1>1, <1>2, <1>3

LEMMA LeavesPage ==
    ASSUME Types, TurnPage \/ SkipPage
    PROVE  Stays \/ Leaves
<1>1. UNCHANGED <<layout, cache, spine, pend, deferred, renderPc>>
  BY DEF TurnPage, SkipPage, drawVars
<1>2. CASE section = None
  BY <1>1, <1>2 DEF TurnPage, SkipPage, Panic, Stays
<1>3. CASE section # None
  <2>1. SameLayout(section', section) /\ notified' /\ marked' = None
    BY <1>3, TurnPageEffect, SkipPageEffect DEF Somewhere
  <2>2. QED
    BY <1>1, <1>3, <2>1 DEF Leaves
<1>4. QED
  BY <1>2, <1>3

LEMMA LeavesInMenu ==
    ASSUME Types,
           \/ \E L \in Layouts : Relayout(L)
           \/ \E s \in Chapters : ChooseChapter(s)
           \/ \E s \in Chapters, o \in Anchors : JumpToPercent(s, o) \/ Footnote(s, o)
           \/ \E s \in Chapters, o \in Anchors, L \in Layouts : GoToBookmark(s, o, L)
           \/ ReturnFromEnd
           \/ \E L \in Layouts : Open(L)
    PROVE  Leaves
<1>1. ASSUME NEW L \in Layouts, Relayout(L) PROVE Leaves
  BY <1>1 DEF Relayout, ResetSection, Somewhere, Request, Leaves, drawVars
<1>2. ASSUME NEW s \in Chapters, ChooseChapter(s) PROVE Leaves
  BY <1>2 DEF ChooseChapter, Leaves, Request, drawVars, Types, StepsOK
<1>3. ASSUME NEW s \in Chapters, NEW o \in Anchors, JumpToPercent(s, o) \/ Footnote(s, o) PROVE Leaves
  BY <1>3 DEF JumpToPercent, Footnote, ResetSection, Somewhere, Request, Leaves, drawVars
<1>4. ASSUME NEW s \in Chapters, NEW o \in Anchors, NEW L \in Layouts, GoToBookmark(s, o, L) PROVE Leaves
  <2>1. notified' /\ marked' = None /\ UNCHANGED renderPc /\ deferred' = NoDeferred(deferred)
    BY <1>4 DEF GoToBookmark, Somewhere, Request, drawVars
  <2>2. Cleared'
    BY <2>1, NoDeferredOK DEF Cleared, Types, PlaceOK
  <2>3. section' = None \/ (section # None /\ SameLayout(section', section))
    BY <1>4, BookmarkEffect
  <2>4. QED
    BY <1>4, <2>1, <2>2, <2>3 DEF Leaves
<1>5. CASE ReturnFromEnd
  <2>1. UNCHANGED <<section, deferred, renderPc>> /\ marked' = None /\ notified'
    BY <1>5 DEF ReturnFromEnd, Somewhere, Request, drawVars
  <2>2. QED
    BY <1>5, <2>1 DEF Leaves, SameLayout, SameChapter
<1>6. ASSUME NEW L \in Layouts, Open(L) PROVE Leaves
  BY <1>6 DEF Open, Request, Leaves, Types, StepsOK
<1>7. QED
  BY <1>1, <1>2, <1>3, <1>4, <1>5, <1>6

LEMMA PlaceSteps ==
    ASSUME Types, [Next]_vars
    PROVE  Render \/ Extend \/ Tick \/ TurnLock \/ OpenChapters \/ Stays \/ Leaves
<1>1. CASE ExtendTest \/ TickTest
  BY <1>1 DEF ExtendTest, TickTest, Stays, place, drawVars, history
<1>2. CASE End
  <2>1. CASE EndTest
    BY <2>1 DEF EndTest, Stays, place, drawVars
  <2>2. CASE EndSave
    BY <2>2 DEF EndSave, Stays, place, drawVars
  <2>3. CASE EndPush \/ EndReset
    BY <2>3 DEF EndPush, EndReset, Stays, place, drawVars, history
  <2>4. CASE ReturnFromEnd
    BY <2>4, LeavesInMenu
  <2>5. QED
    BY <1>2, <2>1, <2>2, <2>3, <2>4 DEF End
<1>3. CASE Turns
  <2>1. ASSUME NEW dir \in {-1, 1}, PressTurn(dir) PROVE Stays
    BY <2>1 DEF PressTurn, Stays, place, drawVars, history
  <2>2. CASE QueuedTurn \/ SkipForward \/ SkipBack
    BY <2>2 DEF QueuedTurn, SkipForward, SkipBack, Stays, place, drawVars, history
  <2>3. CASE TurnTest
    <3>1. UNCHANGED <<layout, cache, section, deferred, pend, renderPc, excused>>
      BY <2>3 DEF TurnTest, drawVars
    <3>2. QED
      BY <2>3, <3>1 DEF Stays
  <2>4. QED
    BY <1>3, <2>1, <2>2, <2>3, LeavesChapter, LeavesPage DEF Turns
<1>4. CASE Menus
  <2>1. CASE CancelChapters
    BY <2>1 DEF CancelChapters, Stays, place, drawVars
  <2>2. ASSUME NEW st \in ManualStatuses, SetStatus(st) PROVE Stays
    BY <2>2 DEF SetStatus, Stays, place, drawVars
  <2>3. CASE Persist
    BY <2>3 DEF Persist, Stays, place, drawVars
  <2>4. QED
    BY <1>4, <2>1, <2>2, <2>3, LeavesChapter, LeavesInMenu DEF Menus
<1>5. CASE Sessions
  BY <1>5, LeavesChapter, LeavesInMenu DEF Sessions
<1>6. CASE UNCHANGED vars
  BY <1>6 DEF vars, Stays, place, drawVars, history
<1>7. QED
  BY <1>1, <1>2, <1>3, <1>4, <1>5, <1>6 DEF Next, Background

LEMMA RenderDefers == ASSUME Render PROVE deferred' \in {deferred, NoDeferred(deferred)}
<1>1. CASE RenderOpen \/ RenderPlace \/ RenderFit
  BY <1>1 DEF RenderOpen, RenderPlace, RenderFit
<1>2. CASE RenderBuild \/ RenderFitStart \/ RenderFitBuild \/ RenderShow
  BY <1>2 DEF RenderBuild, RenderFitStart, RenderFitBuild, RenderShow
<1>3. CASE RenderBegin \/ RenderBuilt \/ RenderSave \/ RenderWrite
  BY <1>3 DEF RenderBegin, RenderBuilt, RenderSave, RenderWrite, place
<1>4. QED
  BY <1>1, <1>2, <1>3 DEF Render

(* No step but one that lets go of the section defers a place. *)
LEMMA ClearedStep ==
    ASSUME Types, Cleared, [Next]_vars, section' # None
    PROVE  Cleared'
<1>1. NoDeferred(deferred).offset = None /\ NoDeferred(deferred).total = 0
  BY NoDeferredOK DEF Types, PlaceOK
<1>2. CASE deferred' \in {deferred, NoDeferred(deferred)}
  BY <1>1, <1>2 DEF Cleared
<1>3. CASE Render
  BY <1>2, <1>3, RenderDefers
<1>4. CASE Extend \/ Tick \/ TurnLock
  BY <1>2, <1>4 DEF Extend, Tick, TurnLock
<1>5. CASE OpenChapters
  BY <1>5 DEF OpenChapters, ResetSection
<1>6. CASE Stays \/ Leaves
  BY <1>2, <1>6 DEF Stays, Leaves
<1>7. QED
  BY <1>3, <1>4, <1>5, <1>6, PlaceSteps

(* When a tick ends the build, the deferred place has been used. *)
LEMMA TickSettles ==
    ASSUME Types, Tick, section # None, section.building, section' # None
    PROVE  section'.building \/ Cleared'
<1> DEFINE sec == Advanced(section)
<1>1. SectionOK(sec)
  BY AdvancedOK DEF Types, SectionInv
<1>2. /\ section' = Repositioned(sec)
      /\ deferred' = IF DoesReposition(sec) THEN NoDeferred(deferred) ELSE deferred
  BY DEF Tick, Panic
<1>3. /\ deferred.total \in Nat /\ deferred.offset \in Nat \cup {None}
      /\ NoDeferred(deferred).offset = None /\ NoDeferred(deferred).total = 0
  BY NoDeferredOK DEF Types, PlaceOK, Deferreds
<1> HIDE DEF sec
<1>4. section'.building = sec.building /\ sec # None
  BY <1>1, <1>2, <1>3, RepositionedOK, SectionRecord
<1>5. QED
  BY <1>2, <1>3, <1>4 DEF DoesReposition, Cleared

(* A place kept for the end of a build is kept while there is one. *)
Settled ==
    section # None =>
        /\ section.built <= section.count
        /\ renderPc \in {"idle", "show", "save", "write"} => section.building \/ Cleared

LEMMA SettledStep == ASSUME Types, Settled, [Next]_vars PROVE Settled'
<1> SUFFICES ASSUME section' # None PROVE Settled'
  BY DEF Settled
<1>0. /\ Cleared => Cleared'
      /\ section # None => SectionOK(section) /\ section.built \in Nat /\ section.count \in Nat
      /\ SectionOK(section') /\ section'.count \in Nat /\ section'.built \in Nat
  BY ClearedStep, SectionStep, SectionRecord DEF Types, SectionInv
<1>1. CASE Render
  <2>1. CASE RenderOpen
    <3>1. section'.built = 0 /\ renderPc' \in {"build", "place"}
      BY <2>1, OpenEffect DEF Failed
    <3>2. QED
      BY <1>0, <3>1 DEF Settled
  <2>2. CASE RenderBuild \/ RenderFitBuild
    <3>1. /\ section.building /\ section # None
          /\ \/ BuildMore("build") /\ renderPc = "build"
             \/ BuildMore("fit") /\ renderPc = "fit"
      BY <2>2 DEF RenderBuild, RenderFitBuild, Types, StepsOK
    <3>2. Continued(section', section) /\ renderPc' \in {"build", "fit"}
      BY <3>1, BuildEffect DEF Failed
    <3>3. QED
      BY <3>2 DEF Settled, Continued
  <2>3. CASE RenderPlace \/ RenderFit
    <3>1. SameLayout(section', section) /\ section # None
      BY <2>3, PlaceEffect, FitEffect
    <3>2. RenderPlace => renderPc' = "fit"
      BY DEF RenderPlace
    <3>3. RenderFit => section.building \/ Cleared'
      BY FitEffect DEF Cleared
    <3>4. QED
      BY <2>3, <3>1, <3>2, <3>3 DEF Settled, SameLayout
  <2>4. CASE RenderFitStart
    <3>1. Restarted(section', section) /\ renderPc' = "fit" /\ section # None
      BY <2>4, FitStartEffect DEF Failed, RenderFitStart
    <3>2. QED
      BY <1>0, <3>1 DEF Settled, Restarted
  <2>5. CASE RenderBegin \/ RenderBuilt \/ RenderSave \/ RenderWrite
    <3>1. UNCHANGED <<section, deferred>>
      BY <2>5 DEF RenderBegin, RenderBuilt, RenderSave, RenderWrite, place
    <3>2. renderPc' \in {"idle", "show", "save", "write"} => renderPc \in {"idle", "show", "save", "write"}
      BY <2>5 DEF RenderBegin, RenderBuilt, RenderSave, RenderWrite, LockFree
    <3>3. QED
      BY <3>1, <3>2 DEF Settled, Cleared
  <2>6. CASE RenderShow
    <3>1. UNCHANGED <<section, deferred>> /\ renderPc = "show"
      BY <2>6, ShowEffect DEF Failed, RenderShow
    <3>2. QED
      BY <3>1 DEF Settled, Cleared
  <2>7. QED
    BY <1>1, <2>1, <2>2, <2>3, <2>4, <2>5, <2>6 DEF Render
<1>2. CASE Extend
  <2>1. UNCHANGED <<deferred, renderPc>>
    BY <1>2 DEF Extend, drawVars
  <2>2. UNCHANGED section \/ (section # None /\ Restarted(section', section))
    BY <1>2, ExtendEffect
  <2>3. QED
    BY <1>0, <2>1, <2>2 DEF Settled, Restarted, Cleared
<1>3. CASE Tick
  <2>1. CASE UNCHANGED <<section, deferred>>
    <3>1. UNCHANGED renderPc
      BY <1>3 DEF Tick, drawVars
    <3>2. QED
      BY <2>1, <3>1 DEF Settled, Cleared
  <2>2. CASE section # None /\ section.building
    <3>1. section'.building \/ Cleared'
      BY <1>3, <2>2, TickSettles
    <3>2. section'.built = section.built + 1
          /\ (section'.count >= section'.built \/ section'.count = Pages(section'.layout))
      BY <1>3, <2>2, TickEffect DEF Continued, Failed
    <3>3. section'.built <= section'.count
      BY <1>0, <3>2 DEF SectionOK
    <3>4. QED
      BY <3>1, <3>3 DEF Settled
  <2>3. QED
    BY <1>3, <2>1, <2>2, TickEffect
<1>4. CASE TurnLock
  <2>1. UNCHANGED <<section, renderPc>> /\ deferred' = NoDeferred(deferred)
    BY <1>4 DEF TurnLock, drawVars
  <2>2. Cleared'
    BY <2>1, NoDeferredOK DEF Cleared, Types, PlaceOK
  <2>3. QED
    BY <2>1, <2>2 DEF Settled
<1>5. CASE OpenChapters
  BY <1>5 DEF OpenChapters, ResetSection
<1>6. CASE Stays
  BY <1>6 DEF Stays, Settled, Cleared
<1>7. CASE Leaves
  BY <1>7 DEF Leaves, Settled, SameLayout, Cleared
<1>8. QED
  BY <1>1, <1>2, <1>3, <1>4, <1>5, <1>6, <1>7, PlaceSteps

(* A page drawn and not turned since is in reach, and the page saved last. *)
Rested ==
    section # None /\ spine < Spines /\ ~notified =>
        /\ renderPc \in {"save", "write"} \/ (renderPc = "idle" /\ shown.kind = "page") => PlaceHeld
        /\ renderPc = "write" \/ (renderPc = "idle" /\ shown.kind = "page") =>
              lastSaved.spine = spine /\ lastSaved.page = section.page

LEMMA HeldKept ==
    ASSUME Types, PlaceHeld, section # None, UNCHANGED section, [Next]_vars
    PROVE  PlaceHeld'
<1>1. Cleared => Cleared'
  BY ClearedStep
<1>2. QED
  BY <1>1 DEF PlaceHeld, InReach

LEMMA RestedStep == ASSUME Types, Inside, Settled, Rested, [Next]_vars
  PROVE  Rested'
<1> SUFFICES ASSUME section' # None, (spine < Spines)', ~notified' PROVE Rested'
  BY DEF Rested
<1>0. PlaceHeld /\ section # None /\ UNCHANGED section => PlaceHeld'
  BY HeldKept
<1>1. CASE Begins \/ LaysOut
  <2>1. renderPc' \in {"open", "build", "place", "fit", "show"}
    BY Located, <1>1 DEF Begins, LaysOut, Failed
  <2>2. QED
    BY <2>1 DEF Rested
<1>2. CASE Draws
  <2>1. CASE renderPc' = "save" /\ InBounds(section) /\ UNCHANGED section
    <3>1. section # None /\ section.page \in Int /\ section.count \in Nat
          /\ section.count <= Pages(section.layout) /\ Pages(section.layout) \in Nat
      BY <1>2, SectionRecord DEF Draws, Types, SectionInv
    <3>2. section.page \in 0 .. Pages(section.layout) - 1 /\ section.page < section.count
      BY <2>1, <3>1 DEF InBounds
    <3>3. PlaceHeld
      BY <3>2 DEF PlaceHeld, InReach
    <3>4. QED
      BY <1>0, <2>1, <3>1, <3>3 DEF Rested
  <2>2. CASE renderPc' = "idle" /\ shown' = Screen("outOfBounds")
    BY <2>2 DEF Rested, Screen
  <2>3. QED
    BY <1>2, <2>1, <2>2 DEF Draws, Failed
<1>3. CASE NotesPage
  <2>1. /\ renderPc = "save" /\ section # None /\ UNCHANGED <<spine, section, shown, notified>>
        /\ \/ renderPc' = "write" /\ lastSaved'.spine = spine /\ lastSaved'.page = SavedPage(spine, section.page)
           \/ /\ renderPc' = "idle" /\ UNCHANGED lastSaved
              /\ spine = lastSaved.spine /\ section.page = lastSaved.page
    BY <1>3 DEF NotesPage, Unsaved, Noted
  <2>2. SavedPage(spine, section.page) = section.page
    BY <2>1, PageKept
  <2> HIDE DEF SavedPage
  <2>3. PlaceHeld
    BY <2>1 DEF Rested
  <2>4. QED
    BY <1>0, <2>1, <2>2, <2>3 DEF Rested
<1>4. CASE WritesPage
  <2>1. /\ renderPc = "write" /\ renderPc' = "idle" /\ section # None
        /\ UNCHANGED <<spine, section, shown, notified>>
        /\ \/ lastSaved'.spine = spine /\ lastSaved'.page = section.page
           \/ UNCHANGED lastSaved
    BY <1>4 DEF WritesPage
  <2>2. QED
    BY <1>0, <2>1 DEF Rested
<1>5. CASE Works
  <2>1. renderPc = "idle" /\ UNCHANGED <<spine, renderPc, shown, lastSaved>>
    BY <1>5 DEF Works
  <2>2. CASE UNCHANGED <<section, notified>>
    BY <1>0, <2>1, <2>2 DEF Rested
  <2>3. CASE /\ section # None /\ section'.page = section.page /\ UNCHANGED notified
             /\ PlaceHeld /\ (section.building \/ Cleared) => PlaceHeld'
    <3>1. section.building \/ Cleared
      BY <2>1, <2>3 DEF Settled
    <3>2. QED
      BY <2>1, <2>3, <3>1 DEF Rested
  <2>4. QED
    BY <1>5, <2>2, <2>3 DEF Works, Failed
<1>6. CASE EndTests \/ EndSaves \/ EndShows \/ Returns
  BY Located, <1>6 DEF EndTests, EndSaves, EndShows, Returns
<1>7. CASE Chooses
  <2>1. UNCHANGED <<spine, section, renderPc, shown, lastSaved, notified>>
    BY <1>7 DEF Chooses, Types, NotifiedOK
  <2>2. QED
    BY <1>0, <2>1 DEF Rested
<1>8. CASE TurnTests \/ TurnsPage
  <2>1. UNCHANGED <<spine, section, renderPc, shown, lastSaved, notified>>
    BY <1>8 DEF TurnTests, TurnsPage
  <2>2. QED
    BY <1>0, <2>1 DEF Rested
<1>9. CASE Jumps \/ OpensList \/ SetsStatus \/ Closes \/ Opens
  BY <1>9 DEF Jumps, OpensList, SetsStatus, Closes, Opens
<1>10. CASE Persists
  BY <1>10 DEF Persists
<1>11. CASE Stutters
  BY <1>0, <1>11 DEF Stutters, Rested
<1>12. QED
  BY EveryStep, <1>1, <1>2, <1>3, <1>4, <1>5, <1>6, <1>7, <1>8, <1>9, <1>10, <1>11 DEF Kinds

(* The chapter that is loaded again opens on the page saved last. *)
Awaited ==
    /\ pend.next = lastSaved.page /\ lastSaved.page \in 0 .. Pages(layout) - 1
    /\ \/ Cleared
       \/ deferred.spine = spine /\ deferred.offset = lastSaved.page * LenOf[layout]
       \/ renderPc \in {"idle", "open"} /\ deferred.offset = None /\ Loaded(spine)
StatusSaved ==
    /\ spine < Spines /\ mainPc # "closed" /\ status = marked /\ manual
    /\ mainPc # "persist" => progress # None /\ progress.status = marked
    /\ renderPc = "write" => renderSave.status = marked
PageStays ==
    /\ lastSaved.spine = spine /\ ~Leftover
    /\ section # None /\ renderPc \notin {"build", "place"} =>
          lastSaved.page = section.page /\ PlaceHeld /\ (section.building \/ Cleared)
    /\ section = None \/ renderPc \in {"build", "place"} => Awaited
    /\ renderPc = "place" \/ (renderPc = "build" /\ ~section.building) => lastSaved.page < section.count
StatusKept == marked # None /\ NoFault => StatusSaved /\ PageStays

(* A status chosen where both tasks rest, on a page on the screen. *)
Marks == /\ mainPc = "loop" /\ mainPc' = "persist" /\ renderPc = "idle" /\ renderPc' = "idle" /\ ~notified
         /\ spine < Spines /\ section # None /\ shown.kind = "page" /\ ~Leftover
         /\ UNCHANGED <<layout, cache, pend, deferred, spine, section, lastSaved>>
(* The status and the page it is saved with are still the same. *)
Remains == /\ marked # None /\ marked' = marked /\ UNCHANGED spine
           /\ lastSaved'.spine = lastSaved.spine /\ lastSaved'.page = lastSaved.page

LEMMA ManualSaved ==
    ASSUME Types, StatusSaved, PageStays, section # None, renderPc \notin {"build", "place"},
           NEW p, p = section.page
    PROVE  /\ KeepManual(spine, p) /\ NaturalStatus(spine, p) = marked
           /\ SavedPage(spine, p) = p /\ p >= 0
           /\ lastSaved.spine = spine /\ lastSaved.page = p
<1>1. lastSaved.spine = spine /\ lastSaved.page = p /\ manual /\ status = marked /\ spine < Spines
  BY DEF StatusSaved, PageStays
<1>2. KeepManual(spine, p)
  BY <1>1 DEF KeepManual, Moved
<1> HIDE DEF KeepManual
<1>3. NaturalStatus(spine, p) = status
  BY <1>2 DEF NaturalStatus
<1>4. SavedPage(spine, p) = p
  BY <1>1, PageKept
<1>5. p >= 0
  BY SectionRecord DEF PageStays, PlaceHeld, InReach, Types, SectionInv
<1>6. QED
  BY <1>1, <1>2, <1>3, <1>4, <1>5

LEMMA StatusStep ==
    ASSUME Types, Inside, NullOK, StatusKept, [Next]_vars, marked' # None, NoFault'
    PROVE  StatusSaved' /\ (Marks \/ Remains)
<1>0. /\ NoFault /\ UNCHANGED faults /\ faults \in Int
      /\ manual' \in BOOLEAN
      /\ marked # None => StatusSaved /\ PageStays
  BY NoFaultBefore, FaultCounted, TypesStep DEF NoFault, StatusKept, Types, SavingOK
<1>1. CASE Begins \/ LaysOut \/ Draws
  <2>1. UNCHANGED <<spine, marked, mainPc, progress, status, manual, lastSaved>>
        /\ renderPc' \in {"idle", "open", "build", "place", "fit", "show", "save"}
    BY <1>1 DEF Begins, LaysOut, Draws
  <2>2. QED
    BY <1>0, <2>1 DEF StatusSaved, Remains
<1>2. CASE NotesPage
  <2>1. /\ renderPc = "save" /\ section # None /\ UNCHANGED <<spine, marked, mainPc, progress>>
        /\ \/ /\ Noted(spine, section.page) /\ renderSave' # None
              /\ renderSave'.status = NaturalStatus(spine, section.page)
           \/ renderPc' = "idle" /\ UNCHANGED <<status, manual, lastSaved>>
    BY <1>2 DEF NotesPage, Packed
  <2>2. StatusSaved /\ PageStays
    BY <1>0, <2>1
  <2> DEFINE p == section.page
  <2>3. /\ KeepManual(spine, p) /\ NaturalStatus(spine, p) = marked /\ SavedPage(spine, p) = p
        /\ lastSaved.spine = spine /\ lastSaved.page = p
    BY <2>1, <2>2, ManualSaved
  <2>4. \/ /\ lastSaved'.spine = spine /\ lastSaved'.page = p /\ status' = marked /\ manual'
           /\ renderSave'.status = marked
        \/ renderPc' = "idle" /\ UNCHANGED <<status, manual, lastSaved>>
    BY <2>1, <2>3 DEF Noted
  <2>5. QED
    BY <1>0, <2>1, <2>2, <2>3, <2>4 DEF StatusSaved, Remains
<1>3. CASE WritesPage
  <2>1. /\ renderPc = "write" /\ renderPc' = "idle" /\ section # None
        /\ UNCHANGED <<spine, marked, mainPc, status, manual>>
        /\ \/ lastSaved'.spine = spine /\ lastSaved'.page = section.page
           \/ UNCHANGED lastSaved
        /\ renderSave # None /\ progress' \in {progress, renderSave}
    BY <1>0, <1>3 DEF WritesPage, Written
  <2>2. StatusSaved /\ PageStays
    BY <1>0, <2>1
  <2>3. lastSaved.spine = spine /\ lastSaved.page = section.page
    BY <2>1, <2>2, ManualSaved
  <2>4. QED
    BY <1>0, <2>1, <2>2, <2>3 DEF StatusSaved, Remains
<1>4. CASE Works
  <2>1. /\ mainPc # "persist" /\ mainPc' \notin {"closed", "persist"} /\ marked' \in {marked, None}
        /\ UNCHANGED <<spine, renderSave, renderPc, progress, status, manual, lastSaved>>
    BY <1>4 DEF Works
  <2>2. QED
    BY <1>0, <2>1 DEF StatusSaved, Remains
<1>5. CASE EndTests \/ EndSaves \/ EndShows
  <2>1. spine = Spines /\ UNCHANGED marked
    BY <1>5 DEF EndTests, EndSaves, EndShows
  <2>2. ~(spine < Spines)
    BY <2>1, Located
  <2>3. QED
    BY <1>0, <2>1, <2>2 DEF StatusSaved
<1>6. CASE Chooses \/ TurnTests \/ TurnsPage \/ OpensList
  <2>1. /\ mainPc # "persist" /\ mainPc' \notin {"closed", "persist"} /\ UNCHANGED <<spine, marked>>
        /\ UNCHANGED <<renderSave, renderPc, progress, status, manual, lastSaved>>
    BY <1>6 DEF Chooses, TurnTests, TurnsPage, OpensList
  <2>2. QED
    BY <1>0, <2>1 DEF StatusSaved, Remains
<1>7. CASE Returns \/ Jumps \/ Closes
  BY <1>7 DEF Returns, Jumps, Closes
<1>8. CASE SetsStatus
  <2>1. /\ mainPc = "loop" /\ mainPc' = "persist" /\ renderPc = "idle" /\ renderPc' = "idle" /\ ~notified
        /\ spine < Spines /\ section # None /\ shown.kind = "page" /\ ~Leftover
        /\ UNCHANGED <<layout, cache, pend, deferred, spine, section, lastSaved>>
        /\ marked' = status' /\ manual'
    BY <1>8 DEF SetsStatus, Quiet, LockFree, OnScreen
  <2>2. QED
    BY <2>1 DEF Marks, StatusSaved
<1>9. CASE Persists
  <2>1. renderPc = "idle" /\ mainPc = "persist" /\ UNCHANGED <<spine, section, marked, renderSave, renderPc>>
    BY <1>9 DEF Persists
  <2>2. section # None
    BY <1>0, <2>1 DEF NullOK, NoFault, Uses
  <2>3. StatusSaved /\ PageStays
    BY <1>0, <2>1
  <2> DEFINE p == section.page
  <2>4. /\ KeepManual(spine, p) /\ NaturalStatus(spine, p) = marked /\ SavedPage(spine, p) = p /\ p >= 0
        /\ lastSaved.spine = spine /\ lastSaved.page = p
    BY <2>1, <2>2, <2>3, ManualSaved
  <2>5. /\ mainPc' = "loop" /\ Noted(spine, p)
        /\ \E b : b # None /\ b.page = SavedPage(spine, p) /\ b.status = NaturalStatus(spine, p)
                  /\ (b.page < 0 \/ progress' = b)
    BY <1>0, <1>9, <2>2 DEF Persists, Packed, Written
  <2>6. PICK b : b # None /\ b.page = p /\ b.status = marked /\ (b.page < 0 \/ progress' = b)
    BY <2>4, <2>5
  <2>7. p \in Int
    BY <2>2, Located
  <2>8. progress' = b
    BY <2>4, <2>6, <2>7
  <2>9. /\ lastSaved'.spine = spine /\ lastSaved'.page = p /\ status' = marked /\ manual'
    BY <2>4, <2>5 DEF Noted
  <2>10. QED
    BY <1>0, <2>1, <2>3, <2>4, <2>5, <2>6, <2>8, <2>9 DEF StatusSaved, Remains
<1>10. CASE Opens
  BY <1>0, <1>10 DEF Opens, StatusSaved
<1>11. CASE Stutters
  BY <1>0, <1>11 DEF Stutters, StatusSaved, Remains
<1>12. QED
  BY EveryStep, <1>1, <1>2, <1>3, <1>4, <1>5, <1>6, <1>7, <1>8, <1>9, <1>10, <1>11 DEF Kinds

(* What is known of the place while a chosen status stays. *)
LEMMA PlaceFacts ==
    ASSUME Types, StatusSaved, PageStays
    PROVE  /\ spine < Spines /\ spine \in Chapters /\ layout \in Layouts
           /\ ~pend.last /\ pend.anchor = None /\ pend.offset = None /\ pend.percent = None
           /\ Pages(layout) \in Nat /\ LenOf[layout] \in Nat /\ LenOf[layout] > 0
           /\ lastSaved.page \in Int
           /\ section # None => /\ SectionOK(section) /\ section.spine = spine /\ section.layout = layout
                                /\ section.page \in Int /\ section.count \in Nat /\ section.built \in Nat
                                /\ section.count <= Pages(layout)
           /\ Awaited => Target = lastSaved.page
<1>1. spine < Spines /\ spine \in Chapters /\ layout \in Layouts
  BY Located DEF StatusSaved, Types, CacheOK
<1>2. ~pend.last /\ pend.anchor = None /\ pend.offset = None /\ pend.percent = None
  BY DEF PageStays, Leftover
<1>3. Pages(layout) \in Nat /\ LenOf[layout] \in Nat /\ LenOf[layout] > 0
  BY <1>1, PagesOfLayout
<1>4. lastSaved.page \in Int
  BY Located DEF PageNumbers
<1>5. section # None => /\ SectionOK(section) /\ section.spine = spine /\ section.layout = layout
                        /\ section.page \in Int /\ section.count \in Nat /\ section.built \in Nat
                        /\ section.count <= Pages(layout)
  BY <1>1, SectionRecord DEF Types, SectionInv, LocatedOK
<1>6. Awaited => Target = lastSaved.page
  <2> SUFFICES ASSUME Awaited PROVE Target = lastSaved.page
    OBVIOUS
  <2>1. pend.next = lastSaved.page /\ pend.next >= 0
    BY <1>3 DEF Awaited
  <2>2. QED
    BY <1>2, <2>1, TargetOK DEF Types
<1>7. QED
  BY <1>1, <1>2, <1>3, <1>4, <1>5, <1>6

(* The main task: a section whose page stays and goes on, or starts, to be laid out. *)
LEMMA PageGoesOn ==
    ASSUME Types, StatusSaved, PageStays, Remains, UNCHANGED <<faults, renderPc, pend, layout>>, [Next]_vars,
           renderPc \in {"idle", "fit"}, section # None, section' # None,
           \/ Continued(section', section) /\ (section'.building \/ Cleared')
           \/ ~section.building /\ Restarted(section', section)
    PROVE  PageStays'
<1>1. /\ SectionOK(section) /\ SectionOK(section') /\ section.count \in Nat /\ section'.count \in Nat
      /\ section.page \in Int
  BY PlaceFacts, SectionStep, SectionRecord DEF Types, SectionInv
<1>2. lastSaved.page = section.page /\ PlaceHeld /\ (section.building \/ Cleared)
  BY DEF PageStays
<1>3. InReach(section')
  BY <1>1, <1>2, ReachKept DEF PlaceHeld
<1>4. Cleared => Cleared'
  BY ClearedStep
<1>5. section'.page = section.page /\ (section'.building \/ Cleared')
  BY DEF Continued, Restarted
<1>6. section.page < section.count => section'.page < section'.count \/ Cleared'
  BY <1>1, <1>2, <1>4 DEF Continued, Restarted
<1>7. PlaceHeld'
  BY <1>2, <1>3, <1>4, <1>6 DEF PlaceHeld
<1>8. ~Leftover' /\ lastSaved'.spine = spine'
  BY DEF PageStays, Leftover, Remains
<1>9. QED
  BY <1>2, <1>5, <1>7, <1>8 DEF PageStays, Remains

LEMMA PageStaysOpen ==
    ASSUME Types, StatusSaved, PageStays, Remains, UNCHANGED faults, RenderOpen
    PROVE  PageStays'
<1>1. /\ section = None /\ renderPc = "open" /\ section' # None /\ section'.layout = layout
      /\ \/ renderPc' = "place" /\ ~section'.building /\ Loaded(spine)
         \/ renderPc' = "build" /\ section'.building
      /\ deferred' = IF Loaded(spine) THEN NoDeferred(deferred) ELSE deferred
      /\ section'.count = IF Loaded(spine) /\ (section'.partial \/ ~section'.building)
                            THEN cache[spine].pages ELSE 0
  BY OpenEffect, FaultCounted DEF Failed
<1>2. UNCHANGED <<pend, layout>>
  BY DEF RenderOpen
<1>3. Awaited /\ ~Leftover /\ lastSaved.spine = spine
  BY <1>1 DEF PageStays
<1>4. Awaited'
  <2>1. pend'.next = lastSaved'.page /\ (lastSaved.page \in 0 .. Pages(layout) - 1)'
    BY <1>2, <1>3 DEF Awaited, Remains
  <2>2. CASE Loaded(spine)
    <3>1. Cleared'
      BY <1>1, <2>2, NoDeferredOK DEF Cleared, Types, PlaceOK
    <3>2. QED
      BY <2>1, <3>1 DEF Awaited
  <2>3. CASE ~Loaded(spine)
    <3>1. UNCHANGED deferred
      BY <1>1, <2>3
    <3>2. Cleared \/ (deferred.spine = spine /\ deferred.offset = lastSaved.page * LenOf[layout])
      BY <1>3, <2>3 DEF Awaited
    <3>3. Cleared' \/ (deferred.spine = spine /\ deferred.offset = lastSaved.page * LenOf[layout])'
      BY <1>2, <3>1, <3>2 DEF Cleared, Remains
    <3>4. QED
      BY <2>1, <3>3 DEF Awaited
  <2>4. QED
    BY <2>2, <2>3
<1>5. ASSUME renderPc' = "place" PROVE lastSaved.page < section'.count
  <2> DEFINE sec == NewSection(spine)
  <2>1. section' = sec /\ (sec.count = Pages(layout) \/ Deferrable(sec))
    BY <1>1, <1>5 DEF RenderOpen
  <2>2. lastSaved.page \in Int /\ lastSaved.page < Pages(layout)
    BY <1>3, PlaceFacts DEF Awaited
  <2>3. pend.anchor = None /\ Target = lastSaved.page
    BY <1>3, PlaceFacts
  <2>4. sec.count \in Nat
    BY PlaceFacts, NewSectionOK DEF Types, Sections
  <2> HIDE DEF sec
  <2>5. Deferrable(sec) => Target + StartMargin < sec.count
    BY <2>3 DEF Deferrable
  <2>6. StartMargin \in Nat \ {0}
    BY ReaderAssumption
  <2>7. QED
    BY <2>1, <2>2, <2>3, <2>4, <2>5, <2>6
<1>6. ~Leftover' /\ lastSaved'.spine = spine'
  BY <1>2, <1>3 DEF Leftover, Remains
<1>7. QED
  BY <1>1, <1>4, <1>5, <1>6 DEF PageStays, Remains

(* The build that a render waits for goes on until the page saved last is laid out. *)
LEMMA PageStaysBuild ==
    ASSUME Types, StatusSaved, PageStays, Remains, UNCHANGED faults, [Next]_vars, RenderBuild
    PROVE  PageStays'
<1>1. /\ renderPc = "build" /\ section # None /\ UNCHANGED <<pend, deferred, layout>>
  BY DEF RenderBuild, RenderUnchanged, Types, StepsOK
<1>2. Continued(section', section) /\ renderPc' = "build"
  BY <1>1, BuildEffect, FaultCounted DEF RenderBuild, Failed
<1>3. Awaited /\ ~Leftover /\ lastSaved.spine = spine
  BY <1>1 DEF PageStays
<1>4. Awaited'
  BY <1>1, <1>3 DEF Awaited, Cleared, Remains
<1>5. ~section'.building => lastSaved.page < section'.count
  <2>1. lastSaved.page \in Int /\ lastSaved.page < Pages(layout)
    BY <1>3, PlaceFacts DEF Awaited
  <2>2. section'.layout = layout /\ (~section'.building => section'.count = Pages(section'.layout))
    BY <1>1, <1>2, PlaceFacts DEF Continued, SameChapter
  <2>3. QED
    BY <2>1, <2>2
<1>6. ~Leftover' /\ lastSaved'.spine = spine'
  BY <1>1, <1>3 DEF Leftover, Remains
<1>7. QED
  BY <1>1, <1>2, <1>4, <1>5, <1>6 DEF PageStays, Remains, Continued, SameChapter

LEMMA Multiples ==
    ASSUME NEW p \in Int, NEW q \in Int, NEW n \in Nat, n > 0
    PROVE  p * n <= q * n <=> p <= q
<1>1. p <= q => p * n <= q * n
  OBVIOUS
<1>2. p > q => p * n > q * n
  OBVIOUS
<1>3. p * n \in Int /\ q * n \in Int
  OBVIOUS
<1>4. QED
  BY <1>1, <1>2, <1>3

LEMMA PageStaysBuilt ==
    ASSUME Types, Settled, StatusSaved, PageStays, Remains, RenderBuilt
    PROVE  PageStays'
<1>1. /\ renderPc = "build" /\ renderPc' = "place" /\ section # None
      /\ UNCHANGED <<section, pend, deferred, layout>>
      /\ ~section.building \/ Reached(section)
  BY DEF RenderBuilt, place, Types, StepsOK
<1>2. Awaited /\ ~Leftover /\ lastSaved.spine = spine
  BY <1>1 DEF PageStays
<1> DEFINE p == lastSaved.page
           n == LenOf[layout]
<1>3. /\ p \in Int /\ n \in Nat /\ n > 0 /\ Target = p /\ section.layout = layout /\ section.spine = spine
      /\ section.count \in Nat /\ section.built \in Nat /\ section.built <= section.count
      /\ pend.percent = None /\ pend.anchor = None /\ pend.offset = None /\ ~pend.last
  BY <1>1, <1>2, PlaceFacts DEF Settled
<1>4. OffsetJump(section) \in {None, deferred.offset}
  BY <1>3 DEF OffsetJump
<1>5. deferred.offset \in {None, p * n}
  BY <1>1, <1>2 DEF Awaited, Cleared
<1>6. OffsetJump(section) # None => OffsetJump(section) = p * n
  BY <1>4, <1>5
<1>7. ASSUME Reached(section) PROVE p < section.count
  <2>1. CASE OffsetJump(section) = None
    <3>1. section.count > Target
      BY <1>3, <1>7, <2>1 DEF Reached
    <3>2. QED
      BY <1>3, <3>1
  <2>2. CASE OffsetJump(section) # None
    <3> DEFINE q == section.built - 1
    <3>1. section.built > 0 /\ OffsetJump(section) <= OffsetOf(section, q)
      BY <1>3, <1>7, <2>2 DEF Reached
    <3>2. OffsetOf(section, q) = q * n
      BY <1>3 DEF OffsetOf
    <3>3. p * n <= q * n
      BY <1>6, <2>2, <3>1, <3>2
    <3>4. q \in Int
      BY <1>3
    <3> HIDE DEF q
    <3>5. p <= q
      BY <1>3, <3>3, <3>4, Multiples
    <3>6. QED
      BY <1>3, <3>5 DEF q
  <2>3. QED
    BY <2>1, <2>2
<1>8. lastSaved.page < section.count
  BY <1>1, <1>7 DEF PageStays
<1>9. Awaited' /\ ~Leftover' /\ lastSaved'.spine = spine'
  BY <1>1, <1>2 DEF Awaited, Cleared, Leftover, Remains
<1>10. QED
  BY <1>1, <1>8, <1>9 DEF PageStays, Remains

(* The section is opened on the page saved last. *)
LEMMA PageStaysPlaced ==
    ASSUME Types, StatusSaved, PageStays, Remains, [Next]_vars, RenderPlace
    PROVE  PageStays'
<1> DEFINE p == lastSaved.page
           n == LenOf[layout]
<1>1. /\ renderPc = "place" /\ renderPc' = "fit" /\ section # None /\ SectionOK(section)
      /\ SameLayout(section', section) /\ section'.page = PlacedPage(section) /\ UNCHANGED layout
      /\ pend' = [NoPend EXCEPT !.next = pend.next]
  BY PlaceEffect DEF RenderPlace, RenderUnchanged
<1>2. Awaited /\ lastSaved.spine = spine /\ p < section.count
  BY <1>1 DEF PageStays
<1>3. /\ p \in Int /\ n \in Nat /\ n > 0 /\ Target = p /\ section.layout = layout /\ section.spine = spine
      /\ section.count \in Nat /\ section.count <= Pages(layout) /\ Pages(layout) \in Nat
      /\ pend.percent = None /\ pend.anchor = None /\ pend.offset = None /\ ~pend.last
  BY <1>1, <1>2, PlaceFacts
<1>4. p \in 0 .. Pages(layout) - 1
  BY <1>2 DEF Awaited
<1> HIDE DEF n, p
<1>5. PageAt(section, p * n) = p
  <2> DEFINE q == section.count - 1
  <2>1. q \in Int /\ p <= q
    BY <1>2, <1>3
  <2>2. OffsetOf(section, q) = q * n
    BY <1>3 DEF OffsetOf, n
  <2> HIDE DEF q
  <2>3. p * n <= q * n
    BY <1>3, <2>1, Multiples
  <2>4. (p * n) \div n = p
    BY <1>3, <1>4
  <2>5. p * n <= OffsetOf(section, section.count - 1)
    BY <2>2, <2>3 DEF q
  <2>6. QED
    BY <1>3, <2>4, <2>5 DEF PageAt, n
<1>6. Cleared \/ (deferred.spine = spine /\ deferred.offset = p * n)
  BY <1>1, <1>2 DEF Awaited, n, p
<1>7. p # None
  BY <1>3, NoneAssumption
<1>8. p * n # None
  <2>1. p * n \in Int
    BY <1>3
  <2>2. QED
    BY <2>1, NoneAssumption
<1>9. ASSUME Cleared PROVE PlacedPage(section) = p /\ Cleared'
  <2>1. OffsetJump(section) = None
    BY <1>3, <1>9 DEF OffsetJump, Cleared
  <2>2. PlacedPage(section) = p
    BY <1>3, <2>1 DEF PlacedPage
  <2>3. section' # None
    BY <1>1 DEF SameLayout, SameChapter
  <2>4. QED
    BY <1>9, <2>2, <2>3, ClearedStep
<1>10. ASSUME deferred.spine = spine, deferred.offset = p * n PROVE PlacedPage(section) = p /\ Cleared'
  <2>1. OffsetJump(section) = p * n
    BY <1>3, <1>10 DEF OffsetJump
  <2>2. PlacedPage(section) = p
    BY <1>3, <1>5, <1>7, <1>8, <2>1 DEF PlacedPage
  <2>3. deferred' = NoDeferred(deferred)
    BY <1>5, <1>7, <1>8, <2>1 DEF RenderPlace
  <2>4. QED
    BY <2>2, <2>3, NoDeferredOK DEF Cleared, Types, PlaceOK
<1>11. PlacedPage(section) = p /\ Cleared'
  BY <1>6, <1>9, <1>10
<1> HIDE DEF PlacedPage
<1>12. PlaceHeld'
  BY <1>1, <1>2, <1>3, <1>4, <1>11 DEF PlaceHeld, InReach, SameLayout, SameChapter
<1>13. ~Leftover'
  BY <1>1 DEF Leftover, NoPend
<1>14. QED
  BY <1>1, <1>2, <1>11, <1>12, <1>13 DEF PageStays, Remains, SameLayout, SameChapter, p

(* The page saved last is in reach: render() neither clamps nor moves it. *)
LEMMA PageStaysFit ==
    ASSUME Types, StatusSaved, PageStays, Remains, UNCHANGED faults, [Next]_vars,
           RenderFitStart \/ RenderFitBuild \/ RenderFit
    PROVE  PageStays'
<1>1. /\ renderPc = "fit" /\ section # None /\ UNCHANGED <<pend, layout>>
  BY DEF RenderFitStart, RenderFitBuild, RenderFit, RenderUnchanged, Types, StepsOK
<1>2. lastSaved.page = section.page /\ PlaceHeld /\ (section.building \/ Cleared)
  BY <1>1 DEF PageStays
<1>3. SectionOK(section) /\ section.page \in Int /\ section.count \in Nat
  BY <1>1, PlaceFacts
<1>4. CASE RenderFitStart
  BY <1>1, <1>2, <1>3, <1>4 DEF RenderFitStart, Short, PlaceHeld, InReach
<1>5. CASE RenderFitBuild
  <2>1. UNCHANGED deferred /\ section.building /\ Short(section)
    BY <1>5 DEF RenderFitBuild
  <2>2. Continued(section', section) /\ renderPc' = "fit"
    BY <1>1, <1>5, <2>1, BuildEffect, FaultCounted DEF RenderFitBuild, Failed
  <2>3. Cleared'
    BY <1>2, <1>3, <2>1 DEF PlaceHeld, Short, Cleared
  <2>4. section' # None
    BY <2>2 DEF Continued, SameChapter
  <2>5. QED
    BY <1>1, <2>2, <2>3, <2>4, PageGoesOn
<1>6. CASE RenderFit
  <2>1. ~Short(section)
    BY <1>2, <1>3, <1>6 DEF RenderFit, Short, PlaceHeld, InReach
  <2>2. ~DoesReposition(section)
    BY <1>2 DEF DoesReposition, Cleared
  <2>3. UNCHANGED <<section, deferred>> /\ renderPc' = "show"
    BY <1>6, <2>1, <2>2 DEF RenderFit, Repositioned
  <2>4. QED
    BY <1>1, <1>2, <2>3 DEF PageStays, PlaceHeld, InReach, Cleared, Leftover, Remains
<1>7. QED
  BY <1>4, <1>5, <1>6

LEMMA PageStaysDrawn ==
    ASSUME Types, StatusSaved, PageStays, Remains, UNCHANGED faults,
           RenderBegin \/ RenderShow \/ RenderSave \/ RenderWrite
    PROVE  PageStays'
<1>1. UNCHANGED <<section, pend, deferred, layout>>
  <2>1. CASE RenderShow
    BY <2>1, ShowEffect, FaultCounted DEF RenderShow, Failed
  <2>2. CASE RenderBegin \/ RenderSave \/ RenderWrite
    BY <2>2 DEF RenderBegin, RenderSave, RenderWrite, place
  <2>3. QED
    BY <2>1, <2>2
<1>2. CASE RenderBegin
  <2>1. spine # Spines
    BY PlaceFacts, Located
  <2>2. /\ renderPc = "idle" /\ UNCHANGED cache
        /\ renderPc' = IF section = None THEN "open" ELSE "fit"
    BY <1>2, <2>1 DEF RenderBegin, LockFree
  <2>3. QED
    BY <1>1, <2>2 DEF PageStays, Awaited, Loaded, PlaceHeld, InReach, Cleared, Leftover, Remains
<1>3. CASE RenderShow \/ RenderSave \/ RenderWrite
  <2>1. renderPc \in {"show", "save", "write"} /\ renderPc' \in {"idle", "save", "write"} /\ section # None
    <3>1. renderPc \in {"show", "save", "write"} /\ section # None
      BY <1>3 DEF RenderShow, RenderSave, RenderWrite, Types, StepsOK
    <3>2. RenderShow => renderPc' \in {"idle", "save"}
      BY DEF RenderShow
    <3>3. RenderSave \/ RenderWrite => renderPc' \in {"idle", "write"}
      BY DEF RenderSave, RenderWrite
    <3>4. QED
      BY <1>3, <3>1, <3>2, <3>3
  <2>2. QED
    BY <1>1, <2>1 DEF PageStays, PlaceHeld, InReach, Cleared, Leftover, Remains
<1>4. QED
  BY <1>2, <1>3

LEMMA PageStaysBehind ==
    ASSUME Types, StatusSaved, PageStays, Remains, UNCHANGED faults, [Next]_vars, Extend \/ Tick \/ TurnLock
    PROVE  PageStays'
<1>1. renderPc = "idle" /\ UNCHANGED <<renderPc, pend, layout>>
  BY DEF Extend, Tick, TurnLock, drawVars, LockFree
<1>2. CASE UNCHANGED <<section, deferred, cache>>
  BY <1>1, <1>2 DEF PageStays, Awaited, Loaded, PlaceHeld, InReach, Cleared, Leftover, Remains
<1>3. CASE Extend
  <2>1. UNCHANGED <<deferred, cache>>
    BY <1>3 DEF Extend
  <2>2. UNCHANGED section \/ (section # None /\ ~section.building /\ Restarted(section', section))
    BY <1>3, ExtendEffect
  <2>3. QED
    BY <1>1, <1>2, <2>1, <2>2, PageGoesOn DEF Restarted, SameChapter
<1>4. CASE Tick
  <2>1. CASE section = None \/ ~section.building
    BY <1>2, <1>4, <2>1 DEF Tick, Panic
  <2>2. CASE section # None /\ section.building
    <3>1. Continued(section', section)
      BY <1>4, <2>2, TickEffect, FaultCounted DEF Remains, Failed
    <3>2. section' # None
      BY <3>1 DEF Continued, SameChapter
    <3>3. section'.building \/ Cleared'
      BY <1>4, <2>2, <3>2, TickSettles
    <3>4. QED
      BY <1>1, <2>2, <3>1, <3>2, <3>3, PageGoesOn
  <2>3. QED
    BY <2>1, <2>2
<1>5. CASE TurnLock
  <2>1. UNCHANGED <<section, cache>> /\ deferred' = NoDeferred(deferred)
    BY <1>5 DEF TurnLock
  <2>2. Cleared'
    BY <2>1, NoDeferredOK DEF Cleared, Types, PlaceOK
  <2>3. QED
    BY <1>1, <2>1, <2>2 DEF PageStays, Awaited, PlaceHeld, InReach, Leftover, Remains
<1>6. QED
  BY <1>3, <1>4, <1>5

(* The list of chapters, opened and closed again: the page is kept as a place in the text,
   or its build is kept in a file that ends with it, or nothing of the chapter is laid out. *)
LEMMA PageStaysListed ==
    ASSUME Types, StatusSaved, PageStays, Remains, OpenChapters
    PROVE  PageStays'
<1>1. /\ renderPc = "idle" /\ UNCHANGED <<renderPc, layout>> /\ section' = None /\ cache' = Dispose(cache)
      /\ deferred' = Remembered[1] /\ pend' = [pend EXCEPT !.next = Remembered[2]]
  BY DEF OpenChapters, ResetSection, drawVars, LockFree
<1>2. /\ ~Leftover' /\ lastSaved'.spine = spine' /\ pend'.next = Remembered[2]
  BY <1>1 DEF PageStays, Leftover, Remains, Types, PlaceOK, Pends
<1>3. CASE section = None
  <2>1. Awaited
    BY <1>3 DEF PageStays
  <2>2. deferred' = deferred /\ pend'.next = pend.next /\ cache' = cache
    BY <1>1, <1>2, <1>3 DEF Remembered, Dispose
  <2>3. QED
    BY <1>1, <1>2, <2>1, <2>2 DEF PageStays, Awaited, Cleared, Loaded, Remains
<1>4. CASE section # None
  <2> DEFINE o == IF InBounds(section) THEN OffsetOf(section, section.page) ELSE None
             r == [spine |-> spine, total |-> section.count, offset |-> o]
  <2>1. /\ lastSaved.page = section.page /\ InReach(section) /\ section.layout = layout /\ section.spine = spine
        /\ section.count \in Nat /\ section.page \in Int /\ spine \in Chapters
    BY <1>1, <1>4, PlaceFacts DEF PageStays, PlaceHeld
  <2>2. deferred' = r /\ pend'.next = section.page
    BY <1>1, <1>2, <1>4 DEF Remembered
  <2> HIDE DEF o
  <2>3. deferred'.spine = spine /\ deferred'.total = section.count /\ deferred'.offset = o
    BY <2>2
  <2>4. pend'.next = lastSaved.page /\ lastSaved.page \in 0 .. Pages(layout) - 1
    BY <2>1, <2>2 DEF InReach
  <2>5. CASE InBounds(section)
    <3>1. o = lastSaved.page * LenOf[layout]
      BY <2>1, <2>5 DEF o, OffsetOf
    <3>2. Awaited'
      BY <1>1, <2>3, <2>4, <3>1 DEF Awaited, Remains
    <3>3. QED
      BY <1>1, <1>2, <3>2 DEF PageStays
  <2>6. CASE ~InBounds(section)
    <3>1. o = None /\ section.building /\ ~section.partial /\ section.built = section.count
      BY <2>1, <2>6 DEF o, InReach, InBounds
    <3>2. CASE section.count = 0
      <4>1. Cleared'
        BY <2>3, <3>1, <3>2 DEF Cleared
      <4>2. Awaited'
        BY <1>1, <2>4, <4>1 DEF Awaited, Remains
      <4>3. QED
        BY <1>1, <1>2, <4>2 DEF PageStays
    <3>3. CASE section.count > 0
      <4>1. cache' = [cache EXCEPT ![section.spine] = File(section, section.built)]
        BY <1>1, <1>4, <3>1 DEF Dispose
      <4>2. cache'[spine] = File(section, section.built)
        BY <2>1, <4>1 DEF Types, CacheOK
      <4>3. cache'[spine].pages > 0 /\ cache'[spine].layout = layout
        BY <2>1, <3>1, <3>3, <4>2 DEF File
      <4>4. Loaded(spine)'
        BY <1>1, <4>3 DEF Loaded, Remains
      <4>5. Awaited'
        BY <1>1, <2>3, <2>4, <3>1, <4>4 DEF Awaited, Remains
      <4>6. QED
        BY <1>1, <1>2, <4>5 DEF PageStays
    <3>4. QED
      BY <2>1, <3>2, <3>3
  <2>7. QED
    BY <2>5, <2>6
<1>5. QED
  BY <1>3, <1>4

LEMMA PageStaysStep ==
    ASSUME Types, Settled, Rested, StatusKept, [Next]_vars, marked' # None, NoFault', Marks \/ Remains
    PROVE  PageStays'
<1>1. CASE Marks
  <2>1. section.building \/ Cleared
    BY <1>1 DEF Marks, Settled
  <2>2. lastSaved.spine = spine /\ lastSaved.page = section.page /\ PlaceHeld
    BY <1>1 DEF Marks, Rested
  <2>3. QED
    BY <1>1, <2>1, <2>2 DEF Marks, PageStays, PlaceHeld, InReach, Cleared, Leftover
<1>2. CASE Remains
  <2>1. UNCHANGED faults /\ StatusSaved /\ PageStays
    BY <1>2, NoFaultBefore DEF Remains, StatusKept, NoFault
  <2>2. CASE Render
    BY <1>2, <2>1, <2>2, PageStaysOpen, PageStaysBuild, PageStaysBuilt, PageStaysPlaced, PageStaysFit,
       PageStaysDrawn DEF Render
  <2>3. CASE Extend \/ Tick \/ TurnLock
    BY <1>2, <2>1, <2>3, PageStaysBehind
  <2>4. CASE OpenChapters
    BY <1>2, <2>1, <2>4, PageStaysListed
  <2>5. CASE Stays
    BY <1>2, <2>1, <2>5 DEF Stays, Remains, PageStays, Awaited, Loaded, PlaceHeld, InReach, Cleared, Leftover
  <2>6. CASE Leaves
    BY <1>2, <2>1, <2>6 DEF Leaves, Remains, StatusSaved
  <2>7. QED
    BY <2>2, <2>3, <2>4, <2>5, <2>6, PlaceSteps
<1>3. QED
  BY <1>1, <1>2

ChosenOK == Settled /\ Rested /\ StatusKept

LEMMA ChosenInit == Init => ChosenOK
BY DEF Init, ChosenOK, Settled, Rested, StatusKept

LEMMA ChosenStep == Types /\ FollowOK /\ NullOK /\ ChosenOK /\ [Next]_vars => ChosenOK'
<1> SUFFICES ASSUME Types, FollowOK, NullOK, ChosenOK, [Next]_vars PROVE ChosenOK'
  OBVIOUS
<1>1. Settled' /\ Rested'
  BY SettledStep, RestedStep DEF ChosenOK, FollowOK
<1>2. StatusKept'
  <2> SUFFICES ASSUME marked' # None, NoFault' PROVE StatusSaved' /\ PageStays'
    BY DEF StatusKept
  <2>1. StatusSaved' /\ (Marks \/ Remains)
    BY StatusStep DEF ChosenOK, FollowOK
  <2>2. QED
    BY <2>1, PageStaysStep DEF ChosenOK
<1>3. QED
  BY <1>1, <1>2 DEF ChosenOK

(* ManualStatusKept: a status chosen in the menu is in progress.bin from its save until the
   reader moves, the layout changes or a finished layout moves the page, though renders save
   the page again and the chapter is let go and loaded again, unless the SD card failed. *)
THEOREM StatusSurvives == Spec => []ManualStatusKept
<1>1. Init => Types /\ FollowOK /\ NullOK /\ ChosenOK
  <2>1. Init => NullOK
    BY DEF Init, NullOK, Uses
  <2>2. QED
    BY <2>1, TypesInit, FollowInit, ChosenInit
<1>2. Types /\ FollowOK /\ NullOK /\ ChosenOK /\ [Next]_vars => Types' /\ FollowOK' /\ NullOK' /\ ChosenOK'
  BY TypesStep, FollowStep, NullStep, ChosenStep
<1>3. ChosenOK => ManualStatusKept
  BY DEF ChosenOK, StatusKept, StatusSaved, ManualStatusKept, NoFault
<1>4. QED
  BY <1>1, <1>2, <1>3, PTL DEF Spec

----------------------------------------------------------------------------
(* A page is on the screen: a render gives up, or finds the page out of bounds, only after
   an SD card failure. *)

(* A turn decides with nothing deferred, so that a render does not move the page meanwhile. *)
TurnCleared == mainPc \in {"turnTest", "turnPage", "turnChapter"} => Cleared
(* A partial layout has pages. *)
PartialFilled == section # None /\ section.partial => section.count > 0
(* A layout of one page is never partial, nor extended by the main task; no page is turned in it. *)
OneWhole == Pages(layout) = 1 =>
    /\ mainPc # "extend"
    /\ section # None => ~section.partial /\ (section.building => section.count = 0 /\ renderPc = "build")
OneStill == Pages(layout) = 1 /\ NoFault /\ section # None =>
    /\ mainPc # "turnPage"
    /\ section.page <= 0 \/ (renderPc = "fit" /\ mainPc \notin InTurn)
(* A turn back is from a page with one before it. *)
BackDue == NoFault /\ mainPc = "turnPage" /\ turn.dir < 0 /\ section # None => section.page > 0
PageReal == section # None /\ (~excused \/ NoFault \/ spine = Spines) => section.page >= 0
(* What is about to be drawn is there, what is saved was drawn, and what was drawn stays. *)
ShowReal == renderPc = "show" /\ ~notified /\ ~excused /\ spine < Spines => InBounds(section)
PageDrawn == renderPc \in {"save", "write"} => shown.kind = "page"
ScreenKept ==
    /\ renderPc = "idle" /\ ~notified /\ ~excused /\ spine < Spines
    /\ mainPc \notin {"closed", "chapters", "end", "panic"}
    => OnScreen
ScreenOK == /\ TurnCleared /\ PartialFilled /\ OneWhole /\ OneStill /\ BackDue /\ PageReal
            /\ ShowReal /\ PageDrawn /\ ScreenKept

(* The render task does not forget that the place was lost. *)
LEMMA RenderExcuses ==
    ASSUME Render
    PROVE  (excused => excused') /\ UNCHANGED <<mainPc, turn, layout, spine>>
<1>1. CASE RenderOpen
  BY <1>1 DEF RenderOpen, PlaceLost, mainVars
<1>2. CASE RenderBuild \/ RenderFitBuild
  BY <1>2 DEF RenderBuild, RenderFitBuild, BuildMore, PlaceLost, RenderUnchanged, mainVars
<1>3. CASE RenderPlace
  <2>1. excused' = (excused \/ (stale /\ Leftover) \/ OffsetMissed(section)) /\ RenderUnchanged
    BY <1>3 DEF RenderPlace
  <2>2. UNCHANGED <<mainPc, turn, layout, spine>>
    BY <2>1 DEF RenderUnchanged, mainVars
  <2>3. QED
    BY <2>1, <2>2, Zenon
<1>4. CASE RenderFitStart \/ RenderFit \/ RenderShow
  BY <1>4 DEF RenderFitStart, RenderFit, RenderShow, PlaceLost, RenderUnchanged, mainVars
<1>5. CASE RenderBegin \/ RenderBuilt \/ RenderSave \/ RenderWrite
  BY <1>5 DEF RenderBegin, RenderBuilt, RenderSave, RenderWrite, history, place, mainVars
<1>6. QED
  BY <1>1, <1>2, <1>3, <1>4, <1>5 DEF Render

LEMMA ExcusedStep ==
    ASSUME Types, [Next]_vars
    PROVE  (excused => excused') \/ notified' \/ mainPc' \in {"closed", "chapters"}
<1>1. CASE Extend \/ TurnLock
  BY <1>1 DEF Extend, TurnLock, history
<1>2. CASE Tick
  BY <1>2 DEF Tick, PlaceLost
<1>3. CASE OpenChapters
  BY <1>3 DEF OpenChapters
<1>4. CASE Stays \/ Leaves
  BY <1>4 DEF Stays, Leaves
<1>5. QED
  BY <1>1, <1>2, <1>3, <1>4, RenderExcuses, PlaceSteps

LEMMA GivesUp ==
    ASSUME Types, [Next]_vars, renderPc # "idle", renderPc' = "idle"
    PROVE  excused' \/ (renderPc = "show" /\ ~InBounds(section)) \/ renderPc \in {"save", "write"}
<1>1. CASE RenderOpen
  BY <1>1 DEF RenderOpen, PlaceLost
<1>2. CASE RenderBuild \/ RenderFitBuild
  BY <1>2 DEF RenderBuild, RenderFitBuild, BuildMore, PlaceLost
<1>3. CASE RenderPlace \/ RenderFitStart \/ RenderFit \/ RenderBuilt
  BY <1>3 DEF RenderPlace, RenderFitStart, RenderFit, RenderBuilt, PlaceLost
<1>4. CASE RenderShow
  BY <1>4 DEF RenderShow, PlaceLost
<1>5. CASE RenderBegin \/ RenderSave \/ RenderWrite
  BY <1>5 DEF RenderBegin, RenderSave, RenderWrite, LockFree
<1>6. CASE Extend \/ Tick \/ TurnLock \/ OpenChapters
  BY <1>6 DEF Extend, Tick, TurnLock, OpenChapters, LockFree
<1>7. CASE Stays \/ Leaves
  BY <1>7 DEF Stays, Leaves
<1>8. QED
  BY <1>1, <1>2, <1>3, <1>4, <1>5, <1>6, <1>7, PlaceSteps DEF Render

(* The main task starts a turn, or the extension of a layout, with nothing being rendered. *)
LEMMA MainAlone ==
    ASSUME Types, [Next]_vars
    PROVE  \/ Render \/ ExtendTest \/ TurnLock \/ TurnTest \/ UNCHANGED vars
           \/ mainPc' = "turnLock" /\ LockFree /\ UNCHANGED <<section, layout, renderPc>>
           \/ mainPc' \notin InTurn \cup {"extend"}
<1> USE DEF InTurn
<1>1. CASE Background
  BY <1>1 DEF Background, Extend, TickTest, Tick, Panic
<1>2. CASE End
  BY <1>2 DEF End, EndTest, EndSave, EndPush, EndReset, ReturnFromEnd, Idle, mainVars
<1>3. CASE Turns
  <2>1. ASSUME NEW dir \in {-1, 1}, PressTurn(dir)
        PROVE  mainPc' = "loop" \/ (mainPc' = "turnLock" /\ LockFree /\ UNCHANGED <<section, layout, renderPc>>)
    BY <2>1 DEF PressTurn, Ready, Idle, Chosen, place, drawVars
  <2>2. CASE QueuedTurn
    BY <2>2 DEF QueuedTurn, Ready, Idle, Chosen, place, drawVars
  <2>3. CASE TurnPage \/ SkipPage
    BY <2>3 DEF TurnPage, SkipPage, Panic
  <2>4. CASE TurnChapter \/ SkipNext \/ SkipChapter
    BY <2>4 DEF TurnChapter, SkipNext, SkipChapter, ToChapter
  <2>5. CASE SkipForward \/ SkipBack
    BY <2>5 DEF SkipForward, SkipBack
  <2>6. QED
    BY <1>3, <2>1, <2>2, <2>3, <2>4, <2>5 DEF Turns
<1>4. CASE Menus
  <2>1. ASSUME NEW L \in Layouts, Relayout(L) PROVE mainPc' = "loop"
    BY <2>1 DEF Relayout, Ready, Idle, mainVars
  <2>2. ASSUME NEW s \in Chapters, NEW o \in Anchors, JumpToPercent(s, o) \/ Footnote(s, o) PROVE mainPc' = "loop"
    BY <2>2 DEF JumpToPercent, Footnote, Ready, Idle, mainVars
  <2>3. ASSUME NEW s \in Chapters, NEW o \in Anchors, NEW L \in Layouts, GoToBookmark(s, o, L) PROVE mainPc' = "loop"
    BY <2>3 DEF GoToBookmark, Ready, Idle
  <2>4. ASSUME NEW s \in Chapters, ChooseChapter(s) PROVE mainPc' = "loop"
    BY <2>4 DEF ChooseChapter
  <2>5. CASE OpenChapters \/ CancelChapters
    BY <2>5 DEF OpenChapters, CancelChapters
  <2>6. CASE RestoreSavedPosition
    BY <2>6 DEF RestoreSavedPosition, Ready, Idle, mainVars
  <2>7. ASSUME NEW st \in ManualStatuses, SetStatus(st) PROVE mainPc' \in {"loop", "persist"}
    BY <2>7 DEF SetStatus
  <2>8. CASE Persist \/ DeleteCache
    BY <2>8 DEF Persist, DeleteCache, Closed, Panic
  <2>9. QED
    BY <1>4, <2>1, <2>2, <2>3, <2>4, <2>5, <2>6, <2>7, <2>8 DEF Menus
<1>5. CASE Sessions
  BY <1>5 DEF Sessions, Leave, Reboot, Open, Closed
<1>6. QED
  BY <1>1, <1>2, <1>3, <1>4, <1>5 DEF Next

(* Where the section of the next state comes from. *)
LEMMA SectionSource ==
    ASSUME Types, [Next]_vars, section' # None
    PROVE  \/ RenderOpen
           \/ /\ section # None /\ SectionOK(section) /\ SectionOK(section')
              /\ \/ SameLayout(section', section)
                 \/ Continued(section', section) /\ (RenderBuild \/ RenderFitBuild \/ Tick)
                 \/ Restarted(section', section) /\ (RenderFitStart \/ Extend)
                 \/ /\ Tick /\ section.building /\ SameChapter(section', section)
                    /\ ~section'.partial /\ ~section'.building /\ section'.page \in Nat
<1>0. SectionOK(section')
  BY SectionStep DEF SectionInv
<1>1. section = None \/ SectionOK(section)
  BY DEF Types, SectionInv
<1>2. UNCHANGED section => SameLayout(section', section)
  BY DEF SameLayout, SameChapter
<1>3. ~Failed
  BY DEF Failed
<1>4. CASE RenderBuild \/ RenderFitBuild
  <2>1. section # None /\ section.building
    BY <1>4 DEF RenderBuild, RenderFitBuild, Types, StepsOK
  <2>2. \/ RenderBuild /\ BuildMore("build")
        \/ RenderFitBuild /\ BuildMore("fit")
    BY <1>4 DEF RenderBuild, RenderFitBuild
  <2>3. QED
    BY <1>0, <1>1, <1>3, <2>1, <2>2, BuildEffect
<1>5. CASE RenderPlace \/ RenderFit \/ RenderShow
  BY <1>0, <1>1, <1>2, <1>3, <1>5, PlaceEffect, FitEffect, ShowEffect
<1>6. CASE RenderFitStart
  BY <1>0, <1>1, <1>3, <1>6, FitStartEffect
<1>7. CASE RenderBegin \/ RenderBuilt \/ RenderSave \/ RenderWrite
  BY <1>0, <1>1, <1>2, <1>7 DEF RenderBegin, RenderBuilt, RenderSave, RenderWrite, place
<1>8. CASE Extend
  BY <1>0, <1>1, <1>2, <1>8, ExtendEffect
<1>9. CASE Tick
  BY <1>0, <1>1, <1>2, <1>3, <1>9, TickEffect
<1>10. CASE TurnLock \/ OpenChapters
  BY <1>0, <1>1, <1>2, <1>10 DEF TurnLock, OpenChapters, ResetSection
<1>11. CASE Stays \/ Leaves
  BY <1>0, <1>1, <1>2, <1>11 DEF Stays, Leaves
<1>12. QED
  BY <1>4, <1>5, <1>6, <1>7, <1>8, <1>9, <1>10, <1>11, PlaceSteps DEF Render

LEMMA TurnClearedStep == ASSUME Types, TurnCleared, [Next]_vars PROVE TurnCleared'
<1>1. NoDeferred(deferred).offset = None /\ NoDeferred(deferred).total = 0
  BY NoDeferredOK DEF Types, PlaceOK
<1>2. CASE Render
  BY <1>1, <1>2, RenderDefers, RenderExcuses DEF TurnCleared, Cleared
<1>3. CASE ExtendTest
  BY <1>3 DEF ExtendTest, TurnCleared
<1>4. CASE TurnLock
  BY <1>1, <1>4 DEF TurnLock, TurnCleared, Cleared
<1>5. CASE TurnTest
  BY <1>5 DEF TurnTest, TurnCleared, Cleared
<1>6. CASE UNCHANGED vars
  BY <1>6 DEF vars, place, mainVars, TurnCleared, Cleared
<1>7. CASE mainPc' = "turnLock" \/ mainPc' \notin InTurn \cup {"extend"}
  BY <1>7 DEF TurnCleared, InTurn
<1>8. QED
  BY <1>2, <1>3, <1>4, <1>5, <1>6, <1>7, MainAlone

LEMMA PartialFilledStep == ASSUME Types, PartialFilled, [Next]_vars PROVE PartialFilled'
<1> SUFFICES ASSUME section' # None, section'.partial PROVE section'.count > 0
  BY DEF PartialFilled
<1>1. CASE RenderOpen
  <2>1. spine \in Chapters /\ Loaded(spine) /\ section'.count = cache[spine].pages
    BY <1>1, OpenEffect DEF Failed
  <2>2. QED
    BY <2>1 DEF Loaded
<1>2. CASE section # None /\ SectionOK(section) /\ SectionOK(section')
  <2>1. section.count \in Nat /\ section'.count \in Nat
    BY <1>2, SectionRecord
  <2>2. CASE SameLayout(section', section)
    BY <1>2, <2>2 DEF PartialFilled, SameLayout
  <2>3. CASE Continued(section', section)
    <3>1. section.partial /\ section'.count >= section.count
      BY <2>3 DEF Continued
    <3>2. QED
      BY <1>2, <2>1, <3>1 DEF PartialFilled
  <2>4. CASE Restarted(section', section)
    <3>1. section.partial /\ section'.count = section.count
      BY <2>4 DEF Restarted
    <3>2. QED
      BY <1>2, <3>1 DEF PartialFilled
  <2>5. QED
    BY <1>1, <1>2, <2>2, <2>3, <2>4, SectionSource
<1>3. QED
  BY <1>1, <1>2, SectionSource

(* A layout of one page is laid out at once, and so never in part. *)
LEMMA OneWholeOpens ==
    ASSUME Types, Types', RenderOpen, section' # None, Pages(layout) = 1
    PROVE  ~section'.partial /\ (section'.building => section'.count = 0 /\ renderPc' = "build")
<1> DEFINE sec == NewSection(spine)
<1>1. spine \in Chapters /\ (section'.building => renderPc' = "build")
      /\ section'.count = IF Loaded(spine) /\ (section'.partial \/ ~section'.building)
                            THEN cache[spine].pages ELSE 0
  BY OpenEffect DEF Failed
<1>2. /\ sec \in Sections /\ sec.count <= Pages(sec.layout)
      /\ sec.partial = (Loaded(spine) /\ cache[spine].pages < Pages(layout))
  BY <1>1, NewSectionOK DEF Types
<1>3. cache[spine].pages \in Nat
  BY <1>1 DEF Types, CacheOK
<1>4. ~sec.partial
  <2>1. Loaded(spine) => cache[spine].pages > 0
    BY DEF Loaded
  <2>2. ~(Loaded(spine) /\ cache[spine].pages < Pages(layout))
    BY <1>3, <2>1
  <2>3. QED
    BY <1>2, <2>2, Zenon
<1>5. section' = sec \/ section' = Started(sec)
  BY DEF RenderOpen
<1>6. section'.partial = sec.partial
  BY <1>2, <1>5, StartedOK
<1>7. QED
  BY <1>1, <1>4, <1>6

(* A layout of one page that is being laid out has none yet: the render task goes on. *)
LEMMA OneBuilds ==
    ASSUME Types, [Next]_vars, section # None, SectionOK(section), section.building, section.count = 0,
           Pages(section.layout) = 1, renderPc = "build", SameLayout(section', section)
    PROVE  renderPc' = "build"
<1>1. Target \in Nat /\ ~Reached(section)
  <2>1. Target \in Nat
    BY TargetOK DEF Types
  <2>2. section.built = 0
    BY SectionRecord DEF SectionOK
  <2>3. pend.anchor # None => AnchorPage(section, pend.anchor) = None
    <3> SUFFICES ASSUME pend.anchor # None PROVE AnchorPage(section, pend.anchor) = None
      OBVIOUS
    <3>1. pend.anchor \in Nat /\ LenOf[section.layout] \in Nat \ {0}
      <4>1. pend.anchor \in Anchors
        BY DEF Types, PlaceOK, Pends
      <4>2. pend.anchor \in Nat
        <5>1. \A o \in Anchors : o \in Nat
          BY ReaderAssumption
        <5>2. QED
          BY <4>1, <5>1
      <4>3. LenOf[section.layout] \in Nat \ {0}
        BY SectionRecord, PagesOfLayout
      <4>4. QED
        BY <4>2, <4>3
    <3>2. pend.anchor \div LenOf[section.layout] \in Nat
      BY <3>1, Quotient
    <3>3. QED
      BY <3>2 DEF AnchorPage
  <2>4. QED
    BY <2>1, <2>2, <2>3 DEF Reached
<1>2. CASE RenderBuild
  BY <1>2, BuildEffect DEF RenderBuild, Failed, SameLayout, SameChapter, Continued
<1>3. CASE RenderBuilt
  BY <1>1, <1>3 DEF RenderBuilt
<1>4. CASE Render /\ ~RenderBuild /\ ~RenderBuilt
  BY <1>4 DEF Render, RenderBegin, RenderOpen, RenderPlace, RenderFitStart, RenderFitBuild, RenderFit,
              RenderShow, RenderSave, RenderWrite, LockFree
<1>5. CASE Extend \/ Tick \/ TurnLock \/ OpenChapters
  BY <1>5 DEF Extend, Tick, TurnLock, OpenChapters, LockFree
<1>6. CASE Stays \/ Leaves
  BY <1>6 DEF Stays, Leaves
<1>7. QED
  BY <1>2, <1>3, <1>4, <1>5, <1>6, PlaceSteps

LEMMA OneWholeStep ==
    ASSUME Types, Types', OneWhole, [Next]_vars
    PROVE  OneWhole'
<1> SUFFICES ASSUME Pages(layout') = 1
             PROVE  /\ mainPc' # "extend"
                    /\ section' # None => ~section'.partial /\ (section'.building => section'.count = 0 /\ renderPc' = "build")
  BY DEF OneWhole, Pages
<1>1. mainPc' # "extend"
  <2>1. CASE Render
    BY <2>1, RenderExcuses DEF OneWhole
  <2>2. CASE ExtendTest
    BY <2>2 DEF ExtendTest, ExtendDue, OneWhole
  <2>3. CASE TurnLock
    BY <2>3 DEF TurnLock
  <2>4. CASE TurnTest
    BY <2>4 DEF TurnTest, Panic
  <2>5. CASE UNCHANGED vars
    BY <2>5 DEF vars, mainVars, OneWhole
  <2>6. QED
    BY <2>1, <2>2, <2>3, <2>4, <2>5, MainAlone DEF InTurn
<1>2. ASSUME section' # None
      PROVE  ~section'.partial /\ (section'.building => section'.count = 0 /\ renderPc' = "build")
  <2>1. section'.layout = layout'
    BY <1>2 DEF Types, LocatedOK
  <2>2. CASE RenderOpen
    BY <1>2, <2>2, OneWholeOpens, RenderExcuses DEF Render
  <2>3. CASE section # None /\ SectionOK(section) /\ SectionOK(section')
    <3>1. section.layout = layout
      BY <2>3 DEF Types, LocatedOK
    <3>2. section'.layout = section.layout => Pages(layout) = 1 /\ layout' = layout
      BY <2>1, <3>1
    <3>3. CASE SameLayout(section', section)
      <4>1. layout' = layout /\ ~section.partial /\ (section.building => section.count = 0 /\ renderPc = "build")
        BY <2>3, <3>2, <3>3 DEF OneWhole, SameLayout, SameChapter
      <4>2. ~section'.partial /\ section'.building = section.building /\ section'.count = section.count
        BY <3>3, <4>1 DEF SameLayout
      <4>3. section.building => renderPc' = "build"
        BY <2>3, <3>1, <3>2, <3>3, <4>1, OneBuilds DEF SameLayout, SameChapter
      <4>4. QED
        BY <4>1, <4>2, <4>3
    <3>4. CASE Continued(section', section)
      <4>1. ~section.partial /\ section'.built = section.built + 1
        BY <2>3, <3>2, <3>4 DEF OneWhole, Continued, SameChapter
      <4>2. section'.building => section'.built < 1
        BY <2>1, <2>3 DEF SectionOK
      <4>3. section.built \in Nat
        BY <2>3, SectionRecord
      <4>4. ~section'.building
        BY <4>1, <4>2, <4>3
      <4>5. QED
        BY <3>4, <4>1, <4>4 DEF Continued
    <3>5. CASE Restarted(section', section) /\ (RenderFitStart \/ Extend)
      <4>1. Pages(layout) = 1
        BY <3>2, <3>5 DEF Restarted, SameChapter
      <4>2. QED
        BY <2>3, <3>5, <4>1, FitStartEffect DEF OneWhole, Extend
    <3>6. CASE ~section'.partial /\ ~section'.building
      BY <3>6
    <3>7. CASE RenderOpen
      BY <2>2, <3>7
    <3>8. QED
      BY <1>2, <3>3, <3>4, <3>5, <3>6, <3>7, SectionSource
  <2>4. QED
    BY <1>2, <2>2, <2>3, SectionSource
<1>3. QED
  BY <1>1, <1>2

LEMMA OneNotTurned ==
    ASSUME Types, TurnAlone, OneWhole, OneStill, PageReal, [Next]_vars,
           NoFault, Pages(layout') = 1, section' # None
    PROVE  mainPc' # "turnPage"
<1>1. CASE Render
  <2>1. layout' = layout /\ mainPc' = mainPc
    BY <1>1, RenderExcuses
  <2>2. section # None \/ RenderOpen
    BY SectionSource
  <2>3. RenderOpen => mainPc \notin InTurn
    BY OpenEffect DEF TurnAlone
  <2>4. QED
    BY <2>1, <2>2, <2>3 DEF OneStill, InTurn
<1>2. CASE TurnTest
  <2>1. mainPc = "turnTest" /\ section' = section /\ layout' = layout
    BY <1>2 DEF TurnTest
  <2>2. renderPc # "build"
    BY <2>1 DEF TurnAlone, InTurn
  <2>3. ~section.building /\ section.page <= 0
    BY <2>1, <2>2 DEF OneWhole, OneStill, InTurn
  <2>4. section.page >= 0
    BY <2>1 DEF PageReal
  <2>5. SectionOK(section) /\ section.layout = layout
    BY <2>1 DEF Types, SectionInv, LocatedOK
  <2>6. section.count \in Nat /\ section.count <= 1 /\ section.page \in Int
    BY <2>1, <2>5, SectionRecord
  <2>7. ~PagesAhead /\ ~(section.page > 0)
    BY <2>3, <2>4, <2>6 DEF PagesAhead
  <2>8. QED
    BY <1>2, <2>1, <2>7 DEF TurnTest, Panic
<1>3. CASE UNCHANGED vars
  BY <1>3 DEF vars, mainVars, place, OneStill
<1>4. CASE ExtendTest \/ TurnLock
  BY <1>4 DEF ExtendTest, TurnLock
<1>5. QED
  BY <1>1, <1>2, <1>3, <1>4, MainAlone DEF InTurn

LEMMA OneBookmark ==
    ASSUME Types, NEW s \in Chapters, NEW o \in Anchors, NEW L \in Layouts, GoToBookmark(s, o, L),
           section # None, Whole(section), Pages(section.layout) = 1, section' # None
    PROVE  section'.page = 0
<1> DEFINE p == PageAt(section, o)
<1>1. SectionOK(section)
  BY DEF Types, SectionInv
<1>2. o \in Nat /\ o < Units /\ Units \in Nat
  BY ReaderAssumption
<1>3. LenOf[section.layout] \in Nat \ {0} /\ LenOf[section.layout] = Units
  BY <1>1, SectionRecord, PagesOfLayout
<1>4. o \div Units \in Nat /\ Units * (o \div Units) <= o
  BY <1>2, <1>3, Quotient
<1>5. o \div Units = 0
  BY <1>2, <1>4
<1>6. p = 0
  BY <1>3, <1>5 DEF PageAt
<1>7. p # None
  BY <1>6, NoneAssumption
<1> HIDE DEF p
<1>8. section' = [section EXCEPT !.page = p]
  BY <1>7 DEF GoToBookmark, ResetSection, p
<1>9. QED
  BY <1>1, <1>6, <1>8, PageTurned DEF PageNumbers

LEMMA OneStillStep ==
    ASSUME Types, Types', TurnAlone, OneWhole, OneStill, PageReal, [Next]_vars
    PROVE  OneStill'
<1> SUFFICES ASSUME Pages(layout') = 1, faults' = MaxFaults, section' # None
             PROVE  /\ mainPc' # "turnPage"
                    /\ section'.page <= 0 \/ (renderPc' = "fit" /\ mainPc' \notin InTurn)
  BY DEF OneStill, Pages, NoFault
<1>1. NoFault
  BY NoFaultBefore DEF NoFault
<1>2. mainPc' # "turnPage"
  BY <1>1, OneNotTurned
<1>3. CASE RenderOpen
  BY <1>2, <1>3, OpenEffect DEF Failed
<1>4. CASE section # None /\ SectionOK(section) /\ SectionOK(section') /\ SameChapter(section', section)
  <2>1. Pages(layout) = 1
    BY <1>4 DEF Types, LocatedOK, SameChapter
  <2>2. /\ ~section.partial /\ (section.building => renderPc = "build")
        /\ mainPc # "extend" /\ mainPc # "turnPage"
        /\ section.page <= 0 \/ (renderPc = "fit" /\ mainPc \notin InTurn)
    BY <1>1, <1>4, <2>1 DEF OneWhole, OneStill
  <2>3. section.page \in Int /\ section.count \in Nat /\ section'.page \in Int
    BY <1>4, SectionRecord
  <2>4. ~Failed
    BY DEF Failed
  <2>5. CASE RenderPlace
    BY <1>1, <1>2, <2>5, RenderExcuses DEF RenderPlace, TurnAlone, Render
  <2>6. CASE RenderFit
    <3>1. renderPc = "fit" /\ Whole(section)
      BY <2>2, <2>6 DEF RenderFit, Whole
    <3>2. section.count = 1
      BY <1>4, <2>1, <3>1 DEF SectionOK, Types, LocatedOK
    <3>3. section'.page < 1
      BY <2>6, <3>2, FitEffect DEF SameLayout
    <3>4. QED
      BY <1>2, <2>3, <3>3
  <2>7. CASE RenderBuild
    <3>1. section.building /\ renderPc = "build" /\ BuildMore("build")
      BY <1>4, <2>7 DEF RenderBuild
    <3>2. section'.page = section.page
      BY <1>4, <2>4, <3>1, BuildEffect DEF Continued
    <3>3. QED
      BY <1>2, <2>2, <3>1, <3>2
  <2>8. CASE RenderFitStart \/ RenderFitBuild
    BY <2>2, <2>8 DEF RenderFitStart, RenderFitBuild
  <2>9. CASE RenderShow
    BY <1>2, <2>2, <2>4, <2>9, ShowEffect DEF RenderShow
  <2>10. CASE RenderBegin \/ RenderBuilt \/ RenderSave \/ RenderWrite
    BY <1>2, <2>2, <2>10 DEF RenderBegin, RenderBuilt, RenderSave, RenderWrite, place, LockFree
  <2>11. CASE Tick
    BY <1>2, <2>2, <2>4, <2>11, TickEffect DEF Tick, LockFree
  <2>12. CASE Extend \/ TurnLock \/ OpenChapters
    BY <1>2, <2>2, <2>12 DEF Extend, TurnLock, OpenChapters, LockFree, ResetSection
  <2>13. CASE Stays /\ ~Render
    <3>1. UNCHANGED <<section, renderPc>>
      BY <2>13 DEF Stays
    <3>2. renderPc = "fit" /\ mainPc \notin InTurn => mainPc' \notin InTurn
      BY <2>13, MainAlone DEF ExtendTest, TurnLock, TurnTest, vars, mainVars, InTurn, LockFree
    <3>3. QED
      BY <1>2, <2>2, <3>1, <3>2
  <2>14. CASE Leaves
    <3>1. CASE TurnPage
      BY <2>2, <3>1 DEF TurnPage
    <3>2. CASE SkipPage
      BY <1>2, <1>4, <3>2, SkipPageEffect
    <3>3. CASE ReturnFromEnd
      BY <1>2, <2>2, <3>3 DEF ReturnFromEnd, Types, StepsOK
    <3>4. ASSUME NEW s \in Chapters, NEW o \in Anchors, NEW L \in Layouts, GoToBookmark(s, o, L)
          PROVE  section'.page = 0
      <4>1. Whole(section)
        BY <2>2, <3>4 DEF GoToBookmark, LockFree, Whole
      <4>2. Pages(section.layout) = 1
        BY <1>4, <2>1 DEF Types, LocatedOK
      <4>3. QED
        BY <1>4, <3>4, <4>1, <4>2, OneBookmark
    <3>5. QED
      BY <1>2, <2>14, <3>1, <3>2, <3>3, <3>4 DEF Leaves
  <2>15. CASE RenderOpen
    BY <1>3, <2>15
  <2>16. QED
    BY <2>5, <2>6, <2>7, <2>8, <2>9, <2>10, <2>11, <2>12, <2>13, <2>14, <2>15, PlaceSteps DEF Render
<1>5. QED
  BY <1>3, <1>4, SectionSource DEF SameLayout, Continued, Restarted

LEMMA BackDueStep ==
    ASSUME Types, TurnAlone, TurnCleared, OneStill, BackDue, [Next]_vars
    PROVE  BackDue'
<1> SUFFICES ASSUME faults' = MaxFaults, mainPc' = "turnPage", turn'.dir < 0, section' # None
             PROVE  section'.page > 0
  BY DEF BackDue, NoFault
<1>1. NoFault
  BY NoFaultBefore DEF NoFault
<1>2. CASE TurnTest
  <2>1. turn \in TurnsDue
    BY <1>2 DEF TurnTest, Types, ControlOK, InTurn
  <2>2. turn'.dir = turn.dir /\ section' = section
    BY <1>2, <2>1 DEF TurnTest, Panic, TurnsDue
  <2>3. QED
    BY <1>2, <2>1, <2>2 DEF TurnTest, Panic, TurnsDue
<1>3. CASE Render
  <2>1. mainPc = "turnPage" /\ turn.dir < 0
    BY <1>3, RenderExcuses
  <2>2. renderPc \notin {"open", "build", "place"} /\ Cleared /\ ~Failed
    BY <1>1, <2>1 DEF TurnAlone, TurnCleared, InTurn, Failed
  <2>3. section # None /\ SectionOK(section)
    BY <2>2, SectionSource DEF RenderOpen
  <2>4. section.page > 0 /\ section.page \in Int
    BY <1>1, <2>1, <2>3, SectionRecord DEF BackDue
  <2>5. CASE RenderFit
    <3>1. section'.page = IF section.page >= section.count THEN section.count - 1 ELSE section.page
      BY <2>2, <2>5, FitEffect DEF Cleared
    <3>2. section.page >= section.count => section.count > 1
      <4> SUFFICES ASSUME section.page >= section.count PROVE section.count > 1
        OBVIOUS
      <4>1. Whole(section)
        BY <2>5 DEF RenderFit, Short, Whole
      <4>2. section.layout = layout /\ Pages(layout) # 1
        BY <1>1, <2>1, <2>3 DEF OneStill, Types, LocatedOK
      <4>3. QED
        BY <2>3, <4>1, <4>2, SectionRecord DEF SectionOK
    <3>3. section.count \in Nat
      BY <2>3, SectionRecord
    <3>4. QED
      BY <2>4, <3>1, <3>2, <3>3
  <2>6. CASE RenderFitStart
    BY <2>2, <2>4, <2>6, FitStartEffect DEF Restarted
  <2>7. CASE RenderFitBuild
    <3>1. section.building /\ BuildMore("fit")
      BY <2>7 DEF RenderFitBuild
    <3>2. QED
      BY <2>2, <2>3, <2>4, <3>1, BuildEffect DEF Continued
  <2>8. CASE RenderShow
    BY <2>2, <2>4, <2>8, ShowEffect
  <2>9. CASE RenderBegin \/ RenderSave \/ RenderWrite
    BY <2>4, <2>9 DEF RenderBegin, RenderSave, RenderWrite, place
  <2>10. CASE RenderOpen \/ RenderBuild \/ RenderBuilt \/ RenderPlace
    BY <2>2, <2>10 DEF RenderOpen, RenderBuild, RenderBuilt, RenderPlace
  <2>11. QED
    BY <1>3, <2>5, <2>6, <2>7, <2>8, <2>9, <2>10 DEF Render
<1>4. CASE UNCHANGED vars
  BY <1>1, <1>4 DEF vars, mainVars, place, BackDue
<1>5. CASE ExtendTest \/ TurnLock
  BY <1>5 DEF ExtendTest, TurnLock
<1>6. QED
  BY <1>2, <1>3, <1>4, <1>5, MainAlone DEF InTurn

(* A turn that leads nowhere is excused, and there is none but after an SD card failure. *)
LEMMA TurnReal ==
    ASSUME Types, Inside, BackDue, TurnPage, section' # None,
           ~excused' \/ faults' = MaxFaults \/ spine' = Spines
    PROVE  section'.page >= 0
<1>1. section # None
  BY DEF TurnPage, Panic
<1>2. SectionOK(section) /\ section.page \in PageNumbers /\ section.page \in Int
  BY <1>1, SectionRecord DEF Types, SectionInv
<1>3. /\ turn.dir \in {-1, 1} /\ turn.page \in PageNumbers
      /\ turn.dir < 0 => turn.page > 0
  BY DEF TurnPage, Types, ControlOK, TurnsDue, InTurn, TurnBackOK
<1>4. faults' = faults /\ spine' = spine /\ spine < Spines /\ spine \in Int
  BY Located DEF TurnPage, bounds, Inside, InTurn
<1>5. PICK p \in {turn.page, section.page} : PageSet(p + turn.dir)
  BY <1>1 DEF TurnPage, Panic
<1>6. p \in PageNumbers /\ p \in Int
  BY <1>2, <1>3, <1>5 DEF PageNumbers
<1>7. p + turn.dir >= 0
  <2>1. CASE turn.dir = 1
    BY <1>6, <2>1 DEF PageNumbers
  <2>2. CASE turn.dir = -1 /\ NoFault
    <3>1. turn.page > 0 /\ section.page > 0
      BY <1>1, <1>3, <2>2 DEF BackDue, TurnPage
    <3>2. QED
      BY <1>5, <1>6, <2>2, <3>1
  <2>3. CASE turn.dir = -1 /\ ~NoFault
    <3>1. faults < MaxFaults /\ ~excused'
      BY <1>4, <2>3, FaultCounted, Located DEF NoFault
    <3>2. ~(p + turn.dir < 0)
      BY <1>5, <3>1 DEF PageSet
    <3>3. QED
      BY <1>3, <1>6, <3>2
  <2>4. QED
    BY <1>3, <2>1, <2>2, <2>3
<1>8. p + turn.dir \in PageNumbers
  BY <1>3, <1>6, <1>7 DEF PageNumbers
<1>9. QED
  BY <1>2, <1>5, <1>7, <1>8, PageTurned DEF PageSet

LEMMA TurnEnds ==
    ASSUME Types, PartialFilled, TurnTest, spine' # spine
    PROVE  section # None /\ section.page >= 0
<1>1. section # None /\ ~PagesAhead
  BY DEF TurnTest, Panic
<1>2. SectionOK(section) /\ section.page \in Int /\ section.count \in Nat
  BY <1>1, SectionRecord DEF Types, SectionInv
<1>3. ~section.building /\ section.page >= section.count - 1
  BY <1>1, <1>2 DEF PagesAhead
<1>4. section.count > 0
  BY <1>1, <1>2, <1>3, SectionRecord DEF PartialFilled, SectionOK, Whole
<1>5. QED
  BY <1>1, <1>2, <1>3, <1>4

LEMMA PageRealStep ==
    ASSUME Types, Inside, PartialFilled, BackDue, PageReal, [Next]_vars
    PROVE  PageReal'
<1> SUFFICES ASSUME section' # None, ~excused' \/ faults' = MaxFaults \/ spine' = Spines
             PROVE  section'.page >= 0
  BY DEF PageReal, NoFault
<1>1. CASE RenderOpen
  BY <1>1, OpenEffect DEF Failed
<1>2. CASE section # None /\ SectionOK(section) /\ SectionOK(section')
  <2>1. section.page \in Int /\ section'.page \in Int
    BY <1>2, SectionRecord
  <2>2. CASE section.page >= 0
    <3>1. CASE Continued(section', section) \/ Restarted(section', section) \/ section'.page \in Nat \/ UNCHANGED section
      BY <2>2, <3>1 DEF Continued, Restarted
    <3>2. CASE Render
      <4>1. CASE RenderPlace \/ RenderFit \/ RenderShow
        BY <2>1, <2>2, <4>1, PlaceEffect, FitEffect, ShowEffect DEF Failed
      <4>2. CASE RenderBegin \/ RenderBuilt \/ RenderSave \/ RenderWrite
        BY <2>2, <4>2 DEF RenderBegin, RenderBuilt, RenderSave, RenderWrite, place
      <4>3. CASE RenderBuild
        <5>1. section.building /\ BuildMore("build")
          BY <4>3 DEF RenderBuild
        <5>2. QED
          BY <1>2, <2>2, <5>1, BuildEffect DEF Continued, Failed
      <4>4. CASE RenderFitBuild
        <5>1. section.building /\ BuildMore("fit")
          BY <4>4 DEF RenderFitBuild
        <5>2. QED
          BY <1>2, <2>2, <5>1, BuildEffect DEF Continued, Failed
      <4>5. CASE RenderFitStart
        BY <2>2, <4>5, FitStartEffect DEF Restarted, Failed
      <4>6. QED
        BY <1>1, <3>2, <4>1, <4>2, <4>3, <4>4, <4>5 DEF Render
    <3>3. CASE Extend \/ Tick
      BY <2>2, <3>1, <3>3, ExtendEffect, TickEffect DEF Failed
    <3>4. CASE TurnLock \/ OpenChapters
      BY <2>2, <3>4 DEF TurnLock, OpenChapters, ResetSection
    <3>5. CASE Stays
      BY <2>2, <3>5 DEF Stays
    <3>6. CASE Leaves
      <4>1. CASE TurnPage
        BY <4>1, TurnReal
      <4>2. CASE SkipPage
        BY <1>2, <2>1, <4>2, SkipPageEffect
      <4>3. CASE ReturnFromEnd
        BY <2>2, <4>3 DEF ReturnFromEnd
      <4>4. ASSUME NEW s \in Chapters, NEW o \in Anchors, NEW L \in Layouts, GoToBookmark(s, o, L)
            PROVE  section'.page >= 0
        <5>1. section'.page \in Nat
          BY <4>4, BookmarkEffect
        <5>2. QED
          BY <5>1
      <4>5. QED
        BY <3>6, <4>1, <4>2, <4>3, <4>4 DEF Leaves
    <3>7. QED
      BY <3>2, <3>3, <3>4, <3>5, <3>6, PlaceSteps
  <2>3. CASE ~(section.page >= 0)
    <3>1. excused /\ ~NoFault /\ spine # Spines
      BY <1>2, <2>3 DEF PageReal
    <3>2. faults' # MaxFaults
      BY <3>1, NoFaultBefore DEF NoFault
    <3>3. CASE Render
      BY <3>1, <3>2, <3>3, RenderExcuses
    <3>4. CASE Extend \/ TurnLock
      BY <3>1, <3>2, <3>4 DEF Extend, TurnLock, history
    <3>5. CASE Tick
      BY <3>1, <3>2, <3>5 DEF Tick, PlaceLost
    <3>6. CASE OpenChapters
      BY <3>6 DEF OpenChapters, ResetSection
    <3>7. CASE Stays
      BY <2>3, <3>1, <3>2, <3>7, TurnEnds DEF Stays
    <3>8. CASE Leaves
      <4>1. CASE TurnPage
        BY <4>1, TurnReal
      <4>2. CASE SkipPage
        BY <1>2, <2>1, <4>2, SkipPageEffect
      <4>3. CASE ReturnFromEnd
        BY <3>1, <4>3 DEF ReturnFromEnd, Types, StepsOK
      <4>4. ASSUME NEW s \in Chapters, NEW o \in Anchors, NEW L \in Layouts, GoToBookmark(s, o, L)
            PROVE  section'.page >= 0
        <5>1. section'.page \in Nat
          BY <4>4, BookmarkEffect
        <5>2. QED
          BY <5>1
      <4>5. QED
        BY <3>8, <4>1, <4>2, <4>3, <4>4 DEF Leaves
    <3>9. QED
      BY <3>3, <3>4, <3>5, <3>6, <3>7, <3>8, PlaceSteps
  <2>4. QED
    BY <2>2, <2>3
<1>3. QED
  BY <1>1, <1>2, SectionSource

(* What is about to be drawn is there while nothing is turned. *)
LEMMA ShowRealStep ==
    ASSUME Types, Types', Inside, PageReal, ShowReal, [Next]_vars
    PROVE  ShowReal'
<1> SUFFICES ASSUME renderPc' = "show", ~notified', ~excused', spine' < Spines
             PROVE  section'.page \in 0 .. section'.count - 1
  BY DEF ShowReal, InBounds
<1>1. mainPc' \notin {"closed", "chapters"}
  BY DEF Types, StepsOK
<1>2. ~excused
  BY <1>1, ExcusedStep
<1>3. CASE Render
  <2>1. CASE RenderFit
    <3>1. section # None /\ InBounds(section)' = InBounds(section')
      BY <2>1, FitEffect DEF InBounds
    <3>2. InBounds(section')
      BY <1>2, <2>1, <3>1, FitEffect DEF PageReal
    <3>3. QED
      BY <3>2 DEF InBounds
  <2>2. CASE ~RenderFit
    BY <1>3, <2>2 DEF Render, RenderBegin, RenderOpen, RenderBuild, RenderBuilt, RenderPlace, RenderFitStart,
                      RenderFitBuild, RenderShow, RenderSave, RenderWrite, BuildMore
  <2>3. QED
    BY <2>1, <2>2
<1>4. CASE UNCHANGED <<section, renderPc, notified, spine>>
  BY <1>2, <1>4 DEF ShowReal, InBounds
<1>5. CASE Extend \/ Tick \/ TurnLock \/ OpenChapters
  BY <1>5 DEF Extend, Tick, TurnLock, OpenChapters, LockFree, drawVars
<1>6. CASE Stays /\ ~Render
  <2>1. UNCHANGED <<section, renderPc>> /\ renderPc = "show"
    BY <1>6 DEF Stays
  <2>2. UNCHANGED spine
    <3>1. CASE TurnTest
      BY <3>1, Located DEF TurnTest
    <3>2. QED
      BY <1>6, <3>1 DEF Stays
  <2>3. UNCHANGED notified
    BY <2>1, EveryStep DEF Kinds, Begins, LaysOut, Draws, NotesPage, WritesPage, Works, EndTests, EndSaves, EndShows,
         Returns, Chooses, TurnTests, TurnsPage, Jumps, OpensList, SetsStatus, Persists, Closes, Opens, Stutters
  <2>4. QED
    BY <1>4, <2>1, <2>2, <2>3
<1>7. CASE Leaves
  BY <1>1, <1>7 DEF Leaves
<1>8. QED
  BY <1>3, <1>5, <1>6, <1>7, PlaceSteps

LEMMA PageDrawnStep == ASSUME Types, Inside, PageDrawn, [Next]_vars PROVE PageDrawn'
<1> USE DEF PageDrawn
<1>1. CASE Begins \/ LaysOut \/ NotesPage \/ WritesPage
  BY <1>1 DEF Begins, LaysOut, NotesPage, WritesPage
<1>2. CASE Draws
  BY <1>2 DEF Draws, PageScreen
<1>3. CASE Works \/ EndTests \/ EndSaves \/ Returns \/ Chooses \/ TurnTests \/ TurnsPage \/ Stutters
  BY <1>3 DEF Works, EndTests, EndSaves, Returns, Chooses, TurnTests, TurnsPage, Stutters
<1>4. CASE EndShows \/ Closes \/ Opens
  BY <1>4 DEF EndShows, Closes, Opens
<1>5. CASE Jumps \/ OpensList \/ SetsStatus \/ Persists
  BY <1>5 DEF Jumps, OpensList, SetsStatus, Persists
<1>6. QED
  BY EveryStep, <1>1, <1>2, <1>3, <1>4, <1>5 DEF Kinds

(* When nothing is rendered or asked for, what was drawn is still there. *)
LEMMA ScreenKeptStep ==
    ASSUME Types, Types', Inside, ShowReal, PageDrawn, ScreenKept, [Next]_vars
    PROVE  ScreenKept'
<1> DEFINE Away == {"closed", "chapters", "end", "panic"}
<1> SUFFICES ASSUME renderPc' = "idle", ~notified', ~excused', spine' < Spines, mainPc' \notin Away
             PROVE  shown'.kind = "page"
  BY DEF ScreenKept, OnScreen
<1>1. ~excused
  BY ExcusedStep
<1>2. CASE Begins
  BY <1>2, Located DEF Begins
<1>3. CASE LaysOut
  BY <1>3, GivesUp DEF LaysOut
<1>4. CASE Draws
  <2>1. renderPc = "show" /\ UNCHANGED spine
    BY <1>4 DEF Draws
  <2>2. ~InBounds(section)
    BY <2>1, GivesUp
  <2>3. notified
    BY <1>1, <2>1, <2>2 DEF ShowReal
  <2>4. QED
    BY <1>4, <2>3 DEF Draws
<1>5. CASE NotesPage \/ WritesPage
  BY <1>5 DEF NotesPage, WritesPage, PageDrawn
<1>6. CASE Works \/ EndTests \/ EndSaves
  BY <1>1, <1>6 DEF Works, EndTests, EndSaves, ScreenKept, OnScreen
<1>7. CASE Chooses \/ TurnTests \/ TurnsPage \/ Stutters
  BY <1>1, <1>7 DEF Chooses, TurnTests, TurnsPage, Stutters, ScreenKept, OnScreen
<1>8. CASE EndShows \/ Returns \/ Jumps \/ OpensList
  BY <1>8 DEF EndShows, Returns, Jumps, OpensList
<1>9. CASE SetsStatus \/ Persists \/ Closes \/ Opens
  BY <1>1, <1>9 DEF SetsStatus, Persists, Closes, Opens, ScreenKept, OnScreen
<1>10. QED
  BY EveryStep, <1>2, <1>3, <1>4, <1>5, <1>6, <1>7, <1>8, <1>9 DEF Kinds

LEMMA ScreenInit == Init => ScreenOK
BY DEF Init, ScreenOK, TurnCleared, PartialFilled, OneWhole, OneStill, BackDue, PageReal, ShowReal, PageDrawn,
       ScreenKept

LEMMA ScreenStep == Types /\ Types' /\ FollowOK /\ SkipOK /\ ScreenOK /\ [Next]_vars => ScreenOK'
BY TurnClearedStep, PartialFilledStep, OneWholeStep, OneStillStep, BackDueStep, PageRealStep, ShowRealStep,
   PageDrawnStep, ScreenKeptStep DEF ScreenOK, FollowOK, SkipOK

(* When both tasks rest, a page is on the screen unless the SD card failed: no render
   gives up, and none finds its page out of bounds. *)
THEOREM ScreenShown == Spec => []PageShown
<1>1. Init => Types /\ NullOK /\ SkipOK /\ FollowOK /\ ScreenOK
  <2>1. Init => NullOK
    BY DEF Init, NullOK, Uses
  <2>2. QED
    BY <2>1, TypesInit, SkipInit, FollowInit, ScreenInit
<1>2. Types /\ NullOK /\ SkipOK /\ FollowOK /\ ScreenOK /\ [Next]_vars
        => (Types /\ NullOK /\ SkipOK /\ FollowOK /\ ScreenOK)'
  BY TypesStep, NullStep, SkipStep, FollowStep, ScreenStep
<1>3. Types /\ ScreenOK => PageShown
  BY DEF PageShown, Quiet, LockFree, ScreenOK, ScreenKept
<1>4. QED
  BY <1>1, <1>2, <1>3, PTL DEF Spec

====
