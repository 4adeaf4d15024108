-------------------------- MODULE ReaderPlaceProofs --------------------------
(***************************************************************************)
(* Proof that ReaderSession keeps the reader's place: the page on the      *)
(* screen holds the text the reader was at or asked for, through changes   *)
(* of the layout, jumps, and the end of one session and the next.          *)
(*                                                                         *)
(* Until a section is there, the place is what pend and deferred lead to   *)
(* (Leads); from then on it is the page of the section (Placed); between   *)
(* two sessions it is what progress.bin holds (ClosedOK).                  *)
(***************************************************************************)
EXTENDS ReaderSavingProofs

----------------------------------------------------------------------------
(* Offsets and pages. *)

(* Where page p of a layout begins; a page beyond its last is taken for the last. *)
PageOffset(p, L) == Min({p * LenOf[L], Units - 1})

LEMMA QuotientIs ==
    ASSUME NEW a \in Nat, NEW b \in Nat \ {0}, NEW q \in Nat, b * q <= a, a < b * q + b
    PROVE  a \div b = q
<1> DEFINE r == a \div b
<1>1. r \in Nat /\ b * r <= a /\ a < b * r + b
  BY Quotient
<1> HIDE DEF r
<1>2. q < r => b * (q + 1) <= b * r
  BY <1>1
<1>3. r < q => b * (r + 1) <= b * q
  BY <1>1
<1>4. b * (q + 1) = b * q + b /\ b * (r + 1) = b * r + b
  BY <1>1
<1>5. b * q \in Int /\ b * r \in Int
  BY <1>1
<1>6. ~(q < r) /\ ~(r < q)
  BY <1>1, <1>2, <1>3, <1>4, <1>5
<1>7. q = r
  BY <1>1, <1>6
<1>8. QED
  BY <1>7 DEF r

(* The page an offset is on, from the page it was made from. *)
LEMMA PageOfOffset ==
    ASSUME NEW L \in Layouts, NEW p \in Nat
    PROVE  /\ PageOffset(p, L) \in 0 .. Units - 1
           /\ PageOffset(p, L) \div LenOf[L] = Min({p, Pages(L) - 1})
           /\ p < Pages(L) => PageOffset(p, L) = p * LenOf[L]
<1> DEFINE n == LenOf[L]
           m == Pages(L)
<1>1. n \in Nat \ {0} /\ m \in Nat /\ m > 0 /\ n * m = Units /\ Units \in Nat \ {0}
  BY PagesOfLayout, ReaderAssumption
<1>2. PageOffset(p, L) = IF p * n <= Units - 1 THEN p * n ELSE Units - 1
  <2>1. p * n \in Int /\ Units - 1 \in Int
    BY <1>1
  <2> HIDE DEF n
  <2>2. Min({p * n, Units - 1}) = IF p * n <= Units - 1 THEN p * n ELSE Units - 1
    BY <2>1, MinOfTwo
  <2>3. QED
    BY <2>2 DEF PageOffset, n
<1>3. Min({p, Pages(L) - 1}) = IF p <= m - 1 THEN p ELSE m - 1
  BY <1>1, MinOfTwo
<1> HIDE DEF n, m
<1>4. CASE p <= m - 1
  <2>1. n * (m - 1) = Units - n
    BY <1>1
  <2>2. n * p <= n * (m - 1)
    BY <1>1, <1>4
  <2>3. p * n \in Nat /\ p * n <= Units - 1 /\ n * p = p * n
    BY <1>1, <2>1, <2>2
  <2>4. (p * n) \div n = p
    BY <1>1, <2>3, QuotientIs
  <2>5. QED
    BY <1>1, <1>2, <1>3, <1>4, <2>3, <2>4 DEF n, m
<1>5. CASE ~(p <= m - 1)
  <2>1. m <= p
    BY <1>1, <1>5
  <2>2. n * m <= n * p
    BY <1>1, <2>1
  <2>3. p * n \in Nat /\ p * n >= Units /\ n * p = p * n
    BY <1>1, <2>2
  <2>4. n * (m - 1) = Units - n
    BY <1>1
  <2>5. (Units - 1) \div n = m - 1
    <3>1. Units - 1 \in Nat /\ m - 1 \in Nat /\ n * (m - 1) <= Units - 1 /\ Units - 1 < n * (m - 1) + n
      BY <1>1, <2>4
    <3>2. QED
      BY <1>1, <3>1, QuotientIs
  <2>6. QED
    BY <1>1, <1>2, <1>3, <1>5, <2>1, <2>3, <2>5 DEF n, m
<1>6. QED
  BY <1>4, <1>5

(* The last unit of a chapter is on its last page. *)
LEMMA LastPage ==
    ASSUME NEW L \in Layouts
    PROVE  (Units - 1) \div LenOf[L] = Pages(L) - 1 /\ Units - 1 \in 0 .. Units - 1
<1> DEFINE n == LenOf[L]
           m == Pages(L)
<1>1. n \in Nat \ {0} /\ m \in Nat /\ m > 0 /\ n * m = Units /\ Units \in Nat \ {0}
  BY PagesOfLayout, ReaderAssumption
<1> HIDE DEF n, m
<1>2. n * (m - 1) = Units - n
  BY <1>1
<1>3. Units - 1 \in Nat /\ m - 1 \in Nat /\ n * (m - 1) <= Units - 1 /\ Units - 1 < n * (m - 1) + n
  BY <1>1, <1>2
<1>4. (Units - 1) \div n = m - 1
  BY <1>1, <1>3, QuotientIs
<1>5. QED
  BY <1>3, <1>4 DEF n, m

(* Any other offset is on a page of the layout, which a percentage of its pages gives too. *)
LEMMA PageOfUnit ==
    ASSUME NEW L \in Layouts, NEW o \in 0 .. Units - 1
    PROVE  /\ o \div LenOf[L] \in 0 .. Pages(L) - 1
           /\ (o * Pages(L)) \div Units = o \div LenOf[L]
           /\ LenOf[L] * (o \div LenOf[L]) <= o
           /\ o <= LenOf[L] * (o \div LenOf[L]) + LenOf[L] - 1
<1> DEFINE n == LenOf[L]
           m == Pages(L)
           q == o \div n
<1>1. n \in Nat \ {0} /\ m \in Nat /\ m > 0 /\ n * m = Units /\ Units \in Nat \ {0}
  BY PagesOfLayout, ReaderAssumption
<1>2. o \in Nat /\ o < Units
  BY <1>1
<1> HIDE DEF n, m
<1>3. q \in Nat /\ n * q <= o /\ o < n * q + n
  BY <1>1, <1>2, Quotient
<1> HIDE DEF q
<1>4. q < m
  <2>1. m <= q => n * m <= n * q
    BY <1>1, <1>3
  <2>2. n * q \in Int
    BY <1>1, <1>3
  <2>3. QED
    BY <1>1, <1>2, <1>3, <2>1, <2>2
<1>5. (o * m) \div Units = q
  <2> DEFINE s == n * q
  <2>1. s \in Nat /\ s <= o /\ o + 1 <= s + n
    BY <1>1, <1>2, <1>3
  <2> HIDE DEF s
  <2>2. s * m <= o * m /\ (o + 1) * m <= (s + n) * m
    BY <1>1, <1>2, <2>1
  <2>3. (o + 1) * m = o * m + m /\ (s + n) * m = s * m + n * m
    BY <1>1, <1>2, <2>1
  <2>4. s * m = Units * q
    <3>1. (n * q) * m = (n * m) * q
      BY <1>1, <1>3
    <3>2. QED
      BY <1>1, <3>1 DEF s
  <2>5. o * m \in Nat /\ s * m \in Nat
    BY <1>1, <1>2, <2>1
  <2>6. Units * q <= o * m /\ o * m < Units * q + Units
    BY <1>1, <2>2, <2>3, <2>4, <2>5
  <2>7. QED
    BY <1>1, <1>3, <2>5, <2>6, QuotientIs
<1>6. QED
  BY <1>1, <1>2, <1>3, <1>4, <1>5 DEF q, n, m

----------------------------------------------------------------------------
(* Steps that leave the place alone, and what little else there is. *)
Holds ==
    /\ UNCHANGED <<layout, cache, section, deferred, pend, renderPc, spine, goal, excused, stale>>
    /\ mainPc' = "closed" <=> mainPc = "closed"

Handlers ==
    \/ \E L \in Layouts : Relayout(L)
    \/ OpenChapters
    \/ \E s \in Chapters : ChooseChapter(s)
    \/ \E s \in Chapters, o \in Anchors : JumpToPercent(s, o) \/ Footnote(s, o)
    \/ \E s \in Chapters, o \in Anchors, L \in Layouts : GoToBookmark(s, o, L)
    \/ RestoreSavedPosition
Moves ==
    \/ TurnLock \/ TurnTest \/ TurnChapter \/ SkipNext \/ SkipChapter \/ ReturnFromEnd
    \/ (TurnPage \/ SkipPage) /\ section # None
    \/ Handlers
    \/ DeleteCache \/ Leave \/ Reboot
    \/ \E L \in Layouts : Open(L)

LEMMA HoldSteps ==
    ASSUME Types, [Next]_vars
    PROVE  Render \/ Extend \/ Tick \/ Moves \/ Holds
<1>1. CASE ExtendTest \/ TickTest
  BY <1>1 DEF ExtendTest, TickTest, Holds, Idle, place, drawVars, history
<1>2. CASE EndTest \/ EndSave \/ EndPush \/ EndReset
  <2>1. CASE EndTest
    BY <2>1 DEF EndTest, Holds, Idle, place, drawVars
  <2>2. CASE EndSave
    BY <2>2 DEF EndSave, Holds, place, drawVars
  <2>3. CASE EndPush
    BY <2>3 DEF EndPush, Holds, place, history
  <2>4. CASE EndReset
    BY <2>4 DEF EndReset, Holds, place, drawVars, history, mainVars
  <2>5. QED
    BY <1>2, <2>1, <2>2, <2>3, <2>4
<1>3. CASE Turns
  <2>1. ASSUME NEW dir \in {-1, 1}, PressTurn(dir) PROVE Holds
    BY <2>1 DEF PressTurn, Chosen, Ready, Idle, Holds, place, drawVars, history
  <2>2. CASE QueuedTurn
    BY <2>2 DEF QueuedTurn, Chosen, Ready, Idle, Holds, place, drawVars, history
  <2>3. CASE SkipForward \/ SkipBack
    BY <2>3 DEF SkipForward, SkipBack, Ready, Idle, Holds, place, drawVars, history
  <2>4. CASE (TurnPage \/ SkipPage) /\ section = None
    <3>1. UNCHANGED <<layout, cache, spine, pend, deferred, stale>> /\ UNCHANGED renderPc
      BY <2>4 DEF TurnPage, SkipPage, drawVars
    <3>2. UNCHANGED <<section, goal, excused>> /\ mainPc' = "panic" /\ mainPc # "closed"
      BY <2>4 DEF TurnPage, SkipPage, Panic
    <3>3. QED
      BY <3>1, <3>2 DEF Holds
  <2>5. QED
    BY <1>3, <2>1, <2>2, <2>3, <2>4 DEF Turns, Moves
<1>4. CASE Menus
  <2>1. CASE CancelChapters
    BY <2>1 DEF CancelChapters, Holds, place, drawVars
  <2>2. ASSUME NEW st \in ManualStatuses, SetStatus(st) PROVE Holds
    BY <2>2 DEF SetStatus, Ready, Idle, Holds, place, drawVars
  <2>3. CASE Persist
    BY <2>3 DEF Persist, Panic, Holds, place, drawVars
  <2>4. QED
    BY <1>4, <2>1, <2>2, <2>3 DEF Menus, Moves, Handlers
<1>5. CASE UNCHANGED vars
  BY <1>5 DEF vars, Holds, place, drawVars, history, mainVars
<1>6. QED
  BY <1>1, <1>2, <1>3, <1>4, <1>5 DEF Next, Background, End, Sessions, Moves

----------------------------------------------------------------------------
(* What the place rests on. *)
Opening == renderPc \in {"build", "place"}
Waiting == section = None \/ Opening
Aside   == pend.percent # None \/ pend.anchor # None \/ pend.offset # None

(* A jump inside a chapter leaves nothing deferred, and waits for its section. *)
AsideOK == Aside => Cleared /\ Waiting
(* What pend holds, when a section is there or the book has ended, is not of its last jump. *)
LeftStale == ~Opening /\ (section # None \/ spine = Spines) /\ Leftover => stale
(* The file of the chapter is of the section's layout. *)
CacheOf == section # None => cache[section.spine].layout = section.layout

(* The steps of render(), by what they do to the place. *)
LosesPlace ==
    /\ section' = None /\ renderPc' = "idle" /\ excused' /\ stale' = (stale \/ Leftover)
    /\ UNCHANGED pend /\ deferred' \in {deferred, NoDeferred(deferred)}
GoesOn ==
    /\ UNCHANGED <<pend, goal, excused, stale>> /\ renderPc # "place"
    /\ \/ RenderOpen /\ section' # None /\ renderPc' \in {"build", "place"}
       \/ RenderBuild /\ section' # None /\ renderPc' = "build" /\ UNCHANGED deferred
       \/ RenderBuilt /\ UNCHANGED <<section, cache, deferred>> /\ renderPc' = "place"
       \/ ~Opening /\ renderPc' \in {"idle", "open", "fit", "show", "save", "write"}
          /\ \/ RenderBegin /\ UNCHANGED <<section, cache, deferred>>
             \/ (RenderFitStart \/ RenderFitBuild) /\ section' # None /\ UNCHANGED deferred
             \/ RenderFit /\ deferred' \in {deferred, NoDeferred(deferred)} /\ UNCHANGED cache
             \/ RenderShow /\ UNCHANGED <<section, cache, deferred>>
             \/ (RenderSave \/ RenderWrite) /\ UNCHANGED <<section, cache, deferred>>

LEMMA RenderMoves ==
    ASSUME Types, Render
    PROVE  /\ LosesPlace \/ GoesOn \/ RenderPlace
           /\ UNCHANGED <<layout, spine, goal, mainPc>>
<1> USE DEF Types, StepsOK
<1>1. CASE RenderBegin
  BY <1>1 DEF RenderBegin, GoesOn, Opening, LockFree, place, history, mainVars
<1>2. CASE RenderOpen
  <2>1. /\ UNCHANGED <<layout, spine, goal, mainPc, pend>>
        /\ deferred' \in {deferred, NoDeferred(deferred)} /\ renderPc = "open"
    BY <1>2 DEF RenderOpen, mainVars
  <2>2. \/ section' # None /\ renderPc' \in {"build", "place"} /\ UNCHANGED <<excused, stale>>
        \/ section' = None /\ renderPc' = "idle" /\ PlaceLost
    <3>1. NewSection(spine) # None /\ (renderPc' = "build" => section' # None)
      BY <1>2, <2>1, Located, OpenEffect, NewSectionOK, NoneAssumption DEF Failed
    <3>2. QED
      BY <1>2, <3>1 DEF RenderOpen
  <2>3. QED
    BY <1>2, <2>1, <2>2 DEF LosesPlace, GoesOn, PlaceLost
<1>3. ASSUME NEW pc \in {"build", "fit"}, section.building, BuildMore(pc), RenderUnchanged, renderPc = pc,
             UNCHANGED <<pend, deferred>>
      PROVE  /\ UNCHANGED <<layout, spine, goal, mainPc>>
             /\ \/ section' # None /\ renderPc' = pc /\ UNCHANGED <<excused, stale>>
                \/ LosesPlace
  <2>1. UNCHANGED <<layout, spine, goal, mainPc>>
    BY <1>3 DEF RenderUnchanged, mainVars
  <2>2. section # None /\ SectionOK(section)
    BY <1>3 DEF SectionInv
  <2>3. Advanced(section) # None
    BY <1>3, <2>2, AdvancedOK, SectionRecord
  <2>4. QED
    BY <1>3, <2>1, <2>3 DEF BuildMore, LosesPlace, PlaceLost
<1>4. CASE RenderBuild
  BY <1>3, <1>4 DEF RenderBuild, GoesOn
<1>5. CASE RenderBuilt
  BY <1>5 DEF RenderBuilt, GoesOn, place, history, mainVars
<1>6. CASE RenderPlace
  BY <1>6 DEF RenderPlace, RenderUnchanged, mainVars
<1>7. CASE RenderFitStart
  <2>1. UNCHANGED <<layout, spine, goal, mainPc, pend, deferred>> /\ renderPc = "fit"
    BY <1>7 DEF RenderFitStart, RenderUnchanged, mainVars
  <2>2. section' # None \/ Failed
    BY <1>7, FitStartEffect DEF Restarted, SameChapter
  <2>3. QED
    BY <1>7, <2>1, <2>2, FaultCounted DEF RenderFitStart, PlaceLost, GoesOn, LosesPlace, Opening, Failed
<1>8. CASE RenderFitBuild
  BY <1>3, <1>8 DEF RenderFitBuild, GoesOn, Opening
<1>9. CASE RenderFit
  BY <1>9 DEF RenderFit, RenderUnchanged, mainVars, GoesOn, Opening
<1>10. CASE RenderShow
  <2>1. UNCHANGED <<layout, spine, goal, mainPc, pend, deferred>> /\ renderPc = "show"
    BY <1>10 DEF RenderShow, mainVars
  <2>2. QED
    BY <1>10, <2>1 DEF RenderShow, PlaceLost, GoesOn, LosesPlace, Opening
<1>11. CASE RenderSave
  BY <1>11 DEF RenderSave, mainVars, place, GoesOn, Opening
<1>12. CASE RenderWrite
  BY <1>12 DEF RenderWrite, mainVars, place, GoesOn, Opening
<1>13. QED
  BY <1>1, <1>2, <1>4, <1>5, <1>6, <1>7, <1>8, <1>9, <1>10, <1>11, <1>12 DEF Render

(* A jump waits for its section. *)
LEMMA AsideStep == ASSUME Types, AsideOK, [Next]_vars PROVE AsideOK'
<1> SUFFICES ASSUME Aside' PROVE Cleared' /\ Waiting'
  BY DEF AsideOK
<1>0. /\ NoDeferred(deferred).offset = None /\ NoDeferred(deferred).total = 0
      /\ Cleared /\ deferred' \in {deferred, NoDeferred(deferred)} => Cleared'
  BY NoDeferredOK DEF Types, PlaceOK, Cleared
<1>1. CASE Render
  <2>1. CASE LosesPlace
    BY <1>0, <2>1 DEF LosesPlace, AsideOK, Aside, Waiting
  <2>2. CASE GoesOn
    <3>1. Aside /\ Cleared /\ Waiting
      BY <2>2 DEF GoesOn, AsideOK, Aside
    <3>2. CASE RenderOpen
      BY <1>0, <3>1, <3>2 DEF RenderOpen, Waiting, Opening
    <3>3. CASE RenderBuild \/ RenderBuilt
      BY <1>0, <2>2, <3>1, <3>3 DEF GoesOn, Waiting, Opening, RenderBuild, RenderBuilt, place
    <3>4. CASE ~Opening /\ ~RenderOpen
      <4>1. section = None
        BY <3>1, <3>4 DEF Waiting
      <4>2. renderPc \notin {"build", "fit", "show", "save", "write"}
        BY <3>4, <4>1 DEF Opening, Types, StepsOK
      <4>3. RenderBegin /\ UNCHANGED <<section, cache, deferred>>
        BY <1>1, <2>2, <3>4, <4>2 DEF GoesOn, RenderBuild, RenderBuilt, RenderFitStart, RenderFitBuild,
           RenderFit, RenderShow, RenderSave, RenderWrite
      <4>4. QED
        BY <1>0, <3>1, <4>1, <4>3 DEF Waiting
    <3>5. QED
      BY <1>1, <2>2, <3>2, <3>3, <3>4 DEF GoesOn
  <2>3. CASE RenderPlace
    BY <2>3 DEF RenderPlace, Aside, NoPend
  <2>4. QED
    BY <1>1, <2>1, <2>2, <2>3, RenderMoves
<1>2. CASE Extend \/ Tick
  <2>1. LockFree /\ UNCHANGED pend
    BY <1>2 DEF Extend, Tick
  <2>2. section = None /\ Cleared
    BY <2>1 DEF AsideOK, Aside, Waiting, Opening, LockFree
  <2>3. UNCHANGED <<section, deferred>>
    BY <1>2, <2>2 DEF Extend, Tick
  <2>4. QED
    BY <2>2, <2>3 DEF Waiting, Cleared
<1>3. CASE TurnLock
  BY <1>0, <1>3 DEF TurnLock, AsideOK, Aside, Waiting, Opening, Cleared, drawVars
<1>4. CASE TurnTest
  BY <1>4 DEF TurnTest, AsideOK, Aside, Waiting, Opening, Cleared, drawVars
<1>5. CASE TurnChapter \/ SkipNext \/ SkipChapter
  <2>1. section' = None /\ UNCHANGED deferred /\ Aside
    BY <1>5 DEF TurnChapter, SkipNext, SkipChapter, ToChapter, Aside, Types, PlaceOK, Pends
  <2>2. QED
    BY <1>0, <2>1 DEF AsideOK, Waiting
<1>6. CASE ReturnFromEnd
  <2>1. UNCHANGED <<section, deferred, renderPc>> /\ Aside
    BY <1>6 DEF ReturnFromEnd, drawVars, Aside, Types, PlaceOK, Pends
  <2>2. QED
    BY <2>1 DEF AsideOK, Waiting, Opening, Cleared
<1>7. CASE (TurnPage \/ SkipPage) /\ section # None
  <2>1. UNCHANGED <<pend, deferred, renderPc>> /\ Aside /\ Opening
    BY <1>7 DEF TurnPage, SkipPage, drawVars, AsideOK, Aside, Waiting
  <2>2. QED
    BY <2>1 DEF AsideOK, Waiting, Opening, Cleared
<1>8. ASSUME NEW L \in Layouts, Relayout(L) PROVE Cleared' /\ Waiting'
  <2>1. section' = None /\ LockFree /\ Aside
    BY <1>8 DEF Relayout, ResetSection, Aside, Types, PlaceOK, Pends
  <2>2. section = None /\ Cleared
    BY <2>1 DEF AsideOK, Waiting, Opening, LockFree
  <2>3. UNCHANGED deferred
    BY <1>8, <2>2 DEF Relayout, Remembered
  <2>4. QED
    BY <2>1, <2>2, <2>3 DEF Waiting, Cleared
<1>9. CASE OpenChapters
  <2>1. section' = None /\ LockFree /\ Aside
    BY <1>9 DEF OpenChapters, ResetSection, Aside, Types, PlaceOK, Pends
  <2>2. section = None /\ Cleared
    BY <2>1 DEF AsideOK, Waiting, Opening, LockFree
  <2>3. UNCHANGED deferred
    BY <1>9, <2>2 DEF OpenChapters, Remembered
  <2>4. QED
    BY <2>1, <2>2, <2>3 DEF Waiting, Cleared
<1>10. ASSUME NEW s \in Chapters, ChooseChapter(s) PROVE Cleared' /\ Waiting'
  BY <1>0, <1>10 DEF ChooseChapter, Types, StepsOK, Waiting, Cleared
<1>11. ASSUME NEW s \in Chapters, NEW o \in Anchors, JumpToPercent(s, o) \/ Footnote(s, o) PROVE Cleared' /\ Waiting'
  BY <1>0, <1>11 DEF JumpToPercent, Footnote, ResetSection, Waiting, Cleared
<1>12. ASSUME NEW s \in Chapters, NEW o \in Anchors, NEW L \in Layouts, GoToBookmark(s, o, L) PROVE Cleared' /\ Waiting'
  <2>1. Cleared' /\ LockFree
    BY <1>0, <1>12 DEF GoToBookmark, Cleared
  <2>2. CASE section # None /\ spine = s
    <3>1. Aside
      BY <1>12, <2>2 DEF GoToBookmark, Aside
    <3>2. QED
      BY <2>1, <2>2, <3>1 DEF AsideOK, Waiting, Opening, LockFree
  <2>3. CASE ~(section # None /\ spine = s)
    BY <1>12, <2>1, <2>3 DEF GoToBookmark, ResetSection, Waiting
  <2>4. QED
    BY <2>2, <2>3
<1>13. CASE RestoreSavedPosition
  BY <1>0, <1>13 DEF RestoreSavedPosition, ResetSection, Waiting, Cleared
<1>14. CASE DeleteCache \/ Leave \/ Reboot
  BY <1>14 DEF DeleteCache, Leave, Reboot, Closed, AsideOK, Aside, Waiting, Cleared
<1>15. ASSUME NEW L \in Layouts, Open(L) PROVE Cleared' /\ Waiting'
  BY <1>15 DEF Open, Aside, NoPend
<1>16. CASE Holds
  BY <1>16 DEF Holds, AsideOK, Aside, Waiting, Opening, Cleared
<1>17. QED
  BY <1>1, <1>2, <1>3, <1>4, <1>5, <1>6, <1>7, <1>8, <1>9, <1>10, <1>11, <1>12, <1>13, <1>14, <1>15, <1>16,
     HoldSteps DEF Moves, Handlers

LEMMA LeftStep == ASSUME Types, AsideOK, LeftStale, [Next]_vars PROVE LeftStale'
<1> SUFFICES ASSUME ~Opening', section' # None \/ spine' = Spines, Leftover' PROVE stale'
  BY DEF LeftStale
<1>1. CASE Render
  <2>1. CASE LosesPlace
    BY <2>1 DEF LosesPlace, Leftover
  <2>2. CASE GoesOn
    <3>1. CASE ~Opening /\ ~RenderOpen
      <4>1. section # None \/ spine = Spines
        BY <1>1, <2>2, <3>1, RenderMoves DEF GoesOn, Types, StepsOK, RenderBegin, RenderFitStart, RenderFitBuild,
          RenderFit, RenderShow, RenderSave, RenderWrite, Opening
      <4>2. QED
        BY <2>2, <3>1, <4>1 DEF GoesOn, LeftStale, Leftover
    <3>2. CASE RenderOpen
      BY <3>2, Located DEF RenderOpen, PlaceLost, Opening, Leftover
    <3>3. QED
      BY <1>1, <2>2, <3>1, <3>2, RenderMoves DEF GoesOn, Opening, RenderBuild, RenderBuilt
  <2>3. CASE RenderPlace
    BY <2>3 DEF RenderPlace, Leftover, NoPend
  <2>4. QED
    BY <1>1, <2>1, <2>2, <2>3, RenderMoves
<1>2. CASE Extend
  BY <1>2 DEF Extend, LeftStale, Leftover, Opening, history, drawVars, LockFree
<1>3. CASE Tick
  BY <1>3 DEF Tick, PlaceLost, LeftStale, Leftover, Opening, drawVars, LockFree
<1>4. CASE TurnLock
  BY <1>4 DEF TurnLock, LeftStale, Leftover, Opening, drawVars, history
<1>5. CASE TurnTest
  <2>1. UNCHANGED <<section, pend, stale, renderPc>> /\ (spine' = spine \/ section # None)
    BY <1>5 DEF TurnTest, Panic, drawVars
  <2>2. QED
    BY <2>1 DEF LeftStale, Leftover, Opening
<1>6. CASE TurnChapter
  <2>1. spine' \in Chapters /\ section' = None
    BY <1>6 DEF TurnChapter, ToChapter, Types, StepsOK
  <2>2. QED
    BY <2>1, Located
<1>7. CASE SkipNext \/ SkipChapter
  <2>1. pend' = [pend EXCEPT !.next = 0, !.last = pend.last \/ FALSE] /\ stale' = (stale \/ Leftover)
    BY <1>7 DEF SkipNext, SkipChapter, ToChapter
  <2>2. pend'.anchor = pend.anchor /\ pend'.offset = pend.offset /\ pend'.percent = pend.percent
    BY <2>1 DEF Types, PlaceOK, Pends
  <2>3. pend'.last => pend.last
    BY <2>1 DEF Types, PlaceOK, Pends
  <2>4. QED
    BY <2>1, <2>2, <2>3 DEF Leftover
<1>8. CASE ReturnFromEnd
  <2>1. spine' = Spines - 1 /\ stale' = (stale \/ section # None) /\ UNCHANGED section
    BY <1>8 DEF ReturnFromEnd
  <2>2. section # None
    BY <2>1, Located
  <2>3. stale' = TRUE
    BY <2>1, <2>2
  <2>4. QED
    BY <2>3
<1>9. CASE (TurnPage \/ SkipPage) /\ section # None
  <2>1. UNCHANGED <<pend, renderPc, stale>>
    BY <1>9 DEF TurnPage, SkipPage, drawVars
  <2>2. QED
    BY <1>9, <2>1 DEF LeftStale, Leftover, Opening
<1>10. ASSUME NEW L \in Layouts, Relayout(L) PROVE FALSE
  BY <1>10, Located DEF Relayout, ResetSection, Ready
<1>11. CASE OpenChapters
  BY <1>11, Located DEF OpenChapters, ResetSection, Ready
<1>12. ASSUME NEW s \in Chapters, ChooseChapter(s) PROVE FALSE
  BY <1>12, Located DEF ChooseChapter, Types, StepsOK
<1>13. ASSUME NEW s \in Chapters, NEW o \in Anchors, JumpToPercent(s, o) \/ Footnote(s, o) PROVE FALSE
  BY <1>13, Located DEF JumpToPercent, Footnote, ResetSection
<1>14. ASSUME NEW s \in Chapters, NEW o \in Anchors, NEW L \in Layouts, GoToBookmark(s, o, L) PROVE stale'
  <2>1. stale' = (stale \/ Leftover) /\ LockFree
    BY <1>14 DEF GoToBookmark
  <2>2. CASE section # None /\ spine = s
    BY <1>14, <2>1, <2>2 DEF GoToBookmark, Leftover
  <2>3. CASE ~(section # None /\ spine = s)
    BY <1>14, <2>3, Located DEF GoToBookmark, ResetSection
  <2>4. QED
    BY <2>2, <2>3
<1>15. CASE RestoreSavedPosition
  <2>1. section' = None /\ stale' = (stale \/ Leftover) /\ pend' = [pend EXCEPT !.next = origin[Len(origin)].page]
    BY <1>15 DEF RestoreSavedPosition, ResetSection
  <2>2. Leftover' => Leftover
    BY <2>1 DEF Leftover, Types, PlaceOK, Pends
  <2>3. QED
    BY <2>1, <2>2
<1>16. CASE DeleteCache \/ Leave \/ Reboot
  <2>1. UNCHANGED <<pend, stale, renderPc, spine>> /\ section' = None
    BY <1>16 DEF DeleteCache, Leave, Reboot, Closed
  <2>2. LockFree
    BY <1>16 DEF DeleteCache, Leave, Reboot
  <2>3. QED
    BY <2>1, <2>2, Located DEF LeftStale, Leftover, Opening, LockFree
<1>17. ASSUME NEW L \in Layouts, Open(L) PROVE FALSE
  <2>1. ~Leftover'
    BY <1>17 DEF Open, Leftover, NoPend
  <2>2. QED
    BY <2>1
<1>18. CASE Holds
  BY <1>18 DEF Holds, LeftStale, Leftover, Opening
<1>19. QED
  BY <1>1, <1>2, <1>3, <1>4, <1>5, <1>6, <1>7, <1>8, <1>9, <1>10, <1>11, <1>12, <1>13, <1>14, <1>15, <1>16,
     <1>17, <1>18, HoldSteps DEF Moves, Handlers

LEMMA DisposedLayout ==
    ASSUME Types, section # None, CacheOf
    PROVE  Dispose(cache)[section.spine].layout = section.layout
<1>1. section.spine \in Chapters
  BY Located
<1>2. File(section, section.built).layout = section.layout
  BY DEF File
<1>3. CASE section.building /\ (~section.partial \/ section.built = section.count)
  BY <1>1, <1>2, <1>3 DEF Dispose, Types, CacheOK
<1>4. CASE ~(section.building /\ (~section.partial \/ section.built = section.count))
  BY <1>4 DEF Dispose, CacheOf
<1>5. QED
  BY <1>3, <1>4

LEMMA CacheOfStep == ASSUME Types, CacheOf, [Next]_vars PROVE CacheOf'
<1> SUFFICES ASSUME section' # None PROVE cache'[section'.spine].layout = section'.layout
  BY DEF CacheOf
<1>0. section # None => /\ section.spine \in Chapters /\ section.layout \in Layouts
                        /\ cache[section.spine].layout = section.layout
                        /\ \A n : File(section, n).layout = section.layout
  BY SectionRecord DEF CacheOf, File, Types, SectionInv
<1>1. CASE RenderOpen
  <2>1. section' = NewSection(spine) \/ section' = Started(NewSection(spine))
    BY <1>1 DEF RenderOpen
  <2>2. spine \in Chapters
    BY <1>1, Located DEF RenderOpen, Types, StepsOK
  <2>3. section'.spine = spine /\ section'.layout = layout
    BY <2>1, <2>2, NewSectionOK, StartedOK DEF Types
  <2>4. cache' = IF Loaded(spine) THEN cache ELSE [cache EXCEPT ![spine] = [layout |-> layout, pages |-> 0]]
    BY <1>1 DEF RenderOpen
  <2>5. cache'[spine].layout = layout
    BY <2>2, <2>4 DEF Loaded, Types, CacheOK
  <2>6. QED
    BY <2>3, <2>5
<1>2. ASSUME NEW pc, section.building, BuildMore(pc), section # None PROVE cache'[section'.spine].layout = section'.layout
  <2>1. /\ section' = Advanced(section)
        /\ cache' = IF section'.building THEN cache
                    ELSE [cache EXCEPT ![section.spine] = File(section, section'.count)]
    BY <1>2 DEF BuildMore
  <2>2. section'.spine = section.spine /\ section'.layout = section.layout
    BY <1>2, <2>1, AdvancedOK DEF Types, SectionInv
  <2>3. QED
    BY <1>0, <1>2, <2>1, <2>2 DEF Types, CacheOK
<1>3. CASE RenderBuild \/ RenderFitBuild
  BY <1>2, <1>3 DEF RenderBuild, RenderFitBuild, Types, StepsOK
<1>4. CASE Tick
  <2>1. CASE UNCHANGED <<cache, section>>
    BY <2>1 DEF CacheOf
  <2>2. CASE section # None /\ section.building
    <3> DEFINE sec == Advanced(section)
    <3>1. /\ section' = Repositioned(sec)
          /\ cache' = IF sec.building THEN cache ELSE [cache EXCEPT ![sec.spine] = File(sec, sec.count)]
      BY <1>4, <2>2 DEF Tick, Panic
    <3>2. SectionOK(sec) /\ sec.spine = section.spine /\ sec.layout = section.layout
      BY <2>2, AdvancedOK DEF Types, SectionInv
    <3> HIDE DEF sec
    <3>3. section'.spine = section.spine /\ section'.layout = section.layout
      BY <3>1, <3>2, RepositionedOK DEF Types, PlaceOK, Deferreds
    <3>4. File(sec, sec.count).layout = section.layout
      BY <3>2 DEF File
    <3>5. QED
      BY <1>0, <2>2, <3>1, <3>2, <3>3, <3>4 DEF Types, CacheOK
  <2>3. QED
    BY <1>4, <2>1, <2>2 DEF Tick
<1>5. CASE UNCHANGED cache /\ section # None /\ SectionOK(section)
  <2>1. ~RenderOpen => section'.spine = section.spine /\ section'.layout = section.layout
    BY <1>5, SectionSource DEF SameLayout, SameChapter, Continued, Restarted
  <2>2. QED
    BY <1>0, <1>1, <1>5, <2>1
<1>6. CASE Render
  <2>1. CASE RenderPlace \/ RenderFitStart \/ RenderFit \/ RenderShow
    <3>1. UNCHANGED cache
      BY <2>1 DEF RenderPlace, RenderFitStart, RenderFit, RenderShow
    <3>2. QED
      BY <1>1, <1>5, <3>1, SectionSource
  <2>2. CASE RenderBegin \/ RenderBuilt \/ RenderSave \/ RenderWrite
    BY <2>2 DEF RenderBegin, RenderBuilt, RenderSave, RenderWrite, place, CacheOf
  <2>3. QED
    BY <1>1, <1>3, <1>6, <2>1, <2>2 DEF Render
<1>7. CASE Extend \/ TurnLock \/ TurnTest \/ ReturnFromEnd \/ Holds \/ ((TurnPage \/ SkipPage) /\ section # None)
  <2>1. UNCHANGED cache
    BY <1>7 DEF Extend, TurnLock, TurnTest, ReturnFromEnd, Holds, TurnPage, SkipPage
  <2>2. QED
    BY <1>1, <1>5, <2>1, SectionSource
<1>8. CASE TurnChapter \/ SkipNext \/ SkipChapter
  BY <1>8 DEF TurnChapter, SkipNext, SkipChapter, ToChapter
<1>9. CASE RestoreSavedPosition \/ OpenChapters
  BY <1>9 DEF RestoreSavedPosition, OpenChapters, ResetSection
<1>10. ASSUME NEW L \in Layouts, Relayout(L) PROVE FALSE
  BY <1>10 DEF Relayout, ResetSection
<1>11. ASSUME NEW s \in Chapters, ChooseChapter(s) PROVE FALSE
  BY <1>11 DEF ChooseChapter, Types, StepsOK
<1>12. ASSUME NEW s \in Chapters, NEW o \in Anchors, JumpToPercent(s, o) \/ Footnote(s, o) PROVE FALSE
  BY <1>12 DEF JumpToPercent, Footnote, ResetSection
<1>13. ASSUME NEW s \in Chapters, NEW o \in Anchors, NEW L \in Layouts, GoToBookmark(s, o, L)
       PROVE  cache'[section'.spine].layout = section'.layout
  <2>1. UNCHANGED cache
    BY <1>13 DEF GoToBookmark, ResetSection
  <2>2. QED
    BY <1>1, <1>5, <2>1, SectionSource
<1>14. CASE DeleteCache \/ Leave \/ Reboot
  BY <1>14 DEF DeleteCache, Leave, Reboot, Closed
<1>15. ASSUME NEW L \in Layouts, Open(L) PROVE FALSE
  BY <1>15 DEF Open, Types, StepsOK
<1>16. QED
  BY <1>4, <1>6, <1>7, <1>8, <1>9, <1>10, <1>11, <1>12, <1>13, <1>14, <1>15, HoldSteps DEF Moves, Handlers

(* What is about to be drawn is there, unless the page is not a page. *)
ShowFits ==
    renderPc = "show" /\ ~notified /\ spine < Spines /\ section.page >= 0 => InBounds(section)
(* The page drawn last is the page of the section, until an update is requested. *)
Fresh ==
    /\ ~notified /\ section # None /\ spine < Spines
    /\ \/ renderPc \in {"save", "write"}
       \/ renderPc = "idle" /\ (shown.kind = "page" \/ section.page >= 0)
    => shown = PageScreen /\ pageOffset = OffsetOf(section, section.page)
(* A section that is missing was lost. *)
Lost ==
    /\ renderPc = "idle" /\ ~notified /\ section = None /\ spine < Spines
    /\ mainPc \notin {"closed", "chapters", "panic"}
    => excused

LEMMA ShowFitsStep ==
    ASSUME Types, Types', Inside, PartialFilled, ShowFits, [Next]_vars
    PROVE  ShowFits'
<1> SUFFICES ASSUME renderPc' = "show", ~notified', spine' < Spines, section'.page >= 0
             PROVE  section'.page \in 0 .. section'.count - 1
  BY DEF ShowFits, InBounds
<1>1. mainPc' \notin {"closed", "chapters"}
  BY DEF Types, StepsOK
<1>2. CASE RenderFit
  <2>1. /\ section # None /\ SectionOK(section) /\ SameLayout(section', section)
        /\ section.page >= 0 => InBounds(section')
        /\ section.count > 0 => section'.page < section'.count
    BY <1>2, FitEffect
  <2>2. /\ section.page \in Int /\ section.count \in Nat /\ Pages(section.layout) > 0
        /\ section'.page \in Int /\ section'.count = section.count
    <3>1. SectionOK(section')
      BY <2>1, SectionStep DEF SectionInv, SameLayout, SameChapter
    <3>2. QED
      BY <2>1, <3>1, SectionRecord DEF SameLayout
  <2>3. CASE section.page >= 0
    BY <2>1, <2>3 DEF InBounds
  <2>4. CASE ~(section.page >= 0)
    <3>1. ~section.building
      <4>1. CASE section.building
        <5>1. section' = Repositioned(section)
          BY <1>2, <4>1 DEF RenderFit
        <5>2. section' = section
          BY <4>1, <5>1 DEF Repositioned, DoesReposition
        <5>3. QED
          BY <2>4, <5>2
      <4>2. QED
        BY <4>1
    <3>2. section.count > 0
      BY <2>1, <2>2, <3>1 DEF PartialFilled, SectionOK, Whole
    <3>3. QED
      BY <2>1, <2>2, <3>2
  <2>5. QED
    BY <2>3, <2>4
<1>3. CASE Render /\ ~RenderFit
  BY <1>3 DEF Render, RenderBegin, RenderOpen, RenderBuild, RenderBuilt, RenderPlace, RenderFitStart,
              RenderFitBuild, RenderShow, RenderSave, RenderWrite, BuildMore
<1>4. CASE UNCHANGED <<section, renderPc, notified, spine>>
  BY <1>4 DEF ShowFits, InBounds
<1>5. CASE Extend \/ Tick \/ TurnLock \/ OpenChapters
  BY <1>5 DEF Extend, Tick, TurnLock, OpenChapters, LockFree, drawVars
<1>6. CASE Stays /\ ~Render
  <2>1. UNCHANGED <<section, renderPc>> /\ renderPc = "show"
    BY <1>6 DEF Stays
  <2>2. UNCHANGED spine
    <3>1. CASE TurnTest
      BY <3>1, Located DEF TurnTest
    <3>2. QED
      BY <1>6, <3>1 DEF Stays
  <2>3. UNCHANGED notified
    BY <2>1, EveryStep DEF Kinds, Begins, LaysOut, Draws, NotesPage, WritesPage, Works, EndTests, EndSaves, EndShows,
         Returns, Chooses, TurnTests, TurnsPage, Jumps, OpensList, SetsStatus, Persists, Closes, Opens, Stutters
  <2>4. QED
    BY <1>4, <2>1, <2>2, <2>3
<1>7. CASE Leaves
  BY <1>1, <1>7 DEF Leaves
<1>8. QED
  BY <1>2, <1>3, <1>5, <1>6, <1>7, PlaceSteps

LEMMA FreshStep == ASSUME Types, Inside, ShowFits, Fresh, [Next]_vars PROVE Fresh'
<1> SUFFICES ASSUME ~notified', section' # None, (spine < Spines)',
                    \/ renderPc' \in {"save", "write"}
                    \/ renderPc' = "idle" /\ (shown'.kind = "page" \/ section'.page >= 0)
             PROVE  (shown = PageScreen)' /\ (pageOffset = OffsetOf(section, section.page))'
  BY DEF Fresh
<1>1. CASE /\ section' # None /\ section'.spine = section.spine /\ section'.page = section.page /\ section # None
           /\ section'.layout = section.layout /\ shown = PageScreen /\ pageOffset = OffsetOf(section, section.page)
           /\ UNCHANGED <<shown, pageOffset>>
  BY <1>1 DEF PageScreen, OffsetOf
<1>2. CASE Begins
  BY <1>2, Located DEF Begins
<1>3. CASE LaysOut
  BY <1>3 DEF LaysOut, Failed
<1>4. CASE Draws
  <2>1. CASE renderPc' = "save" /\ shown' = PageScreen /\ pageOffset' = OffsetOf(section, section.page) /\ UNCHANGED section
    BY <2>1 DEF PageScreen, OffsetOf
  <2>2. CASE renderPc' = "idle" /\ shown' = Screen("outOfBounds")
    BY <1>4, <2>2 DEF Screen, Draws, ShowFits, Failed
  <2>3. QED
    BY <1>4, <2>1, <2>2 DEF Draws, Failed
<1>5. CASE NotesPage
  BY <1>1, <1>5 DEF NotesPage, Fresh
<1>6. CASE WritesPage
  BY <1>1, <1>6 DEF WritesPage, Fresh
<1>7. CASE Works
  BY <1>1, <1>7 DEF Works, Failed, SameChapter, Fresh
<1>8. CASE EndTests \/ EndSaves \/ EndShows \/ Returns
  BY Located, <1>8 DEF EndTests, EndSaves, EndShows, Returns
<1>9. CASE Chooses
  <2>1. UNCHANGED <<section, spine, renderPc, shown, pageOffset>> /\ ~notified
    BY <1>9 DEF Chooses, Types, NotifiedOK
  <2>2. QED
    BY <1>1, <2>1 DEF Fresh
<1>10. CASE TurnTests \/ TurnsPage
  <2>1. UNCHANGED <<section, spine, renderPc, shown, pageOffset>> /\ ~notified
    BY <1>10, Located DEF TurnTests, TurnsPage
  <2>2. QED
    BY <1>1, <2>1 DEF Fresh
<1>11. CASE Jumps \/ OpensList \/ SetsStatus \/ Closes \/ Opens
  BY <1>11 DEF Jumps, OpensList, SetsStatus, Closes, Opens
<1>12. CASE Persists
  BY <1>1, <1>12 DEF Persists, Fresh
<1>13. CASE Stutters
  BY <1>1, <1>13 DEF Stutters, Fresh
<1>14. QED
  BY EveryStep, <1>2, <1>3, <1>4, <1>5, <1>6, <1>7, <1>8, <1>9, <1>10, <1>11, <1>12, <1>13 DEF Kinds

LEMMA LostStep == ASSUME Types, Inside, Lost, [Next]_vars PROVE Lost'
<1> SUFFICES ASSUME (renderPc = "idle")', ~notified', (section = None)', (spine < Spines)',
                    mainPc' \notin {"closed", "chapters", "panic"}
             PROVE  excused'
  BY DEF Lost
<1>1. CASE Render
  <2>1. CASE LosesPlace
    BY <2>1 DEF LosesPlace
  <2>2. CASE GoesOn
    <3>1. CASE RenderShow \/ RenderSave \/ RenderWrite
      <4>1. renderPc \in {"show", "save", "write"}
        BY <3>1 DEF RenderSave, RenderWrite, RenderShow
      <4>2. UNCHANGED section
        BY <2>2, <4>1 DEF GoesOn, RenderOpen, RenderBuild, RenderBuilt, RenderBegin, RenderFitStart, RenderFitBuild, RenderFit, LockFree
      <4>3. QED
        BY <4>1, <4>2, Located
    <3>2. CASE RenderBegin
      BY <3>2, Located DEF RenderBegin, place
    <3>3. QED
      BY <1>1, <2>2, <3>1, <3>2 DEF GoesOn, Render, RenderOpen, RenderBuild, RenderBuilt, RenderFitStart, RenderFitBuild,
         RenderFit, RenderPlace
  <2>3. CASE RenderPlace
    BY <2>3 DEF RenderPlace
  <2>4. QED
    BY <1>1, <2>1, <2>2, <2>3, RenderMoves
<1>2. CASE ~Render
  <2>1. renderPc = "idle"
    BY <1>2, PlaceSteps DEF Extend, Tick, TurnLock, OpenChapters, Stays, Leaves, LockFree
  <2>2. excused => excused'
    BY ExcusedStep
  <2>3. CASE section = None /\ ~notified /\ spine < Spines /\ mainPc \notin {"closed", "chapters", "panic"}
    BY <2>1, <2>2, <2>3 DEF Lost
  <2>4. CASE Begins \/ LaysOut \/ Draws \/ NotesPage \/ WritesPage
    BY <2>1, <2>4, Located DEF Begins, LaysOut, Draws, NotesPage, WritesPage
  <2>5. CASE Works
    BY <2>3, <2>5 DEF Works, Failed, SameChapter
  <2>6. CASE EndTests \/ EndSaves \/ EndShows \/ Returns
    BY Located, <2>6 DEF EndTests, EndSaves, EndShows, Returns
  <2>7. CASE Chooses
    BY <2>3, <2>7 DEF Chooses, Types, NotifiedOK
  <2>8. CASE TurnTests
    BY <2>3, <2>8, Located DEF TurnTests
  <2>9. CASE TurnsPage
    BY <2>3, <2>9 DEF TurnsPage
  <2>10. CASE Jumps \/ OpensList \/ SetsStatus \/ Closes \/ Opens \/ Persists
    BY <2>3, <2>10 DEF Jumps, OpensList, SetsStatus, Closes, Opens, Persists
  <2>11. CASE Stutters
    BY <2>3, <2>11 DEF Stutters
  <2>12. QED
    BY EveryStep, <2>4, <2>5, <2>6, <2>7, <2>8, <2>9, <2>10, <2>11 DEF Kinds
<1>3. QED
  BY <1>1, <1>2

(* What is on the screen is a page of its layout. *)
ShownFits == shown.kind = "page" => shown.layout \in Layouts /\ shown.page \in 0 .. Pages(shown.layout) - 1

LEMMA ShownFitsStep == ASSUME Types, Inside, ShownFits, [Next]_vars PROVE ShownFits'
<1>1. CASE UNCHANGED shown
  BY <1>1 DEF ShownFits
<1>2. CASE \E k \in {"blank", "error", "end", "outOfBounds"} : shown' = Screen(k)
  BY <1>2 DEF ShownFits, Screen
<1>3. CASE Draws
  <2>1. CASE shown' = PageScreen /\ InBounds(section) /\ section # None
    <3>1. /\ section.layout \in Layouts /\ section.page \in Int /\ section.count \in Nat
          /\ section.count <= Pages(section.layout) /\ Pages(section.layout) \in Nat
      BY <2>1, SectionRecord DEF Types, SectionInv
    <3>2. section.page \in 0 .. Pages(section.layout) - 1
      BY <2>1, <3>1 DEF InBounds
    <3>3. shown'.layout = section.layout /\ shown'.page = section.page
      BY <2>1 DEF PageScreen
    <3>4. QED
      BY <3>1, <3>2, <3>3 DEF ShownFits
  <2>2. QED
    BY <1>1, <1>2, <1>3, <2>1 DEF Draws
<1>4. CASE Begins \/ NotesPage \/ WritesPage \/ Works \/ EndTests \/ EndSaves \/ Returns \/ Chooses \/ TurnTests
           \/ TurnsPage \/ Jumps \/ OpensList \/ SetsStatus \/ Persists \/ Opens \/ Stutters
  BY <1>1, <1>4 DEF Begins, NotesPage, WritesPage, Works, EndTests, EndSaves, Returns, Chooses, TurnTests,
     TurnsPage, Jumps, OpensList, SetsStatus, Persists, Opens, Stutters
<1>5. CASE LaysOut \/ EndShows \/ Closes
  BY <1>1, <1>2, <1>5 DEF LaysOut, EndShows, Closes
<1>6. QED
  BY EveryStep, <1>3, <1>4, <1>5 DEF Kinds

----------------------------------------------------------------------------
(* Without an SD card failure no page is turned while a section is opened, and the book
   ends on its last page. *)
OpenPage  == NoFault /\ Opening => section.page = 0
SkipAlone == NoFault /\ mainPc = "skipPage" => ~Opening
EndLast ==
    NoFault /\ spine = Spines /\ section # None =>
        Cleared /\ ~Opening /\ section.page + 1 >= Pages(section.layout)

LEMMA OpenPageStep == ASSUME Types, TurnAlone, SkipAlone, OpenPage, [Next]_vars PROVE OpenPage'
<1> SUFFICES ASSUME NoFault', Opening' PROVE section'.page = 0
  BY DEF OpenPage
<1>1. NoFault
  BY NoFaultBefore
<1>2. faults' = faults /\ faults \in Int
  BY <1>1, FaultCounted DEF NoFault
<1>3. ~Failed
  BY <1>2 DEF Failed
<1>4. CASE RenderOpen
  BY <1>3, <1>4, OpenEffect DEF Opening
<1>5. CASE Opening /\ UNCHANGED section
  BY <1>1, <1>5 DEF OpenPage
<1>6. CASE Render /\ ~RenderOpen
  <2>1. CASE RenderBuild
    <3>1. section # None /\ section.building /\ BuildMore("build") /\ renderPc = "build"
      BY <2>1, Located DEF RenderBuild
    <3>2. section'.page = section.page
      BY <1>3, <3>1, BuildEffect DEF Continued
    <3>3. QED
      BY <1>1, <3>1, <3>2 DEF OpenPage, Opening
  <2>2. CASE RenderBuilt
    BY <1>5, <2>2 DEF RenderBuilt, Opening, place
  <2>3. QED
    BY <1>6, <2>1, <2>2, RenderMoves DEF GoesOn, LosesPlace, RenderPlace, Opening
<1>7. CASE ~Render
  <2>1. CASE UNCHANGED renderPc /\ ~LockFree
    <3>1. CASE Holds \/ TurnTest
      BY <1>5, <3>1, <2>1 DEF Holds, TurnTest, drawVars, Opening
    <3>2. CASE TurnPage \/ SkipPage
      BY <1>1, <2>1, <3>2 DEF TurnPage, SkipPage, drawVars, Opening, TurnAlone, SkipAlone, InTurn
    <3>3. CASE ReturnFromEnd
      BY <3>3, <2>1, Located DEF ReturnFromEnd, drawVars, LockFree
    <3>4. CASE \E L \in Layouts : Open(L)
      BY <2>1, <3>4, Located DEF Open, LockFree
    <3>5. ASSUME NEW s \in Chapters, ChooseChapter(s) PROVE FALSE
      BY <2>1, <3>5, Located DEF ChooseChapter, LockFree
    <3>6. CASE Extend \/ Tick \/ TurnLock \/ TurnChapter \/ SkipNext \/ SkipChapter
      BY <3>6, <2>1 DEF Extend, Tick, TurnLock, TurnChapter, SkipNext, SkipChapter
    <3>7. CASE DeleteCache \/ Leave \/ Reboot \/ OpenChapters \/ RestoreSavedPosition
      BY <2>1, <3>7 DEF DeleteCache, Leave, Reboot, OpenChapters, RestoreSavedPosition
    <3>8. ASSUME NEW L \in Layouts, Relayout(L) PROVE FALSE
      BY <2>1, <3>8 DEF Relayout
    <3>9. ASSUME NEW s \in Chapters, NEW o \in Anchors, JumpToPercent(s, o) \/ Footnote(s, o) PROVE FALSE
      BY <2>1, <3>9 DEF JumpToPercent, Footnote
    <3>10. ASSUME NEW s \in Chapters, NEW o \in Anchors, NEW L \in Layouts, GoToBookmark(s, o, L) PROVE FALSE
      BY <2>1, <3>10 DEF GoToBookmark
    <3>11. QED
      BY <1>7, <3>1, <3>2, <3>3, <3>4, <3>5, <3>6, <3>7, <3>8, <3>9, <3>10, HoldSteps DEF Moves, Handlers
  <2>2. UNCHANGED renderPc
    BY <1>7, PlaceSteps DEF Extend, Tick, TurnLock, OpenChapters, Stays, Leaves, drawVars
  <2>3. QED
    BY <2>1, <2>2 DEF LockFree, Opening
<1>8. QED
  BY <1>4, <1>6, <1>7

(* Only a long press back, from a page with pages before it, skips to the first one. *)
LEMMA SkipsBack ==
    ASSUME Types, [Next]_vars, mainPc' = "skipPage"
    PROVE  Render \/ UNCHANGED vars \/ (SkipBack /\ section # None /\ section.page > 0)
<1>1. CASE Background
  BY <1>1 DEF Background, ExtendTest, Extend, TickTest, Tick, Panic
<1>2. CASE End
  BY <1>2 DEF End, EndTest, EndSave, EndPush, EndReset, ReturnFromEnd, Idle, mainVars
<1>3. CASE Turns
  <2>1. ASSUME NEW dir \in {-1, 1}, PressTurn(dir) PROVE FALSE
    BY <2>1 DEF PressTurn, Ready, Idle, Chosen
  <2>2. CASE QueuedTurn
    BY <2>2 DEF QueuedTurn, Ready, Idle, Chosen
  <2>3. CASE TurnLock \/ TurnTest \/ TurnPage \/ SkipPage
    BY <2>3 DEF TurnLock, TurnTest, TurnPage, SkipPage, Panic
  <2>4. CASE TurnChapter \/ SkipNext \/ SkipChapter
    BY <2>4 DEF TurnChapter, SkipNext, SkipChapter, ToChapter
  <2>5. CASE SkipForward \/ SkipBack
    BY <2>5 DEF SkipForward, SkipBack
  <2>6. QED
    BY <1>3, <2>1, <2>2, <2>3, <2>4, <2>5 DEF Turns
<1>4. CASE Menus
  <2>1. ASSUME NEW L \in Layouts, Relayout(L) PROVE FALSE
    BY <2>1 DEF Relayout, Ready, Idle, mainVars
  <2>2. ASSUME NEW s \in Chapters, NEW o \in Anchors, JumpToPercent(s, o) \/ Footnote(s, o) PROVE FALSE
    BY <2>2 DEF JumpToPercent, Footnote, Ready, Idle, mainVars
  <2>3. ASSUME NEW s \in Chapters, NEW o \in Anchors, NEW L \in Layouts, GoToBookmark(s, o, L) PROVE FALSE
    BY <2>3 DEF GoToBookmark, Ready, Idle
  <2>4. ASSUME NEW s \in Chapters, ChooseChapter(s) PROVE FALSE
    BY <2>4 DEF ChooseChapter
  <2>5. CASE OpenChapters \/ CancelChapters
    BY <2>5 DEF OpenChapters, CancelChapters
  <2>6. CASE RestoreSavedPosition
    BY <2>6 DEF RestoreSavedPosition, Ready, Idle, mainVars
  <2>7. ASSUME NEW st \in ManualStatuses, SetStatus(st) PROVE FALSE
    BY <2>7 DEF SetStatus
  <2>8. CASE Persist \/ DeleteCache
    BY <2>8 DEF Persist, DeleteCache, Closed, Panic
  <2>9. QED
    BY <1>4, <2>1, <2>2, <2>3, <2>4, <2>5, <2>6, <2>7, <2>8 DEF Menus
<1>5. CASE Sessions
  BY <1>5 DEF Sessions, Leave, Reboot, Open, Closed
<1>6. QED
  BY <1>1, <1>2, <1>3, <1>4, <1>5 DEF Next

LEMMA SkipAloneStep == ASSUME Types, NullOK, OpenPage, SkipAlone, [Next]_vars PROVE SkipAlone'
<1> SUFFICES ASSUME NoFault', mainPc' = "skipPage" PROVE ~Opening'
  BY DEF SkipAlone
<1>1. NoFault
  BY NoFaultBefore
<1>2. CASE Render
  <2>1. mainPc = "skipPage"
    BY <1>2, RenderMoves
  <2>2. section # None /\ ~Opening
    BY <1>1, <2>1 DEF NullOK, SkipAlone, NoFault, Uses
  <2>3. ~RenderOpen
    BY <2>2, OpenEffect
  <2>4. QED
    BY <1>2, <2>2, <2>3, RenderMoves DEF GoesOn, LosesPlace, RenderPlace, Opening, RenderBuild, RenderBuilt
<1>3. CASE SkipBack /\ section # None /\ section.page > 0
  BY <1>1, <1>3 DEF SkipBack, OpenPage, Opening, drawVars
<1>4. CASE UNCHANGED vars
  BY <1>1, <1>4 DEF vars, drawVars, mainVars, SkipAlone, Opening
<1>5. QED
  BY <1>2, <1>3, <1>4, SkipsBack

LEMMA EndLastStep ==
    ASSUME Types, Types', NullOK, SkipOK, WholeLeft', Inside, TurnCleared, EndLast, [Next]_vars
    PROVE  EndLast'
<1> SUFFICES ASSUME NoFault', spine' = Spines, section' # None
             PROVE  Cleared' /\ ~Opening' /\ section'.page + 1 >= Pages(section'.layout)
  BY DEF EndLast, Pages
<1>1. NoFault /\ faults' = faults /\ faults \in Int
  BY NoFaultBefore, FaultCounted DEF NoFault
<1>2. ~Failed /\ Whole(section')
  BY <1>1 DEF Failed, WholeLeft, Whole
<1>3. section # None => SectionOK(section) /\ section.page \in Int /\ section.count \in Nat
                        /\ Pages(section.layout) \in Nat
  BY SectionRecord DEF Types, SectionInv
<1>4. CASE spine = Spines /\ section # None
  <2>1. /\ Cleared /\ ~Opening /\ section.page + 1 >= Pages(section.layout)
        /\ Whole(section) /\ section.count = Pages(section.layout)
    BY <1>1, <1>3, <1>4 DEF EndLast, SkipOK, WholeLeft, SectionOK
  <2>2. Cleared'
    BY <2>1, ClearedStep
  <2>3. CASE UNCHANGED <<section, renderPc>>
    BY <2>1, <2>2, <2>3 DEF Opening
  <2>4. CASE Render
    <3>1. ~RenderOpen
      BY <1>4, OpenEffect
    <3>2. CASE RenderFit
      BY <1>3, <2>1, <2>2, <3>2, FitEffect DEF SameLayout, SameChapter, Cleared, Opening, RenderFit
    <3>3. CASE RenderFitStart \/ RenderFitBuild
      BY <2>1, <3>3 DEF RenderFitStart, RenderFitBuild, Whole
    <3>4. CASE RenderBuild \/ RenderBuilt \/ RenderPlace
      BY <2>1, <3>4 DEF RenderBuild, RenderBuilt, RenderPlace, Opening
    <3>5. CASE RenderBegin \/ RenderShow \/ RenderSave \/ RenderWrite
      <4>1. UNCHANGED section /\ ~Opening'
        BY <2>4, <3>5, RenderMoves DEF GoesOn, LosesPlace, RenderPlace, RenderOpen, RenderBuild, RenderBuilt,
           RenderBegin, RenderShow, RenderSave, RenderWrite, RenderFitStart, RenderFitBuild, RenderFit, LockFree, Opening
      <4>2. QED
        BY <2>1, <2>2, <4>1
    <3>6. QED
      BY <2>4, <3>1, <3>2, <3>3, <3>4, <3>5 DEF Render
  <2>5. CASE Extend
    BY <1>1, <1>4, <2>5 DEF Extend, SkipOK, ExtendInside
  <2>6. CASE Tick
    BY <2>1, <2>3, <2>6 DEF Tick, Panic, drawVars, Whole
  <2>7. CASE TurnLock \/ TurnTest \/ TurnPage \/ SkipPage
    BY <1>4, <2>7, Located DEF TurnLock, TurnTest, TurnPage, SkipPage, Inside, InTurn
  <2>8. CASE TurnChapter \/ SkipNext \/ SkipChapter
    BY <2>8 DEF TurnChapter, SkipNext, SkipChapter, ToChapter
  <2>9. CASE Handlers
    <3>1. ~Ready /\ mainPc # "chapters"
      BY <1>4, Located DEF Ready, Types, StepsOK
    <3>2. QED
      BY <2>9, <3>1 DEF Handlers, Relayout, OpenChapters, ChooseChapter, JumpToPercent, Footnote, GoToBookmark,
         RestoreSavedPosition
  <2>10. CASE ReturnFromEnd
    BY <2>10, Located DEF ReturnFromEnd
  <2>11. CASE DeleteCache \/ Leave \/ Reboot
    BY <2>11 DEF DeleteCache, Leave, Reboot, Closed
  <2>12. ASSUME NEW L \in Layouts, Open(L) PROVE FALSE
    BY <1>4, <2>12 DEF Open, Types, StepsOK
  <2>13. CASE Holds
    BY <2>3, <2>13 DEF Holds
  <2>14. QED
    BY <2>4, <2>5, <2>6, <2>7, <2>8, <2>9, <2>10, <2>11, <2>12, <2>13, HoldSteps DEF Moves
<1>5. CASE spine # Spines \/ section = None
  <2>1. spine' # spine
    <3>1. CASE section = None
      <4>1. RenderOpen
        BY <3>1, SectionSource
      <4>2. spine \in Chapters /\ spine' = spine
        BY <4>1, OpenEffect DEF RenderOpen
      <4>3. QED
        BY <4>2, Located
    <3>2. QED
      BY <1>5, <3>1
  <2>2. CASE Render \/ Extend \/ Tick \/ Holds
    BY <2>1, <2>2, RenderMoves DEF Extend, Tick, Holds
  <2>3. CASE TurnLock \/ TurnPage \/ SkipPage
    BY <2>1, <2>3 DEF TurnLock, TurnPage, SkipPage
  <2>4. CASE TurnTest
    <3>1. section # None /\ ~PagesAhead /\ UNCHANGED <<section, deferred, renderPc>> /\ mainPc = "turnTest"
      BY <2>1, <2>4 DEF TurnTest, Panic, drawVars
    <3>2. section.page + 1 >= section.count
      BY <1>3, <3>1 DEF PagesAhead
    <3>3. section.count = Pages(section.layout)
      BY <1>2, <1>3, <3>1 DEF SectionOK
    <3>4. Cleared /\ ~Opening
      BY <1>1, <3>1 DEF TurnCleared, SkipOK, TurnAlone, InTurn, Opening
    <3>5. QED
      BY <3>1, <3>2, <3>3, <3>4 DEF Cleared, Opening
  <2>5. CASE TurnChapter \/ SkipNext \/ SkipChapter
    BY <2>5 DEF TurnChapter, SkipNext, SkipChapter, ToChapter
  <2>6. CASE Handlers
    <3>1. spine' = spine \/ spine' \in Chapters \/ section' = None
      BY <2>6 DEF Handlers, Relayout, OpenChapters, ChooseChapter, JumpToPercent, Footnote, GoToBookmark,
         RestoreSavedPosition, ResetSection
    <3>2. QED
      BY <2>1, <3>1, Located
  <2>7. CASE ReturnFromEnd
    BY <2>7, Located DEF ReturnFromEnd
  <2>8. CASE DeleteCache \/ Leave \/ Reboot
    BY <2>8 DEF DeleteCache, Leave, Reboot, Closed
  <2>9. ASSUME NEW L \in Layouts, Open(L) PROVE FALSE
    BY <2>9 DEF Open, Types, StepsOK
  <2>10. QED
    BY <2>2, <2>3, <2>4, <2>5, <2>6, <2>7, <2>8, <2>9, HoldSteps DEF Moves
<1>6. QED
  BY <1>4, <1>5

(* A turn waits for the lock with the section that its press found. *)
LockHeld == mainPc = "turnLock" /\ ~excused => section # None

LEMMA TurnsChosen ==
    ASSUME Types, [Next]_vars, mainPc' = "turnLock"
    PROVE  Render \/ UNCHANGED vars \/ (section # None /\ UNCHANGED section)
<1>1. CASE Background
  BY <1>1 DEF Background, ExtendTest, Extend, TickTest, Tick, Panic
<1>2. CASE End
  BY <1>2 DEF End, EndTest, EndSave, EndPush, EndReset, ReturnFromEnd, Idle, mainVars
<1>3. CASE Turns
  <2>1. ASSUME NEW dir \in {-1, 1}, PressTurn(dir) PROVE section # None /\ UNCHANGED section
    BY <2>1 DEF PressTurn, Ready, Idle, Chosen, place
  <2>2. CASE QueuedTurn
    BY <2>2 DEF QueuedTurn, Ready, Idle, Chosen, place
  <2>3. CASE TurnLock \/ TurnTest \/ TurnPage \/ SkipPage
    BY <2>3 DEF TurnLock, TurnTest, TurnPage, SkipPage, Panic
  <2>4. CASE TurnChapter \/ SkipNext \/ SkipChapter
    BY <2>4 DEF TurnChapter, SkipNext, SkipChapter, ToChapter
  <2>5. CASE SkipForward \/ SkipBack
    BY <2>5 DEF SkipForward, SkipBack
  <2>6. QED
    BY <1>3, <2>1, <2>2, <2>3, <2>4, <2>5 DEF Turns
<1>4. CASE Menus
  <2>1. ASSUME NEW L \in Layouts, Relayout(L) PROVE FALSE
    BY <2>1 DEF Relayout, Ready, Idle, mainVars
  <2>2. ASSUME NEW s \in Chapters, NEW o \in Anchors, JumpToPercent(s, o) \/ Footnote(s, o) PROVE FALSE
    BY <2>2 DEF JumpToPercent, Footnote, Ready, Idle, mainVars
  <2>3. ASSUME NEW s \in Chapters, NEW o \in Anchors, NEW L \in Layouts, GoToBookmark(s, o, L) PROVE FALSE
    BY <2>3 DEF GoToBookmark, Ready, Idle
  <2>4. ASSUME NEW s \in Chapters, ChooseChapter(s) PROVE FALSE
    BY <2>4 DEF ChooseChapter
  <2>5. CASE OpenChapters \/ CancelChapters
    BY <2>5 DEF OpenChapters, CancelChapters
  <2>6. CASE RestoreSavedPosition
    BY <2>6 DEF RestoreSavedPosition, Ready, Idle, mainVars
  <2>7. ASSUME NEW st \in ManualStatuses, SetStatus(st) PROVE FALSE
    BY <2>7 DEF SetStatus
  <2>8. CASE Persist \/ DeleteCache
    BY <2>8 DEF Persist, DeleteCache, Closed, Panic
  <2>9. QED
    BY <1>4, <2>1, <2>2, <2>3, <2>4, <2>5, <2>6, <2>7, <2>8 DEF Menus
<1>5. CASE Sessions
  BY <1>5 DEF Sessions, Leave, Reboot, Open, Closed
<1>6. QED
  BY <1>1, <1>2, <1>3, <1>4, <1>5 DEF Next

LEMMA LockHeldStep == ASSUME Types, LockHeld, [Next]_vars PROVE LockHeld'
<1> SUFFICES ASSUME mainPc' = "turnLock", ~excused' PROVE section' # None
  BY DEF LockHeld
<1>1. CASE Render
  <2>1. mainPc = "turnLock" /\ ~excused /\ section # None
    BY <1>1, RenderExcuses DEF LockHeld
  <2>2. GoesOn => section' # None
    BY <2>1, FitEffect DEF GoesOn, SameLayout, SameChapter
  <2>3. RenderPlace => section' # None
    BY PlaceEffect DEF SameLayout, SameChapter
  <2>4. QED
    BY <1>1, <2>2, <2>3, RenderMoves DEF LosesPlace
<1>2. CASE UNCHANGED vars
  BY <1>2 DEF vars, place, mainVars, history, LockHeld
<1>3. QED
  BY <1>1, <1>2, TurnsChosen

----------------------------------------------------------------------------
(* What is laid out when a new section gets its page covers the place it is opened for. *)
Covered ==
    /\ pend.percent # None => section.count = Pages(section.layout)
    /\ pend.percent = None /\ pend.anchor # None => AnchorPage(section, pend.anchor) # None
    /\ ~Aside /\ ~pend.last /\ deferred.spine = section.spine /\ deferred.offset # None =>
          PageAt(section, deferred.offset) # None
PlaceReady ==
    /\ renderPc = "place" => Covered
    /\ renderPc = "build" /\ ~section.building => ~section.partial

(* A layout that is whole covers any place. *)
LEMMA WholeCovers ==
    ASSUME Types, NEW sec, SectionOK(sec), sec.count = Pages(sec.layout)
    PROVE  /\ pend.anchor # None => AnchorPage(sec, pend.anchor) # None
           /\ Whole(sec) /\ deferred.offset # None => PageAt(sec, deferred.offset) # None
<1>1. sec.layout \in Layouts /\ LenOf[sec.layout] \in Nat \ {0}
  BY SectionRecord, PagesOfLayout
<1>2. ASSUME pend.anchor # None PROVE AnchorPage(sec, pend.anchor) # None
  <2>1. pend.anchor \in 0 .. Units - 1
    BY <1>2, ReaderAssumption DEF Types, PlaceOK, Pends
  <2>2. pend.anchor \div LenOf[sec.layout] \in 0 .. sec.count - 1
    BY <1>1, <2>1, PageOfUnit
  <2>3. sec.count \in Nat
    BY SectionRecord
  <2>4. QED
    BY <2>2, <2>3, NoneAssumption DEF AnchorPage
<1>3. ASSUME Whole(sec), deferred.offset # None PROVE PageAt(sec, deferred.offset) # None
  <2>1. deferred.offset \in Nat
    BY <1>3 DEF Types, PlaceOK, Deferreds
  <2>2. deferred.offset \div LenOf[sec.layout] \in Nat
    BY <1>1, <2>1, Quotient
  <2>3. QED
    BY <1>3, <2>2, NoneAssumption DEF PageAt
<1>4. QED
  BY <1>2, <1>3

LEMMA CoveredKept ==
    ASSUME Types, Covered, section # None, SameLayout(section', section), UNCHANGED <<pend, deferred>>
    PROVE  Covered'
<1>1. \A o : AnchorPage(section', o) = AnchorPage(section, o)
  BY DEF AnchorPage, SameLayout, SameChapter
<1>2. \A o : PageAt(section', o) = PageAt(section, o)
  BY DEF PageAt, Whole, OffsetOf, SameLayout, SameChapter
<1>3. section'.count = section.count /\ section'.layout = section.layout /\ section'.spine = section.spine
  BY DEF SameLayout, SameChapter
<1>4. QED
  BY <1>1, <1>2, <1>3 DEF Covered, Aside, Pages

(* While a section is opened, the main task at most turns its page. *)
LEMMA UnderRender ==
    ASSUME Types, [Next]_vars, ~Render, Opening
    PROVE  /\ UNCHANGED <<pend, deferred, layout, cache, renderPc, stale>> /\ section # None
           /\ SameLayout(section', section)
           /\ Holds \/ TurnTest \/ ((TurnPage \/ SkipPage) /\ section # None)
<1>0. section # None /\ ~LockFree /\ mainPc \notin {"closed", "chapters", "end"}
  BY DEF Opening, LockFree, Types, StepsOK
<1>1. Holds \/ TurnTest \/ ((TurnPage \/ SkipPage) /\ section # None)
  <2>1. CASE ReturnFromEnd
    BY <1>0, <2>1 DEF ReturnFromEnd
  <2>2. CASE \E L \in Layouts : Open(L)
    BY <1>0, <2>2 DEF Open
  <2>3. ASSUME NEW s \in Chapters, ChooseChapter(s) PROVE FALSE
    BY <1>0, <2>3 DEF ChooseChapter
  <2>4. CASE Extend \/ Tick \/ TurnLock \/ TurnChapter \/ SkipNext \/ SkipChapter
    BY <1>0, <2>4 DEF Extend, Tick, TurnLock, TurnChapter, SkipNext, SkipChapter
  <2>5. CASE DeleteCache \/ Leave \/ Reboot \/ OpenChapters \/ RestoreSavedPosition
    BY <1>0, <2>5 DEF DeleteCache, Leave, Reboot, OpenChapters, RestoreSavedPosition
  <2>6. ASSUME NEW L \in Layouts, Relayout(L) PROVE FALSE
    BY <1>0, <2>6 DEF Relayout
  <2>7. ASSUME NEW s \in Chapters, NEW o \in Anchors, JumpToPercent(s, o) \/ Footnote(s, o) PROVE FALSE
    BY <1>0, <2>7 DEF JumpToPercent, Footnote
  <2>8. ASSUME NEW s \in Chapters, NEW o \in Anchors, NEW L \in Layouts, GoToBookmark(s, o, L) PROVE FALSE
    BY <1>0, <2>8 DEF GoToBookmark
  <2>9. QED
    BY <2>1, <2>2, <2>3, <2>4, <2>5, <2>6, <2>7, <2>8, HoldSteps DEF Moves, Handlers
<1>2. CASE Holds
  BY <1>0, <1>1, <1>2 DEF Holds, SameLayout, SameChapter
<1>3. CASE TurnTest
  BY <1>0, <1>1, <1>3 DEF TurnTest, drawVars, SameLayout, SameChapter
<1>4. CASE (TurnPage \/ SkipPage) /\ section # None
  <2>1. SameLayout(section', section)
    BY <1>4, TurnPageEffect, SkipPageEffect
  <2>2. UNCHANGED <<pend, deferred, layout, cache, renderPc, stale>>
    BY <1>4 DEF TurnPage, SkipPage, drawVars
  <2>3. QED
    BY <1>0, <1>4, <2>1, <2>2
<1>5. QED
  BY <1>1, <1>2, <1>3, <1>4

(* The build that a render waits for ends with the place laid out. *)
LEMMA BuiltCovers == ASSUME Types, Settled, PlaceReady, RenderBuilt PROVE Covered
<1>1. /\ renderPc = "build" /\ section # None /\ SectionOK(section)
      /\ ~section.building \/ Reached(section)
  BY DEF RenderBuilt, Types, StepsOK, SectionInv
<1>2. CASE ~section.building
  <2>1. Whole(section) /\ section.count = Pages(section.layout)
    BY <1>1, <1>2 DEF PlaceReady, Whole, SectionOK
  <2>2. QED
    BY <1>1, <2>1, WholeCovers DEF Covered
<1>3. CASE Reached(section)
  <2>1. pend.percent = None /\ (pend.anchor # None => AnchorPage(section, pend.anchor) # None)
    BY <1>3 DEF Reached
  <2>2. ASSUME ~Aside, ~pend.last, deferred.spine = section.spine, deferred.offset # None
        PROVE  PageAt(section, deferred.offset) # None
    <3> DEFINE n == LenOf[section.layout]
               o == deferred.offset
               p == section.built - 1
               q == section.count - 1
    <3>1. OffsetJump(section) = o
      BY <2>2 DEF OffsetJump, Aside
    <3>2. section.built > 0 /\ o <= OffsetOf(section, p)
      BY <1>3, <2>2, <3>1 DEF Reached, Aside
    <3>3. n \in Nat \ {0} /\ o \in Nat /\ section.built \in Int /\ section.count \in Int
      BY <1>1, <2>2, SectionRecord, PagesOfLayout DEF Types, PlaceOK, Deferreds
    <3>4. section.built <= section.count
      BY <1>1 DEF Settled
    <3>5. p \in Int /\ q \in Int /\ p <= q
      BY <3>3, <3>4
    <3> HIDE DEF p, q, o, n
    <3>6. p * n <= q * n /\ p * n \in Int /\ q * n \in Int
      BY <3>3, <3>5, Multiples
    <3>7. OffsetOf(section, p) = p * n /\ OffsetOf(section, q) = q * n
      BY DEF OffsetOf, n
    <3>8. o <= OffsetOf(section, q)
      BY <3>2, <3>3, <3>6, <3>7
    <3>9. PageAt(section, o) = o \div n
      BY <3>8 DEF PageAt, q, n
    <3>10. o \div n \in Nat
      BY <3>3, Quotient
    <3>11. QED
      BY <3>9, <3>10, NoneAssumption DEF o
  <2>3. QED
    BY <2>1, <2>2 DEF Covered
<1>4. QED
  BY <1>1, <1>2, <1>3

LEMMA PlaceReadyStep == ASSUME Types, Settled, PlaceReady, [Next]_vars PROVE PlaceReady'
<1>1. CASE RenderOpen
  <2> DEFINE sec == NewSection(spine)
  <2>1. \/ ~Opening'
        \/ renderPc' = "build" /\ section'.building
        \/ renderPc' = "place" /\ Loaded(spine) /\ section' = sec /\ (sec.count = Pages(layout) \/ Deferrable(sec))
    BY <1>1, OpenEffect DEF RenderOpen, Opening
  <2>2. CASE ~Opening' \/ (renderPc' = "build" /\ section'.building)
    BY <2>2 DEF PlaceReady, Opening
  <2>3. CASE renderPc' = "place" /\ Loaded(spine) /\ section' = sec /\ (sec.count = Pages(layout) \/ Deferrable(sec))
    <3>1. /\ UNCHANGED pend /\ deferred' = NoDeferred(deferred)
      BY <1>1, <2>3 DEF RenderOpen
    <3>2. deferred'.offset = None /\ sec.layout = layout /\ (sec.count = Pages(layout) => SectionOK(sec))
      BY <1>1, <3>1, NoDeferredOK, OpenEffect, NewSectionOK DEF Types, PlaceOK
    <3> HIDE DEF sec
    <3>3. pend.percent # None => sec.count = Pages(sec.layout)
      BY <2>3, <3>2 DEF Deferrable
    <3>4. pend.anchor # None => AnchorPage(sec, pend.anchor) # None
      BY <2>3, <3>2, WholeCovers DEF Deferrable
    <3>5. section'.count = sec.count /\ section'.layout = sec.layout /\ (\A o : AnchorPage(section', o) = AnchorPage(sec, o))
      BY <2>3
    <3>6. Covered'
      BY <3>1, <3>2, <3>3, <3>4, <3>5 DEF Covered, Pages
    <3>7. QED
      BY <2>3, <3>6 DEF PlaceReady
  <2>4. QED
    BY <2>1, <2>2, <2>3
<1>2. CASE RenderBuild
  <2>1. section # None /\ section.building /\ BuildMore("build")
    BY <1>2 DEF RenderBuild, Types, StepsOK
  <2>2. CASE renderPc' = "idle"
    BY <2>2 DEF PlaceReady
  <2>3. CASE renderPc' = "build" /\ Continued(section', section)
    BY <2>3 DEF PlaceReady, Continued
  <2>4. QED
    BY <2>1, <2>2, <2>3, BuildEffect
<1>3. CASE RenderBuilt
  <2>1. renderPc' = "place" /\ UNCHANGED <<section, pend, deferred>>
    BY <1>3 DEF RenderBuilt, place
  <2>2. SameLayout(section', section) /\ section # None
    BY <1>3, <2>1 DEF RenderBuilt, Types, StepsOK, SameLayout, SameChapter
  <2>3. Covered'
    BY <1>3, <2>1, <2>2, BuiltCovers, CoveredKept
  <2>4. QED
    BY <2>1, <2>3 DEF PlaceReady
<1>4. CASE Render /\ ~RenderOpen /\ ~RenderBuild /\ ~RenderBuilt
  <2>1. ~Opening'
    BY <1>4, RenderMoves DEF GoesOn, LosesPlace, RenderPlace, Opening
  <2>2. QED
    BY <2>1 DEF PlaceReady, Opening
<1>5. CASE ~Render /\ Opening
  <2>1. /\ UNCHANGED <<pend, deferred, renderPc>> /\ section # None /\ SameLayout(section', section)
    BY <1>5, UnderRender
  <2>2. Covered => Covered'
    BY <2>1, CoveredKept
  <2>3. section'.building = section.building /\ section'.partial = section.partial
    BY <2>1 DEF SameLayout
  <2>4. QED
    BY <2>1, <2>2, <2>3 DEF PlaceReady
<1>6. CASE ~Render /\ ~Opening
  <2>1. UNCHANGED renderPc
    BY <1>6, PlaceSteps DEF Extend, Tick, TurnLock, OpenChapters, Stays, Leaves, drawVars
  <2>2. QED
    BY <1>6, <2>1 DEF PlaceReady, Opening
<1>7. QED
  BY <1>1, <1>2, <1>3, <1>4, <1>5, <1>6

----------------------------------------------------------------------------
(* The place the reader is at, or asked for, and what leads to it. *)
Live   == ~excused /\ spine < Spines /\ mainPc # "closed"
GoalOK == ~excused => goal.offset \in 0 .. Units - 1
Here   == Live => goal.spine = spine
(* What is still deferred will not move the page. *)
Still  == Cleared \/ deferred.spine # spine \/ (deferred.offset = None /\ section.page = 0)
AtGoal == Min({section.page, Pages(layout) - 1}) = goal.offset \div LenOf[layout]
Placed == Live /\ ~Waiting => AtGoal /\ Still

(* A deferred offset takes the section to the place, or else the page number of the file does. *)
DeferredHere == deferred.spine = spine /\ deferred.offset # None
DeferredLeads ==
    \/ /\ section = None /\ pend.next >= 0
       /\ deferred.offset = goal.offset \/ (deferred.offset = 0 /\ Loaded(spine))
       /\ cache[spine].pages > 0 => goal.offset = PageOffset(pend.next, cache[spine].layout)
    \/ section # None /\ deferred.offset = goal.offset
NextLeads == pend.next >= 0 /\ goal.offset = PageOffset(pend.next, layout) /\ (pend.next = 0 \/ Cleared)
Leads ==
    \/ pend.percent = goal.offset
    \/ pend.percent = None /\ pend.anchor = goal.offset
    \/ pend.percent = None /\ pend.anchor = None /\ pend.offset = goal.offset
    \/ ~Aside /\ pend.last /\ goal.offset = Units - 1 /\ (Cleared \/ deferred.spine # spine)
    \/ ~Leftover /\ DeferredHere /\ DeferredLeads
    \/ ~Leftover /\ ~DeferredHere /\ NextLeads
Led  == Live /\ Waiting /\ ~(stale /\ Leftover) => Leads
Kept == GoalOK /\ Here /\ Placed /\ Led

LEMMA LedSame ==
    ASSUME Led, UNCHANGED <<layout, cache, section, deferred, pend, spine, goal, excused, stale>>,
           Waiting' => Waiting, mainPc = "closed" => mainPc' = "closed"
    PROVE  Led'
<1> SUFFICES ASSUME (Live /\ Waiting /\ ~(stale /\ Leftover))' PROVE Leads'
  BY DEF Led
<1>1. Leads
  BY DEF Led, Live, Leftover
<1>2. (Cleared <=> Cleared') /\ (DeferredHere <=> DeferredHere') /\ (Leftover <=> Leftover') /\ (Aside <=> Aside')
  BY DEF Cleared, DeferredHere, Leftover, Aside
<1>3. DeferredLeads <=> DeferredLeads'
  BY DEF DeferredLeads, Loaded, PageOffset
<1>4. NextLeads <=> NextLeads'
  BY <1>2 DEF NextLeads, PageOffset
<1>5. QED
  BY <1>1, <1>2, <1>3, <1>4 DEF Leads

LEMMA KeptSame ==
    ASSUME Kept, UNCHANGED <<layout, cache, section, deferred, pend, spine, goal, excused, stale>>,
           Waiting' <=> Waiting, mainPc = "closed" => mainPc' = "closed"
    PROVE  Kept'
<1>1. GoalOK' /\ Here'
  BY DEF Kept, GoalOK, Here, Live
<1>2. Placed'
  BY DEF Kept, Placed, Live, AtGoal, Still, Cleared, Pages
<1>3. QED
  BY <1>1, <1>2, LedSame DEF Kept

LEMMA KeptHolds == ASSUME Kept, Holds PROVE Kept'
<1>1. /\ UNCHANGED <<layout, cache, section, deferred, pend, spine, goal, excused, stale>>
      /\ Waiting' <=> Waiting
      /\ mainPc = "closed" => mainPc' = "closed"
  BY DEF Holds, Waiting, Opening
<1>2. QED
  BY <1>1, KeptSame

LEMMA KeptTurnTest == ASSUME Types, Kept, TurnTest PROVE Kept'
<1>1. UNCHANGED <<layout, cache, section, deferred, pend, renderPc, goal, excused, stale>> /\ mainPc # "closed"
  BY DEF TurnTest, drawVars
<1>2. CASE UNCHANGED spine
  BY <1>1, <1>2, KeptSame DEF Waiting, Opening
<1>3. CASE spine' = Spines
  <2>1. ~Live'
    BY <1>3, Located DEF Live
  <2>2. GoalOK'
    BY <1>1 DEF Kept, GoalOK
  <2>3. QED
    BY <2>1, <2>2 DEF Kept, Here, Placed, Led
<1>4. QED
  BY <1>2, <1>3 DEF TurnTest

(* A section that goes away, for another place. *)
LEMMA KeptAway ==
    ASSUME GoalOK', Here', section' = None, (Live /\ ~(stale /\ Leftover))' => Leads'
    PROVE  Kept'
BY DEF Kept, Placed, Led, Waiting

LEMMA KeptLost == ASSUME excused' PROVE Kept'
BY DEF Kept, GoalOK, Here, Placed, Led, Live

LEMMA FirstPage == ASSUME NEW L \in Layouts PROVE PageOffset(0, L) = 0 /\ 0 \in 0 .. Units - 1
<1>1. 0 \in Nat /\ 0 < Pages(L) /\ LenOf[L] \in Nat /\ Units \in Nat \ {0}
  BY PagesOfLayout, ReaderAssumption
<1>2. PageOffset(0, L) = 0 * LenOf[L]
  BY <1>1, PageOfOffset
<1>3. QED
  BY <1>1, <1>2

(* The first page, or the last, of another chapter. *)
LEMMA KeptToChapter == ASSUME Types, NEW s, NEW last \in BOOLEAN, last => Cleared, ToChapter(s, last) PROVE Kept'
<1> DEFINE n == 0
           l == pend.last \/ last
           o == IF last THEN Units - 1 ELSE 0
<1>1. /\ spine' = s /\ pend' = [pend EXCEPT !.next = n, !.last = l] /\ section' = None
      /\ goal' = [spine |-> s, offset |-> o] /\ excused' = OldOffset(s)
      /\ stale' = (stale \/ Leftover) /\ UNCHANGED <<deferred, layout>>
  BY DEF ToChapter, AimUnless
<1>2. n = 0 /\ l \in BOOLEAN /\ (l <=> pend.last \/ last) /\ pend \in Pends /\ layout \in Layouts
  BY DEF Types, PlaceOK, Pends, CacheOK
<1>3. o \in 0 .. Units - 1
  BY ReaderAssumption
<1> HIDE DEF n, l, o
<1>4. /\ pend'.next = n /\ pend'.last = l /\ pend'.offset = pend.offset /\ pend'.anchor = pend.anchor
      /\ pend'.percent = pend.percent
  BY <1>1, <1>2 DEF Pends
<1>5. GoalOK' /\ Here'
  BY <1>1, <1>3 DEF GoalOK, Here
<1>6. ASSUME (Live /\ ~(stale /\ Leftover))' PROVE Leads'
  <2>1. ~OldOffset(s)
    BY <1>1, <1>6 DEF Live
  <2>2. ~Leftover
    BY <1>1, <1>2, <1>4, <1>6 DEF Leftover
  <2>3. ~Aside' /\ (pend'.last <=> last)
    BY <1>2, <1>4, <2>2 DEF Leftover, Aside
  <2>4. CASE last
    <3>1. Cleared' \/ deferred'.spine # spine'
      BY <1>1, <2>4 DEF Cleared
    <3>2. goal'.offset = Units - 1
      BY <1>1, <2>4 DEF o
    <3>3. QED
      BY <2>3, <2>4, <3>1, <3>2 DEF Leads
  <2>5. CASE ~last
    <3>1. ~Leftover' /\ ~DeferredHere'
      BY <1>1, <2>1, <2>3, <2>5 DEF Leftover, Aside, OldOffset, DeferredHere
    <3>2. goal'.offset = 0 /\ pend'.next = 0
      BY <1>1, <1>2, <1>4, <2>5 DEF o
    <3>3. PageOffset(0, layout') = 0
      BY <1>1, <1>2, FirstPage
    <3>4. NextLeads'
      BY <3>2, <3>3 DEF NextLeads, PageOffset
    <3>5. QED
      BY <3>1, <3>4 DEF Leads
  <2>6. QED
    BY <2>4, <2>5
<1>7. QED
  BY <1>1, <1>5, <1>6, KeptAway

LEMMA KeptTurnsChapter == ASSUME Types, TurnCleared, TurnChapter \/ SkipNext \/ SkipChapter PROVE Kept'
<1>1. FALSE \in BOOLEAN /\ (turn.dir < 0) \in BOOLEAN
  OBVIOUS
<1>2. CASE TurnChapter
  BY <1>1, <1>2, KeptToChapter DEF TurnChapter, TurnCleared
<1>3. CASE SkipNext \/ SkipChapter
  BY <1>1, <1>3, KeptToChapter DEF SkipNext, SkipChapter
<1>4. QED
  BY <1>2, <1>3

(* A chapter of the list. *)
LEMMA KeptChosen == ASSUME Types, NEW s \in Chapters, ChooseChapter(s) PROVE Kept'
<1> DEFINE n == 0
<1>1. /\ spine' = s /\ pend' = [pend EXCEPT !.next = n, !.anchor = None] /\ UNCHANGED <<section, layout>>
      /\ goal' = [spine |-> s, offset |-> 0] /\ deferred' = NoDeferred(deferred)
      /\ stale' = (stale \/ Leftover)
  BY DEF ChooseChapter, JumpTo, Aim, AimUnless
<1>2. n = 0 /\ pend \in Pends /\ layout \in Layouts /\ Cleared' /\ section' = None
  BY <1>1, NoDeferredOK DEF Types, PlaceOK, CacheOK, Cleared, StepsOK, ChooseChapter
<1> HIDE DEF n
<1>3. /\ pend'.next = n /\ pend'.last = pend.last /\ pend'.offset = pend.offset /\ pend'.anchor = None
      /\ pend'.percent = pend.percent
  BY <1>1, <1>2 DEF Pends
<1>4. GoalOK' /\ Here'
  BY <1>1, <1>2, FirstPage DEF GoalOK, Here
<1>5. ASSUME (~(stale /\ Leftover))' PROVE Leads'
  <2>1. ~Leftover'
    BY <1>1, <1>3, <1>5 DEF Leftover
  <2>2. ~DeferredHere'
    BY <1>2 DEF Cleared, DeferredHere
  <2>3. goal'.offset = 0 /\ pend'.next = 0 /\ PageOffset(0, layout') = 0
    BY <1>1, <1>2, <1>3, FirstPage
  <2>4. NextLeads'
    BY <2>3 DEF NextLeads, PageOffset
  <2>5. QED
    BY <2>1, <2>2, <2>4 DEF Leads
<1>6. QED
  BY <1>2, <1>4, <1>5, KeptAway

(* A percentage, a footnote, and back from one. *)
LEMMA KeptPercent == ASSUME Types, NEW s \in Chapters, NEW o \in Anchors, JumpToPercent(s, o) PROVE Kept'
<1> DEFINE n == 0
<1>1. /\ spine' = s /\ pend' = [pend EXCEPT !.percent = o, !.next = n] /\ section' = None
      /\ goal' = [spine |-> s, offset |-> o]
  BY DEF JumpToPercent, JumpTo, Aim, AimUnless, ResetSection
<1>2. pend \in Pends /\ o \in 0 .. Units - 1
  BY ReaderAssumption DEF Types, PlaceOK
<1> HIDE DEF n
<1>3. pend'.percent = goal'.offset
  BY <1>1, <1>2 DEF Pends
<1>4. GoalOK' /\ Here'
  BY <1>1, <1>2 DEF GoalOK, Here
<1>5. QED
  BY <1>1, <1>3, <1>4, KeptAway DEF Leads

LEMMA KeptFootnote == ASSUME Types, NEW s \in Chapters, NEW o \in Anchors, Footnote(s, o) PROVE Kept'
<1> DEFINE n == 0
<1>1. /\ spine' = s /\ pend' = [pend EXCEPT !.anchor = o, !.next = n] /\ section' = None
      /\ goal' = [spine |-> s, offset |-> o] /\ stale' = (stale \/ Leftover)
  BY DEF Footnote, JumpTo, Aim, AimUnless, ResetSection
<1>2. pend \in Pends /\ o \in 0 .. Units - 1 /\ o # None
  BY ReaderAssumption, NoneAssumption DEF Types, PlaceOK
<1> HIDE DEF n
<1>3. pend'.anchor = o /\ pend'.percent = pend.percent
  BY <1>1, <1>2 DEF Pends
<1>4. GoalOK' /\ Here'
  BY <1>1, <1>2 DEF GoalOK, Here
<1>5. ASSUME ~(stale /\ Leftover)' PROVE Leads'
  <2>1. pend.percent = None
    BY <1>1, <1>2, <1>3, <1>5 DEF Leftover
  <2>2. QED
    BY <1>1, <1>3, <2>1 DEF Leads
<1>6. QED
  BY <1>1, <1>4, <1>5, KeptAway

LEMMA KeptBack == ASSUME Types, RestoreSavedPosition PROVE Kept'
<1> DEFINE pos == origin[Len(origin)]
           p == pos.page
<1>1. /\ spine' = pos.spine /\ pend' = [pend EXCEPT !.next = p] /\ section' = None
      /\ goal' = [spine |-> pos.spine, offset |-> PageOffset(p, layout)] /\ excused' = (p < 0)
      /\ stale' = (stale \/ Leftover) /\ deferred' = NoDeferred(deferred) /\ UNCHANGED layout /\ origin # <<>>
  BY DEF RestoreSavedPosition, ResetSection, PageOffset
<1>2. pend \in Pends /\ layout \in Layouts /\ Cleared'
  BY <1>1, NoDeferredOK DEF Types, PlaceOK, CacheOK, Cleared
<1>3. p \in PageNumbers
  <2> DEFINE S == [spine : Chapters, page : PageNumbers]
  <2>1. origin \in Seq(S) /\ origin # <<>>
    BY <1>1 DEF Types, OriginOK
  <2> HIDE DEF S
  <2>2. pos \in S
    BY <2>1, EndsOfSequence
  <2>3. QED
    BY <2>2 DEF S
<1> HIDE DEF p
<1>4. /\ pend'.next = p /\ pend'.last = pend.last /\ pend'.offset = pend.offset /\ pend'.anchor = pend.anchor
      /\ pend'.percent = pend.percent
  BY <1>1, <1>2 DEF Pends
<1>9. excused' \/ p \in Nat
  <2>1. p \in Nat \/ p < 0
    BY <1>3 DEF PageNumbers
  <2>2. (p < 0) => excused'
    BY <1>1, Zenon
  <2>3. QED
    BY <2>1, <2>2
<1>5. GoalOK' /\ Here'
  <2>1. p \in Nat => PageOffset(p, layout) \in 0 .. Units - 1
    BY <1>2, PageOfOffset
  <2>2. goal'.offset = PageOffset(p, layout) /\ goal'.spine = spine'
    BY <1>1
  <2>3. QED
    BY <1>9, <2>1, <2>2 DEF GoalOK, Here
<1>6. ASSUME (Live /\ ~(stale /\ Leftover))' PROVE Leads'
  <2>1. ~Leftover'
    BY <1>1, <1>4, <1>6 DEF Leftover
  <2>2. ~DeferredHere'
    BY <1>2 DEF Cleared, DeferredHere
  <2>3. p >= 0 /\ goal'.offset = PageOffset(p, layout)
    BY <1>1, <1>9, <1>6 DEF Live
  <2>4. NextLeads'
    BY <1>1, <1>2, <1>4, <2>3 DEF NextLeads, PageOffset
  <2>5. QED
    BY <2>1, <2>2, <2>4 DEF Leads
<1>7. QED
  BY <1>1, <1>5, <1>6, KeptAway

(* A place in the section that is there. *)
LEMMA KeptThere ==
    ASSUME GoalOK', Here', section' # None, ~Opening', Live' => AtGoal' /\ Still'
    PROVE  Kept'
BY DEF Kept, Placed, Led, Waiting

LEMMA KeptBookmark ==
    ASSUME Types, NEW s \in Chapters, NEW o \in Anchors, NEW L \in Layouts, GoToBookmark(s, o, L)
    PROVE  Kept'
<1>1. /\ goal' = [spine |-> s, offset |-> o] /\ stale' = (stale \/ Leftover) /\ UNCHANGED <<layout, renderPc>>
      /\ excused' = (section # None /\ spine = s /\ PageAt(section, o) = None)
      /\ deferred' = NoDeferred(deferred) /\ LockFree
  BY DEF GoToBookmark, drawVars
<1>2. o \in 0 .. Units - 1 /\ o # None /\ pend \in Pends /\ Cleared' /\ ~Opening'
  BY <1>1, NoDeferredOK, ReaderAssumption, NoneAssumption DEF Types, PlaceOK, Cleared, Opening, LockFree
<1>3. CASE section # None /\ spine = s
  <2> DEFINE n == LenOf[layout]
             m == Pages(layout)
  <2>1. SectionOK(section) /\ section.layout = layout /\ layout \in Layouts
    BY <1>3 DEF Types, SectionInv, LocatedOK, CacheOK
  <2>2. PageAt(section, o) # None => section'.page = o \div n /\ section'.spine = section.spine
    <3> DEFINE p == o \div n
    <3>1. PageAt(section, o) # None => PageAt(section, o) = p
      BY <2>1 DEF PageAt
    <3>2. n \in Nat \ {0} /\ o \in Nat
      BY <1>2, <2>1, PagesOfLayout
    <3>3. p \in Nat
      BY <3>2, Quotient
    <3> HIDE DEF p
    <3>4. p \in PageNumbers
      BY <3>3 DEF PageNumbers
    <3>5. PageAt(section, o) # None => section' = [section EXCEPT !.page = p]
      BY <1>3, <3>1 DEF GoToBookmark
    <3> DEFINE new == [section EXCEPT !.page = p]
    <3>6. new.page = p /\ SameLayout(new, section)
      <4>1. SectionOK(new)
        BY <2>1, <3>4, PageTurned
      <4>2. new # None
        BY <4>1, SectionRecord
      <4>3. QED
        BY <2>1, <3>4, <4>2, PageTurned DEF SameLayout, SameChapter
    <3> HIDE DEF new
    <3>7. PageAt(section, o) # None => section' = new
      BY <3>5 DEF new
    <3>8. PageAt(section, o) # None => section'.page = p /\ section'.spine = section.spine
      BY <3>6, <3>7 DEF SameLayout, SameChapter
    <3>9. QED
      BY <3>8 DEF p
  <2>3. spine' = s /\ section' # None
    <3>1. SameLayout(section', section) /\ UNCHANGED spine
      BY <1>3, BookmarkEffect
    <3>2. QED
      BY <1>3, <3>1 DEF SameLayout, SameChapter
  <2>4. GoalOK' /\ Here'
    BY <1>1, <1>2, <2>3 DEF GoalOK, Here
  <2>5. o \div n \in 0 .. m - 1 /\ m \in Nat
    BY <1>2, <2>1, PageOfUnit, PagesOfLayout
  <2> HIDE DEF n, m
  <2>6. o \div n \in Int /\ m - 1 \in Int /\ o \div n <= m - 1
    BY <2>5
  <2> DEFINE q == o \div n
             k == m - 1
  <2> HIDE DEF q, k
  <2>7. Min({q, k}) = q
    <3>1. q \in Int /\ k \in Int /\ q <= k
      BY <2>6 DEF q, k
    <3>2. QED
      BY <3>1, MinOfTwo
  <2>8. ASSUME Live' PROVE AtGoal'
    <3>1. section'.page = q /\ goal'.offset \div LenOf[layout'] = q /\ Pages(layout') - 1 = k
      BY <1>1, <1>3, <2>2, <2>8 DEF Live, q, k, n, m
    <3>2. Min({section'.page, Pages(layout') - 1}) = goal'.offset \div LenOf[layout']
      BY <2>7, <3>1
    <3>3. QED
      BY <3>2 DEF AtGoal, Pages
  <2>9. QED
    BY <1>2, <2>3, <2>4, <2>8, KeptThere DEF Still
<1>4. CASE ~(section # None /\ spine = s)
  <2> DEFINE r == o \div LenOf[L]
  <2>1. pend' = [pend EXCEPT !.offset = o, !.next = r] /\ section' = None /\ spine' = s
    BY <1>4, BookmarkEffect
  <2> HIDE DEF r
  <2>2. pend'.offset = o /\ pend'.anchor = pend.anchor /\ pend'.percent = pend.percent
    BY <1>2, <2>1 DEF Pends
  <2>3. GoalOK' /\ Here'
    BY <1>1, <1>2, <2>1 DEF GoalOK, Here
  <2>4. ASSUME ~(stale /\ Leftover)' PROVE Leads'
    <3>1. pend.percent = None /\ pend.anchor = None
      BY <1>1, <1>2, <2>2, <2>4 DEF Leftover
    <3>2. QED
      BY <1>1, <2>2, <3>1 DEF Leads
  <2>5. QED
    BY <2>1, <2>3, <2>4, KeptAway
<1>5. QED
  BY <1>3, <1>4

(* Back from the end of the book, to the last page of its last chapter. *)
LEMMA KeptFromEnd == ASSUME Types, LeftStale, EndLast, ReturnFromEnd PROVE Kept'
<1> DEFINE n == 0
           l == TRUE
           s == Spines - 1
<1>1. /\ spine' = s /\ pend' = [pend EXCEPT !.next = n, !.last = l] /\ UNCHANGED <<section, deferred, layout, renderPc>>
      /\ goal' = [spine |-> s, offset |-> Units - 1] /\ excused' = (LastMissed \/ OldPlace(s))
      /\ stale' = (stale \/ section # None)
  BY DEF ReturnFromEnd, AimUnless, drawVars
<1>2. ~Opening /\ spine = Spines /\ pend \in Pends /\ l \in BOOLEAN /\ layout \in Layouts
  BY Located DEF ReturnFromEnd, Opening, Types, PlaceOK, CacheOK
<1> HIDE DEF s
<1>3. GoalOK' /\ Here'
  BY <1>1, <1>2, LastPage DEF GoalOK, Here
<1>4. Live' => ~LastMissed /\ ~OldPlace(s)
  BY <1>1, Zenon DEF Live
<1>5. Live' => Cleared' \/ deferred'.spine # spine'
  BY <1>1, <1>4 DEF OldPlace, Cleared
<1>6. CASE section = None
  <2> HIDE DEF n, l
  <2>1. /\ pend'.last = l /\ pend'.offset = pend.offset /\ pend'.anchor = pend.anchor /\ pend'.percent = pend.percent
    BY <1>1, <1>2 DEF Pends
  <2>2. ASSUME (Live /\ ~(stale /\ Leftover))' PROVE Leads'
    <3>1. ~stale
      BY <1>1, <2>1, <2>2 DEF Leftover, l
    <3>2. ~Aside'
      BY <1>2, <1>6, <2>1, <3>1 DEF LeftStale, Leftover, Aside
    <3>3. pend'.last /\ goal'.offset = Units - 1
      BY <1>1, <2>1 DEF l
    <3>4. QED
      BY <1>5, <2>2, <3>2, <3>3 DEF Leads
  <2>3. QED
    BY <1>1, <1>3, <1>6, <2>2, KeptAway
<1>7. CASE section # None
  <2> DEFINE k == Pages(layout) - 1
             p == section.page
  <2>1. section.layout = layout /\ p \in Int /\ k \in Int /\ Pages(layout) \in Int
    BY <1>2, <1>7, Located, PagesOfLayout DEF Types, LocatedOK
  <2>2. ASSUME Live' PROVE Min({p, k}) = k
    <3>1. faults \in Int /\ MaxFaults \in Int /\ faults <= MaxFaults
      BY FaultCounted
    <3>2. p + 1 >= Pages(layout)
      BY <1>2, <1>4, <1>7, <2>1, <2>2, <3>1 DEF EndLast, NoFault, LastMissed
    <3>3. p >= k
      BY <2>1, <3>2
    <3> HIDE DEF p, k
    <3>4. QED
      BY <2>1, <3>3, MinOfTwo
  <2>3. ASSUME Live' PROVE AtGoal'
    <3>1. (Units - 1) \div LenOf[layout] = k
      BY <1>2, LastPage
    <3>2. Min({section'.page, Pages(layout') - 1}) = goal'.offset \div LenOf[layout']
      BY <1>1, <2>2, <2>3, <3>1
    <3>3. QED
      BY <3>2 DEF AtGoal, Pages
  <2>4. ~Opening' /\ section' # None
    BY <1>1, <1>2, <1>7 DEF Opening
  <2>5. QED
    BY <1>3, <1>5, <2>3, <2>4, KeptThere DEF Still
<1>8. QED
  BY <1>6, <1>7

LEMMA KeptTurnLock == ASSUME Types, Kept, LockHeld, TurnLock PROVE Kept'
<1>1. /\ UNCHANGED <<layout, section, spine, goal, excused, renderPc>> /\ deferred' = NoDeferred(deferred)
      /\ LockFree /\ mainPc = "turnLock"
  BY DEF TurnLock, drawVars, history
<1>2. CASE excused
  BY <1>1, <1>2, KeptLost
<1>3. CASE ~excused
  <2>1. section # None /\ ~Opening
    BY <1>1, <1>3 DEF LockHeld, Opening, LockFree
  <2>2. Cleared'
    BY <1>1, NoDeferredOK DEF Cleared, Types, PlaceOK
  <2>3. Live' => Live /\ AtGoal
    BY <1>1, <2>1 DEF Kept, Live, Placed, Waiting
  <2>4. AtGoal => AtGoal'
    BY <1>1 DEF AtGoal, Pages
  <2>5. GoalOK' /\ Here'
    BY <1>1, <2>3 DEF Kept, GoalOK, Here
  <2>6. QED
    BY <1>1, <2>1, <2>2, <2>3, <2>4, <2>5, KeptThere DEF Still, Opening
<1>4. QED
  BY <1>2, <1>3

(* The layout changes, or the list of chapters opens: the place is remembered. *)
LEMMA KeptRemembered ==
    ASSUME Types, CacheOf, LeftStale, Kept, LockFree, spine < Spines, mainPc = "loop",
           deferred' = Remembered[1], pend' = [pend EXCEPT !.next = Remembered[2]],
           ResetSection, AimRemembered, UNCHANGED <<spine, stale, renderPc>>, layout' \in Layouts
    PROVE  Kept'
<1>0. pend \in Pends /\ section' = None /\ cache' = Dispose(cache) /\ layout \in Layouts /\ spine \in Chapters /\ ~Opening
  BY Located DEF Types, PlaceOK, CacheOK, ResetSection, Opening, LockFree
<1>1. CASE section # None /\ InBounds(section)
  <2> DEFINE p == section.page
             o == OffsetOf(section, p)
             c == section.count
  <2>1. section.spine = spine /\ section.layout = layout /\ p \in Nat /\ p < Pages(layout)
    <3>1. section.spine = spine /\ section.layout = layout
      BY <1>0, <1>1, Located DEF Types, LocatedOK
    <3>2. c \in Nat /\ c <= Pages(section.layout) /\ Pages(section.layout) \in Nat
      BY <1>1, SectionRecord DEF Types, SectionInv
    <3>3. p \in 0 .. c - 1
      BY <1>1 DEF InBounds
    <3> HIDE DEF p, c
    <3>4. QED
      BY <3>1, <3>2, <3>3
  <2>2. o = PageOffset(p, layout) /\ o \in 0 .. Units - 1
    BY <1>0, <2>1, PageOfOffset DEF OffsetOf
  <2>3. /\ goal' = [spine |-> section.spine, offset |-> o]
        /\ deferred' = [spine |-> spine, total |-> c, offset |-> o] /\ pend' = [pend EXCEPT !.next = p]
    BY <1>1 DEF AimRemembered, Aim, AimUnless, Remembered
  <2>4. cache'[spine].layout = layout
    BY <1>0, <1>1, <2>1, DisposedLayout
  <2> HIDE DEF p, o, c
  <2>5. /\ pend'.next = p /\ pend'.last = pend.last /\ pend'.offset = pend.offset /\ pend'.anchor = pend.anchor
        /\ pend'.percent = pend.percent
    BY <1>0, <2>3 DEF Pends
  <2>6. GoalOK' /\ Here'
    BY <2>1, <2>2, <2>3 DEF GoalOK, Here
  <2>7. ASSUME ~(stale /\ Leftover)' PROVE Leads'
    <3>1. ~Leftover'
      BY <1>0, <1>1, <2>5, <2>7 DEF LeftStale, Leftover
    <3>2. DeferredHere'
      BY <2>2, <2>3, NoneAssumption DEF DeferredHere
    <3>3. pend'.next >= 0 /\ deferred'.offset = goal'.offset /\ goal'.offset = PageOffset(pend'.next, cache'[spine'].layout)
      BY <2>1, <2>2, <2>3, <2>4, <2>5
    <3>4. DeferredLeads'
      BY <1>0, <3>3 DEF DeferredLeads, PageOffset
    <3>5. QED
      BY <3>1, <3>2, <3>4 DEF Leads
  <2>8. QED
    BY <1>0, <2>6, <2>7, KeptAway
<1>2. CASE section # None /\ ~InBounds(section)
  <2>1. excused'
    BY <1>2 DEF AimRemembered
  <2>2. QED
    BY <2>1, KeptLost
<1>3. CASE section = None
  <2> DEFINE n == pend.next
  <2>1. UNCHANGED <<deferred, cache, goal>> /\ pend' = [pend EXCEPT !.next = n]
    BY <1>0, <1>3 DEF Remembered, Dispose, AimRemembered
  <2>2. excused' = (excused \/ (pend.next # 0 /\ deferred.offset \in {None, 0}))
    BY <1>3 DEF AimRemembered
  <2>3. pend' = pend
    BY <1>0, <2>1 DEF Pends
  <2> HIDE DEF n
  <2>4. Live' => Live /\ (pend.next = 0 \/ deferred.offset \notin {None, 0})
    BY <2>2 DEF Live
  <2>5. GoalOK' /\ Here'
    BY <2>1, <2>2, <2>4 DEF Kept, GoalOK, Here
  <2>6. ASSUME (Live /\ ~(stale /\ Leftover))' PROVE Leads'
    <3>1. Leads
      BY <1>3, <2>3, <2>4, <2>6 DEF Kept, Led, Waiting, Leftover
    <3>2. (Aside' <=> Aside) /\ (Leftover' <=> Leftover) /\ (DeferredHere' <=> DeferredHere) /\ (Cleared' <=> Cleared)
      BY <2>1, <2>3 DEF Aside, Leftover, DeferredHere, Cleared
    <3>3. CASE DeferredHere /\ DeferredLeads
      <4>1. pend.next >= 0 /\ (cache[spine].pages > 0 => goal.offset = PageOffset(pend.next, cache[spine].layout))
        BY <1>3, <3>3 DEF DeferredLeads
      <4>2. deferred.offset = goal.offset
        <5>1. CASE deferred.offset = 0 /\ Loaded(spine)
          <6>1. pend.next = 0
            BY <2>4, <2>6, <5>1
          <6>2. goal.offset = PageOffset(0, layout)
            BY <4>1, <5>1, <6>1 DEF Loaded
          <6>3. QED
            BY <1>0, <5>1, <6>2, FirstPage
        <5>2. QED
          BY <1>3, <3>3, <5>1 DEF DeferredLeads
      <4>3. DeferredLeads'
        BY <1>0, <2>1, <2>3, <4>1, <4>2 DEF DeferredLeads, PageOffset
      <4>4. QED
        BY <3>1, <3>2, <3>3, <4>3, <2>1, <2>3 DEF Leads, Cleared
    <3>4. CASE ~DeferredHere /\ NextLeads
      <4>1. pend.next = 0
        BY <2>4, <2>6, <3>4 DEF NextLeads, Cleared
      <4>2. goal.offset = 0
        BY <1>0, <3>4, <4>1, FirstPage DEF NextLeads
      <4>3. PageOffset(0, layout') = 0
        BY FirstPage
      <4>4. NextLeads'
        <5>1. pend'.next = 0 /\ goal'.offset = 0
          BY <2>1, <2>3, <4>1, <4>2
        <5>2. goal'.offset = PageOffset(pend'.next, layout')
          BY <4>3, <5>1
        <5>3. QED
          BY <5>1, <5>2 DEF NextLeads, PageOffset
      <4>5. QED
        BY <2>1, <2>3, <3>1, <3>2, <3>4, <4>4 DEF Leads
    <3>5. QED
      BY <2>1, <2>3, <3>1, <3>2, <3>3, <3>4 DEF Leads
  <2>7. QED
    BY <1>0, <2>5, <2>6, KeptAway
<1>4. QED
  BY <1>1, <1>2, <1>3

LEMMA KeptRelayout ==
    ASSUME Types, CacheOf, LeftStale, Kept, (\E L \in Layouts : Relayout(L)) \/ OpenChapters
    PROVE  Kept'
<1>1. /\ LockFree /\ spine < Spines /\ mainPc = "loop" /\ ResetSection /\ AimRemembered
      /\ deferred' = Remembered[1] /\ pend' = [pend EXCEPT !.next = Remembered[2]]
      /\ UNCHANGED <<spine, stale, renderPc>>
  BY DEF Relayout, OpenChapters, Ready, Idle, drawVars
<1>2. layout' \in Layouts
  BY DEF Relayout, OpenChapters, Types, CacheOK
<1>3. QED
  BY <1>1, <1>2, KeptRemembered

(* A page is turned, or the first page of the chapter skipped to. *)
LEMMA KeptPageSet ==
    ASSUME Types, NEW p, section # None, PageSet(p), section'.page = p,
           spine < Spines, UNCHANGED <<layout, deferred, renderPc, spine>>,
           ~excused' => p \in Nat /\ ~Opening /\ (Cleared \/ p = 0)
    PROVE  Kept'
<1>1. /\ goal' = [spine |-> section.spine, offset |-> Min({OffsetOf(section, Max({p, 0})), Units - 1})]
      /\ deferred.spine = section.spine /\ deferred.offset # None => excused'
  BY DEF PageSet, OldOffset
<1>2. section.spine = spine /\ section.layout = layout /\ layout \in Layouts
  BY Located DEF Types, LocatedOK, CacheOK
<1>3. CASE ~excused'
  <2>1. p \in Nat /\ ~Opening
    BY <1>3
  <2>2. Max({p, 0}) = p
    BY <2>1, MaxOfTwo
  <2>3. goal'.spine = spine /\ goal'.offset = PageOffset(p, layout)
    BY <1>1, <1>2, <2>2 DEF PageOffset, OffsetOf
  <2>4. goal'.offset \in 0 .. Units - 1 /\ goal'.offset \div LenOf[layout] = Min({p, Pages(layout) - 1})
    BY <1>2, <2>1, <2>3, PageOfOffset
  <2>5. GoalOK' /\ Here'
    BY <2>3, <2>4 DEF GoalOK, Here
  <2>6. AtGoal'
    BY <2>4 DEF AtGoal, Pages
  <2>7. Still'
    BY <1>1, <1>2, <1>3 DEF Still, Cleared
  <2>8. section' # None
    <3> DEFINE new == [section EXCEPT !.page = p]
    <3>1. section' = new /\ SectionOK(section)
      BY DEF PageSet, Types, SectionInv
    <3>2. SectionOK(new)
      BY <2>1, <3>1, PageTurned DEF PageNumbers
    <3> HIDE DEF new
    <3>3. QED
      BY <3>1, <3>2, SectionRecord
  <2>9. QED
    BY <2>1, <2>5, <2>6, <2>7, <2>8, KeptThere DEF Opening
<1>4. CASE excused'
  BY <1>4, KeptLost
<1>5. QED
  BY <1>3, <1>4

LEMMA KeptPages ==
    ASSUME Types, Types', Inside, TurnAlone, TurnCleared, SkipAlone, BackDue, (TurnPage \/ SkipPage) /\ section # None
    PROVE  Kept'
<1>1. /\ spine < Spines /\ UNCHANGED <<layout, deferred, renderPc, spine>> /\ section' # None
      /\ mainPc \in {"turnPage", "skipPage"}
  <2>1. UNCHANGED <<layout, deferred, renderPc, spine>> /\ mainPc \in {"turnPage", "skipPage"}
    BY DEF TurnPage, SkipPage, drawVars
  <2>2. section' # None
    BY TurnPageEffect, SkipPageEffect DEF SameLayout, SameChapter
  <2>3. QED
    BY <2>1, <2>2 DEF Inside, InTurn
<1>2. PICK p : PageSet(p) /\ (SkipPage => p = 0)
  BY DEF TurnPage, SkipPage, Panic
<1>3. section'.page = p
  BY <1>2, SectionRecord DEF PageSet, Types, SectionInv, SectionOK, Sections
<1>4. ASSUME ~excused' PROVE p \in Nat /\ ~Opening /\ (Cleared \/ p = 0)
  <2>1. faults < MaxFaults => renderPc \notin {"build", "place"}
    BY <1>2, <1>4 DEF PageSet
  <2>2. ~Opening
    <3>1. faults = MaxFaults \/ faults < MaxFaults
      BY FaultCounted
    <3>2. NoFault => renderPc \notin {"build", "place"}
      BY <1>1 DEF TurnAlone, SkipAlone, InTurn, Opening
    <3>3. QED
      BY <2>1, <3>1, <3>2 DEF NoFault, Opening
  <2>3. CASE TurnPage
    <3>1. p >= 0 /\ p \in PageNumbers
      BY <1>1, <1>3, <1>4, <2>3, TurnReal, Located, SectionRecord DEF Types, SectionInv
    <3>2. Cleared
      BY <2>3 DEF TurnCleared, TurnPage
    <3>3. QED
      BY <2>2, <3>1, <3>2 DEF PageNumbers
  <2>4. CASE SkipPage
    BY <1>2, <2>2, <2>4
  <2>5. QED
    BY <2>3, <2>4
<1>5. QED
  BY <1>1, <1>2, <1>3, <1>4, KeptPageSet

(* The build that goes on leaves the page where it is. *)
LEMMA KeptExtend == ASSUME Types, Kept, Extend PROVE Kept'
<1>1. UNCHANGED <<layout, cache, spine, pend, deferred, goal, excused, stale, renderPc>> /\ LockFree
      /\ mainPc # "closed"
  BY DEF Extend, drawVars, history
<1>2. CASE UNCHANGED section
  BY <1>1, <1>2, KeptSame DEF Waiting, Opening
<1>3. CASE section # None /\ Restarted(section', section)
  <2>1. section' # None /\ section'.page = section.page /\ ~Opening'
    BY <1>1, <1>3 DEF Restarted, SameChapter, Opening, LockFree
  <2>2. GoalOK' /\ Here' /\ (Live' => Live)
    BY <1>1 DEF Kept, GoalOK, Here, Live
  <2>3. ~Waiting
    BY <1>1, <1>3 DEF Waiting, Opening, LockFree
  <2>4. Live' => AtGoal' /\ Still'
    BY <1>1, <2>1, <2>2, <2>3 DEF Kept, Placed, AtGoal, Still, Cleared, Pages
  <2>5. QED
    BY <2>1, <2>2, <2>4, KeptThere
<1>4. QED
  BY <1>2, <1>3, ExtendEffect

(* What is deferred no longer moves the page. *)
LEMMA StillKeeps ==
    ASSUME Types, NEW sec, SectionOK(sec), Still, sec.page = section.page
    PROVE  /\ Repositioned(sec).page = sec.page
           /\ deferred' \in {deferred, NoDeferred(deferred)} /\ spine' = spine /\ section'.page = section.page => Still'
<1>1. CASE Cleared
  BY <1>1, RepositionedOK, NoDeferredOK DEF Cleared, Types, PlaceOK, Deferreds, Still
<1>2. CASE deferred.spine # spine
  BY <1>2, RepositionedOK, NoDeferredOK DEF Types, PlaceOK, Deferreds, Still
<1>3. CASE deferred.offset = None /\ section.page = 0
  <2>1. sec.page = 0 /\ sec.count \in Nat
    BY <1>3, SectionRecord
  <2>2. Repositioned(sec).page = 0
    <3>1. (sec.page * sec.count) \div deferred.total = 0 \/ ~(deferred.total > 0)
      <4>1. sec.page * sec.count = 0
        BY <2>1
      <4>2. deferred.total \in Nat
        BY DEF Types, PlaceOK, Deferreds
      <4>3. QED
        BY <4>1, <4>2
    <3>2. CASE DoesReposition(sec) /\ spine = deferred.spine
      <4> DEFINE k == sec.count - 1
                 m == Min({0, k})
      <4>1. RepositionedPage(sec) = Max({0, m})
        BY <1>3, <2>1, <3>1, <3>2 DEF RepositionedPage
      <4>2. k \in Int
        BY <2>1
      <4> HIDE DEF k
      <4>3. m \in Int /\ m <= 0
        BY <4>2, MinOfTwo
      <4> HIDE DEF m
      <4>4. Max({0, m}) = 0
        BY <4>3, MaxOfTwo
      <4> DEFINE r == RepositionedPage(sec)
                 new == [sec EXCEPT !.page = r]
      <4>5. r = 0 /\ r \in PageNumbers
        BY <4>1, <4>4 DEF PageNumbers
      <4>6. Repositioned(sec) = new
        BY <3>2 DEF Repositioned
      <4> HIDE DEF r
      <4>7. new.page = r
        BY <4>5, PageTurned
      <4>8. QED
        BY <4>5, <4>6, <4>7
    <3>3. CASE ~(DoesReposition(sec) /\ spine = deferred.spine)
      BY <2>1, <3>3, RepositionedOK DEF Repositioned, DoesReposition, Types, PlaceOK, Deferreds
    <3>4. QED
      BY <3>2, <3>3
  <2>3. deferred' \in {deferred, NoDeferred(deferred)} /\ spine' = spine /\ section'.page = section.page => Still'
    BY <1>3, NoDeferredOK DEF Types, PlaceOK, Still
  <2>4. QED
    BY <2>1, <2>2, <2>3
<1>4. QED
  BY <1>1, <1>2, <1>3 DEF Still

LEMMA KeptTick == ASSUME Types, Kept, Tick PROVE Kept'
<1>1. UNCHANGED <<layout, spine, pend, goal, renderPc>> /\ LockFree /\ mainPc # "closed"
  BY DEF Tick, drawVars
<1>2. CASE UNCHANGED <<cache, section, deferred, excused, stale>>
  BY <1>1, <1>2, KeptSame DEF Waiting, Opening
<1>3. CASE excused'
  BY <1>3, KeptLost
<1>4. CASE section # None /\ section.building /\ UNCHANGED <<excused, stale>> /\ section' = Repositioned(Advanced(section))
           /\ deferred' \in {deferred, NoDeferred(deferred)}
  <2> DEFINE sec == Advanced(section)
  <2>1. SectionOK(sec) /\ sec.page = section.page
    BY <1>4, AdvancedOK DEF Types, SectionInv
  <2> HIDE DEF sec
  <2>2. section' = Repositioned(sec) /\ section' # None /\ ~Opening' /\ ~Waiting
    <3>1. section' = Repositioned(sec)
      BY <1>4 DEF sec
    <3>2. SectionOK(section')
      BY <2>1, <3>1, RepositionedOK DEF Types, PlaceOK, Deferreds
    <3>3. QED
      BY <1>1, <1>4, <3>1, <3>2, SectionRecord DEF Opening, LockFree, Waiting
  <2>3. GoalOK' /\ Here' /\ (Live' => Live)
    BY <1>1, <1>4 DEF Kept, GoalOK, Here, Live
  <2>4. ASSUME Live' PROVE AtGoal' /\ Still'
    <3>1. AtGoal /\ Still
      BY <2>2, <2>3, <2>4 DEF Kept, Placed
    <3>2. section'.page = section.page /\ Still'
      BY <1>1, <1>4, <2>1, <2>2, <3>1, StillKeeps
    <3>3. AtGoal'
      BY <1>1, <3>1, <3>2 DEF AtGoal, Pages
    <3>4. QED
      BY <3>2, <3>3
  <2>5. QED
    BY <2>2, <2>3, <2>4, KeptThere
<1>5. QED
  <2>1. CASE section # None /\ section.building /\ ~PlaceLost
    <3>1. section' = Repositioned(Advanced(section)) /\ UNCHANGED <<excused, stale>>
          /\ deferred' \in {deferred, NoDeferred(deferred)}
      BY <2>1 DEF Tick, Panic
    <3>2. QED
      BY <1>4, <2>1, <3>1
  <2>2. CASE PlaceLost
    BY <1>3, <2>2 DEF PlaceLost
  <2>3. CASE section = None \/ ~section.building
    BY <1>2, <2>3 DEF Tick
  <2>4. QED
    BY <2>1, <2>2, <2>3

----------------------------------------------------------------------------
(* render(): the section is opened, and gets the page that pend and deferred lead to. *)
LEMMA KeptLoses == ASSUME LosesPlace PROVE Kept'
BY KeptLost DEF LosesPlace

LEMMA KeptOpen == ASSUME Types, Kept, RenderOpen PROVE Kept'
<1>1. /\ UNCHANGED <<layout, spine, pend, goal, mainPc>> /\ section = None /\ spine \in Chapters /\ layout \in Layouts
      /\ deferred' = IF Loaded(spine) THEN NoDeferred(deferred) ELSE deferred
  BY OpenEffect DEF RenderOpen, mainVars, Types, CacheOK
<1>2. CASE excused'
  BY <1>2, KeptLost
<1>3. CASE ~excused'
  <2>1. UNCHANGED <<excused, stale>> /\ section' # None /\ Opening' /\ section'.spine = spine
    <3>1. ~Failed
      BY <1>3, FaultCounted DEF Failed, RenderOpen, PlaceLost
    <3>2. UNCHANGED <<excused, stale>>
      BY <1>3 DEF RenderOpen, PlaceLost
    <3>3. QED
      BY <3>1, <3>2, OpenEffect DEF Opening
  <2>2. GoalOK' /\ Here'
    BY <1>1, <2>1 DEF Kept, GoalOK, Here, Live
  <2>3. Placed'
    BY <2>1 DEF Placed, Waiting
  <2>4. ASSUME (Live /\ ~(stale /\ Leftover))' PROVE Leads'
    <3>1. Leads
      BY <1>1, <2>1, <2>4 DEF Kept, Led, Live, Waiting, Leftover
    <3>2. (Aside' <=> Aside) /\ (Leftover' <=> Leftover)
      BY <1>1 DEF Aside, Leftover
    <3>3. CASE Loaded(spine)
      <4>1. Cleared' /\ ~DeferredHere'
        BY <1>1, <3>3, NoDeferredOK DEF Cleared, DeferredHere, Types, PlaceOK
      <4>2. CASE DeferredHere /\ DeferredLeads
        <5>1. pend.next >= 0 /\ goal.offset = PageOffset(pend.next, cache[spine].layout) /\ cache[spine].layout = layout
          BY <1>1, <3>3, <4>2 DEF DeferredLeads, Loaded
        <5>2. pend'.next >= 0 /\ goal'.offset = PageOffset(pend'.next, layout')
          BY <1>1, <5>1
        <5>3. NextLeads'
          BY <4>1, <5>2 DEF NextLeads, PageOffset
        <5>4. QED
          BY <1>1, <3>1, <3>2, <4>1, <4>2, <5>3 DEF Leads
      <4>3. CASE ~DeferredHere /\ NextLeads
        <5>1. pend'.next >= 0 /\ goal'.offset = PageOffset(pend'.next, layout')
          BY <1>1, <4>3 DEF NextLeads
        <5>2. NextLeads'
          BY <4>1, <5>1 DEF NextLeads, PageOffset
        <5>3. QED
          BY <1>1, <3>1, <3>2, <4>1, <4>3, <5>2 DEF Leads
      <4>4. QED
        BY <1>1, <3>1, <3>2, <4>1, <4>2, <4>3 DEF Leads
    <3>4. CASE ~Loaded(spine)
      <4>1. UNCHANGED deferred /\ (DeferredHere' <=> DeferredHere) /\ (Cleared' <=> Cleared)
        BY <1>1, <3>4 DEF DeferredHere, Cleared
      <4>2. DeferredLeads => DeferredLeads'
        BY <1>1, <2>1, <3>4, <4>1 DEF DeferredLeads
      <4>3. NextLeads => NextLeads'
        <5>1. NextLeads => pend'.next >= 0 /\ goal'.offset = PageOffset(pend'.next, layout') /\ (pend'.next = 0 \/ Cleared')
          BY <1>1, <4>1 DEF NextLeads
        <5>2. QED
          BY <5>1 DEF NextLeads, PageOffset
      <4>4. QED
        BY <1>1, <3>1, <3>2, <4>1, <4>2, <4>3 DEF Leads
    <3>5. QED
      BY <3>3, <3>4
  <2>5. Led'
    BY <2>4 DEF Led
  <2>6. QED
    BY <2>2, <2>3, <2>5 DEF Kept
<1>4. QED
  BY <1>2, <1>3

(* The steps in between. *)
LEMMA KeptBuild ==
    ASSUME Types, Kept, RenderBuild \/ RenderBuilt, section' # None, Opening',
           UNCHANGED <<layout, spine, pend, goal, mainPc, excused, stale, deferred>>
    PROVE  Kept'
<1>1. Opening /\ section # None
  BY DEF RenderBuild, RenderBuilt, Opening, Types, StepsOK
<1>2. GoalOK' /\ Here' /\ Placed'
  BY DEF Kept, GoalOK, Here, Live, Placed, Waiting
<1>3. Led'
  <2> SUFFICES ASSUME (Live /\ Waiting /\ ~(stale /\ Leftover))' PROVE Leads'
    BY DEF Led
  <2>1. Leads
    BY <1>1 DEF Kept, Led, Live, Waiting, Leftover
  <2>2. (Aside' <=> Aside) /\ (Leftover' <=> Leftover) /\ (DeferredHere' <=> DeferredHere) /\ (Cleared' <=> Cleared)
    BY DEF Aside, Leftover, DeferredHere, Cleared
  <2>3. DeferredLeads => DeferredLeads'
    BY <1>1 DEF DeferredLeads
  <2>4. NextLeads => NextLeads'
    <3>1. NextLeads => pend'.next >= 0 /\ goal'.offset = PageOffset(pend'.next, layout') /\ (pend'.next = 0 \/ Cleared')
      BY <2>2 DEF NextLeads
    <3>2. QED
      BY <3>1 DEF NextLeads, PageOffset
  <2>5. QED
    BY <2>1, <2>2, <2>3, <2>4 DEF Leads, Cleared
<1>4. QED
  BY <1>2, <1>3 DEF Kept

LEMMA SectionPlaced ==
    ASSUME Types, AsideOK, Covered, Leads, section # None, section.spine = spine, section.layout = layout,
           goal.offset \in 0 .. Units - 1, ~OffsetMissed(section)
    PROVE  /\ Min({PlacedPage(section), Pages(layout) - 1}) = goal.offset \div LenOf[layout]
           /\ \/ Cleared \/ deferred.spine # spine \/ (deferred.offset = None /\ PlacedPage(section) = 0)
              \/ OffsetJump(section) # None /\ PageAt(section, OffsetJump(section)) # None
<1> DEFINE g == goal.offset
           n == LenOf[layout]
           m == Pages(layout)
           q == g \div n
           k == m - 1
<1>0. layout \in Layouts /\ SectionOK(section) /\ section.count \in Nat /\ deferred.offset \in Nat \cup {None}
      /\ pend \in Pends
  BY SectionRecord DEF Types, CacheOK, SectionInv, PlaceOK, Deferreds
<1>1. /\ n \in Nat /\ n > 0 /\ m \in Nat /\ m > 0 /\ g \in Nat /\ g # None /\ q \in 0 .. k /\ (g * m) \div Units = q
  BY <1>0, PagesOfLayout, PageOfUnit, NoneAssumption
<1>2. q \in Int /\ k \in Int /\ q <= k
  BY <1>1
<1>3. \A o : PageAt(section, o) # None => PageAt(section, o) = o \div n
  BY DEF PageAt
<1>4. \A o : AnchorPage(section, o) # None => AnchorPage(section, o) = o \div n
  BY DEF AnchorPage
<1>5. ASSUME PlacedPage(section) = q PROVE Min({PlacedPage(section), k}) = q
  <2> HIDE DEF q, k
  <2>1. QED
    BY <1>2, <1>5, MinOfTwo
<1>6. CASE pend.percent = g
  <2>1. PlacedPage(section) = (pend.percent * section.count) \div Units
    BY <1>1, <1>6 DEF PlacedPage, Covered
  <2>2. section.count = m
    BY <1>1, <1>6 DEF Covered
  <2>3. PlacedPage(section) = q
    BY <1>1, <1>6, <2>1, <2>2
  <2>4. Cleared
    BY <1>1, <1>6 DEF AsideOK, Aside
  <2>5. QED
    BY <1>5, <2>3, <2>4
<1>7. CASE pend.percent = None /\ pend.anchor = g
  <2>1. AnchorPage(section, g) # None /\ AnchorPage(section, g) = q
    BY <1>1, <1>4, <1>7 DEF Covered
  <2>2. PlacedPage(section) = q
    BY <1>1, <1>7, <2>1 DEF PlacedPage
  <2>3. Cleared
    BY <1>1, <1>7 DEF AsideOK, Aside
  <2>4. QED
    BY <1>5, <2>2, <2>3
<1>8. CASE pend.percent = None /\ pend.anchor = None /\ pend.offset = g
  <2>1. PageAt(section, g) # None /\ PageAt(section, g) = q
    BY <1>1, <1>3, <1>8 DEF OffsetMissed
  <2>2. OffsetJump(section) = g
    BY <1>1, <1>8 DEF OffsetJump
  <2>3. PlacedPage(section) = q
    BY <1>1, <1>8, <2>1, <2>2 DEF PlacedPage
  <2>4. QED
    BY <1>1, <1>5, <2>1, <2>2, <2>3
<1>9. CASE ~Aside /\ pend.last /\ g = Units - 1 /\ (Cleared \/ deferred.spine # spine)
  <2>1. OffsetJump(section) = None
    BY <1>9 DEF OffsetJump, Aside
  <2>2. PlacedPage(section) = MaxPage
    BY <1>9, <2>1 DEF PlacedPage, Aside, Target
  <2>3. q = k
    BY <1>0, <1>9, LastPage
  <2>4. MaxPage \in Int /\ k <= MaxPage
    <3>1. m <= Units /\ Units \in Nat
      BY <1>0, PagesOfLayout, ReaderAssumption
    <3>2. QED
      BY <1>1, <3>1 DEF MaxPage
  <2>5. Min({PlacedPage(section), k}) = k
    <3> HIDE DEF k
    <3>1. QED
      BY <1>2, <2>2, <2>4, MinOfTwo
  <2>6. QED
    BY <1>9, <2>3, <2>5
<1>10. CASE ~Leftover /\ DeferredHere /\ DeferredLeads
  <2>1. deferred.offset = g /\ deferred.spine = section.spine
    BY <1>10 DEF DeferredLeads, DeferredHere
  <2>2. OffsetJump(section) = g
    BY <1>10, <2>1 DEF OffsetJump, Leftover
  <2>3. PageAt(section, g) # None /\ PageAt(section, g) = q
    BY <1>1, <1>3, <1>10, <2>1 DEF Covered, Leftover, Aside
  <2>4. PlacedPage(section) = q
    BY <1>1, <1>10, <2>2, <2>3 DEF PlacedPage, Leftover
  <2>5. QED
    BY <1>1, <1>5, <2>2, <2>3, <2>4
<1>11. CASE ~Leftover /\ ~DeferredHere /\ NextLeads
  <2>1. OffsetJump(section) = None
    BY <1>11 DEF OffsetJump, Leftover, DeferredHere
  <2>2. Target = pend.next /\ pend.next \in Nat
    BY <1>11, TargetOK DEF Types, NextLeads, Leftover
  <2>3. PlacedPage(section) = pend.next
    BY <1>11, <2>1, <2>2 DEF PlacedPage, Leftover
  <2>4. g = PageOffset(pend.next, layout) /\ (pend.next = 0 \/ Cleared)
    BY <1>11 DEF NextLeads
  <2>5. q = Min({pend.next, k})
    BY <1>0, <2>2, <2>4, PageOfOffset
  <2>6. QED
    BY <1>11, <2>3, <2>4, <2>5 DEF DeferredHere
<1>12. QED
  <2>1. Min({PlacedPage(section), k}) = q => Min({PlacedPage(section), Pages(layout) - 1}) = goal.offset \div LenOf[layout]
    OBVIOUS
  <2> HIDE DEF q, k, m, n
  <2>2. QED
    BY <2>1, <1>6, <1>7, <1>8, <1>9, <1>10, <1>11 DEF Leads, g

LEMMA KeptPlace == ASSUME Types, AsideOK, PlaceReady, Kept, RenderPlace PROVE Kept'
<1>1. /\ renderPc = "place" /\ renderPc' = "fit" /\ UNCHANGED <<layout, spine, goal, mainPc>>
      /\ excused' = (excused \/ (stale /\ Leftover) \/ OffsetMissed(section))
  BY DEF RenderPlace, RenderUnchanged, mainVars
<1>2. section # None /\ section' # None /\ section'.page = PlacedPage(section) /\ Covered /\ ~Opening' /\ Waiting
  BY <1>1, PlaceEffect DEF SameLayout, SameChapter, PlaceReady, Opening, Waiting
<1>3. ASSUME Live' PROVE /\ Live /\ Leads /\ section.spine = spine /\ section.layout = layout
                         /\ goal.offset \in 0 .. Units - 1 /\ ~OffsetMissed(section)
  <2>1. Live /\ ~(stale /\ Leftover) /\ ~OffsetMissed(section)
    BY <1>1, <1>3 DEF Live
  <2>2. Leads /\ goal.offset \in 0 .. Units - 1
    BY <1>2, <2>1 DEF Kept, Led, GoalOK, Live
  <2>3. section.spine = spine /\ section.layout = layout
    BY <1>2, <2>1, Located DEF Live, Types, LocatedOK
  <2>4. QED
    BY <2>1, <2>2, <2>3
<1>4. deferred' = IF pend.offset # None \/ (OffsetJump(section) # None /\ PageAt(section, OffsetJump(section)) # None)
                    THEN NoDeferred(deferred) ELSE deferred
  BY DEF RenderPlace
<1>5. ASSUME Live' PROVE AtGoal' /\ Still'
  <2>1. Min({PlacedPage(section), Pages(layout) - 1}) = goal.offset \div LenOf[layout]
    BY <1>2, <1>3, <1>5, SectionPlaced
  <2>2. AtGoal'
    BY <1>1, <1>2, <2>1 DEF AtGoal, Pages
  <2>3. \/ Cleared \/ deferred.spine # spine \/ (deferred.offset = None /\ PlacedPage(section) = 0)
        \/ OffsetJump(section) # None /\ PageAt(section, OffsetJump(section)) # None
    BY <1>2, <1>3, <1>5, SectionPlaced
  <2>4. NoDeferred(deferred).offset = None /\ NoDeferred(deferred).total = 0
    BY NoDeferredOK DEF Types, PlaceOK
  <2>5. CASE deferred' = NoDeferred(deferred)
    BY <2>2, <2>4, <2>5 DEF Still, Cleared
  <2>6. CASE deferred' # NoDeferred(deferred)
    <3>1. deferred' = deferred /\ (Cleared \/ deferred.spine # spine \/ (deferred.offset = None /\ section'.page = 0))
      BY <1>2, <1>4, <2>3, <2>6
    <3>2. QED
      BY <1>1, <2>2, <3>1 DEF Still, Cleared
  <2>7. QED
    BY <2>2, <2>5, <2>6
<1>6. GoalOK' /\ Here'
  BY <1>1, <1>3 DEF Kept, GoalOK, Here, Live
<1>7. QED
  BY <1>2, <1>5, <1>6, KeptThere

(* Once the section has its page, render() moves it only onto the last page. *)
LEMMA KeptFit == ASSUME Types, Kept, RenderFit PROVE Kept'
<1>1. /\ renderPc = "fit" /\ renderPc' = "show" /\ UNCHANGED <<layout, spine, pend, goal, mainPc, excused, stale>>
  BY DEF RenderFit, RenderUnchanged, mainVars
<1>2. section # None /\ SectionOK(section) /\ section' # None /\ deferred' \in {deferred, NoDeferred(deferred)}
  BY FitEffect DEF SameLayout, SameChapter
<1>3. ~Waiting /\ ~Opening'
  BY <1>1, <1>2 DEF Waiting, Opening
<1>4. GoalOK' /\ Here' /\ (Live' => Live)
  BY <1>1 DEF Kept, GoalOK, Here, Live
<1>5. ASSUME Live' PROVE AtGoal' /\ Still'
  <2>1. AtGoal /\ Still /\ section.layout = layout /\ layout \in Layouts
    BY <1>2, <1>3, <1>4, <1>5 DEF Kept, Placed, Types, LocatedOK, CacheOK
  <2>2. CASE ~(~section.building /\ Short(section))
    <3>1. section' = Repositioned(section)
      BY <2>2 DEF RenderFit
    <3>2. section'.page = section.page
      BY <1>2, <2>1, <3>1, StillKeeps
    <3>3. Still'
      BY <1>1, <1>2, <2>1, <3>2, StillKeeps
    <3>4. AtGoal'
      BY <1>1, <2>1, <3>2 DEF AtGoal, Pages
    <3>5. QED
      BY <3>3, <3>4
  <2>3. CASE ~section.building /\ Short(section)
    <3> DEFINE k == section.count - 1
               new == [section EXCEPT !.page = k]
               p == section.page
    <3>1. section.count = Pages(layout) /\ Pages(layout) \in Nat /\ Pages(layout) > 0 /\ p \in Int /\ p >= section.count
      BY <1>2, <2>1, <2>3, SectionRecord DEF RenderFit, SectionOK, Whole, Short
    <3>2. section' = Repositioned(new)
      BY <2>3 DEF RenderFit
    <3>3. k \in Nat /\ k <= p /\ p # 0 /\ k = Pages(layout) - 1
      BY <3>1
    <3> HIDE DEF k
    <3>4. SectionOK(new) /\ new.page = k
      BY <1>2, <3>3, PageTurned DEF PageNumbers
    <3>5. Cleared \/ deferred.spine # spine
      BY <2>1, <3>3 DEF Still
    <3> HIDE DEF new, p
    <3>6. section'.page = k
      BY <3>2, <3>4, <3>5, RepositionedOK DEF Cleared, Types, PlaceOK, Deferreds
    <3>7. Still'
      BY <1>1, <1>2, <3>5, NoDeferredOK DEF Still, Cleared, Types, PlaceOK
    <3>8. Min({p, k}) = k /\ Min({k, k}) = k
      BY <3>1, <3>3, MinOfTwo DEF p
    <3>9. Min({section'.page, Pages(layout) - 1}) = goal.offset \div LenOf[layout]
      BY <2>1, <3>3, <3>6, <3>8 DEF AtGoal, p
    <3>10. AtGoal'
      BY <1>1, <3>9 DEF AtGoal, Pages
    <3>11. QED
      BY <3>7, <3>10
  <2>4. QED
    BY <2>2, <2>3
<1>6. QED
  BY <1>2, <1>3, <1>4, <1>5, KeptThere

LEMMA KeptFitBuild ==
    ASSUME Types, Kept, RenderFitStart \/ RenderFitBuild, section' # None,
           UNCHANGED <<layout, spine, pend, goal, mainPc, excused, stale, deferred>>
    PROVE  Kept'
<1>1. renderPc = "fit" /\ section # None
  BY DEF RenderFitStart, RenderFitBuild, Types, StepsOK
<1>2. section'.page = section.page /\ ~Opening'
  <2>1. CASE RenderFitStart
    BY <1>1, <2>1, FitStartEffect DEF Restarted, Failed, Opening
  <2>2. CASE RenderFitBuild
    BY <1>1, <2>2, BuildEffect DEF RenderFitBuild, Continued, Failed, Opening
  <2>3. QED
    BY <2>1, <2>2
<1>3. ~Waiting
  BY <1>1 DEF Waiting, Opening
<1>4. GoalOK' /\ Here' /\ (Live' => Live)
  BY DEF Kept, GoalOK, Here, Live
<1>5. Live' => AtGoal' /\ Still'
  BY <1>2, <1>3, <1>4 DEF Kept, Placed, AtGoal, Still, Cleared, Pages
<1>6. QED
  BY <1>2, <1>4, <1>5, KeptThere

LEMMA KeptRender == ASSUME Types, AsideOK, PlaceReady, Kept, Render PROVE Kept'
<1>1. UNCHANGED <<layout, spine, goal, mainPc>>
  BY RenderMoves
<1>2. CASE GoesOn
  <2>1. UNCHANGED <<pend, excused, stale>>
    BY <1>2 DEF GoesOn
  <2>2. CASE RenderOpen
    BY <2>2, KeptOpen
  <2>3. CASE (RenderBuild \/ RenderBuilt) /\ ~RenderOpen
    <3>1. section' # None /\ Opening' /\ UNCHANGED deferred
      BY <1>2, <2>3 DEF GoesOn, RenderBuild, RenderBuilt, Opening, Types, StepsOK
    <3>2. QED
      BY <1>1, <2>1, <2>3, <3>1, KeptBuild
  <2>4. CASE (RenderFitStart \/ RenderFitBuild) /\ section' # None /\ UNCHANGED deferred
    BY <1>1, <2>1, <2>4, KeptFitBuild
  <2>5. CASE RenderFit
    BY <2>5, KeptFit
  <2>6. CASE /\ ~Opening /\ renderPc' \in {"idle", "open", "fit", "show", "save", "write"}
             /\ RenderBegin \/ RenderShow \/ RenderSave \/ RenderWrite
             /\ UNCHANGED <<section, cache, deferred>>
    BY <1>1, <2>1, <2>6, KeptSame DEF Waiting, Opening
  <2>7. QED
    BY <1>2, <2>2, <2>3, <2>4, <2>5, <2>6 DEF GoesOn
<1>3. QED
  BY <1>2, KeptLoses, KeptPlace, RenderMoves

(* A session ends: what progress.bin then holds is the place. *)
ClosedOK ==
    mainPc = "closed" /\ ~excused =>
        /\ progress # None /\ progress.spine = goal.spine /\ goal.spine \in Chapters /\ progress.page >= 0
        /\ goal.offset \in 0 .. Units - 1
        /\ cache[goal.spine].pages > 0 => goal.offset = PageOffset(progress.page, cache[goal.spine].layout)
        /\ progress.of # None => progress.offset = goal.offset

(* The next one begins from there. *)
LEMMA KeptReopened == ASSUME Types, ClosedOK, NEW L \in Layouts, Open(L) PROVE Kept'
<1>1. CASE excused'
  BY <1>1, KeptLost
<1>2. CASE ~excused'
  <2> DEFINE s == progress.spine
             p == progress.page
             c == progress.count
             o == progress.offset
  <2>1. progress # None /\ ~excused /\ mainPc = "closed"
    BY <1>2 DEF Open
  <2>2. /\ layout' = L /\ spine' = s /\ pend' = [NoPend EXCEPT !.next = p] /\ stale' = FALSE
        /\ deferred' = [spine |-> s, total |-> c, offset |-> o] /\ UNCHANGED <<cache, section, goal, renderPc>>
    BY <2>1 DEF Open
  <2>3. progress.of = None /\ s < Spines => cache[s].layout = L /\ cache[s].pages > 0
    BY <1>2, <2>1 DEF Open
  <2>4. /\ s = goal.spine /\ s \in Chapters /\ p >= 0 /\ goal.offset \in 0 .. Units - 1
        /\ cache[s].pages > 0 => goal.offset = PageOffset(p, cache[s].layout)
        /\ progress.of # None => o = goal.offset
    BY <2>1 DEF ClosedOK
  <2>5. BytesOK(progress) /\ o \in Nat /\ (progress.of = None => o = 0) /\ p \in PageNumbers
    BY <2>1, <2>4 DEF Types, SavingOK, BytesOK, Saved
  <2>6. section' = None /\ s < Spines
    BY <2>1, <2>2, <2>4, ReaderAssumption DEF Types, StepsOK, Chapters
  <2> HIDE DEF s, p, c, o
  <2>7. /\ pend'.next = p /\ ~pend'.last /\ pend'.offset = None /\ pend'.anchor = None /\ pend'.percent = None
    BY <2>2 DEF NoPend
  <2>8. ~Leftover' /\ DeferredHere'
    BY <2>2, <2>5, <2>7, NoneAssumption DEF Leftover, DeferredHere
  <2>9. deferred'.offset = goal'.offset \/ (deferred'.offset = 0 /\ cache'[s].pages > 0 /\ cache'[s].layout = layout')
    BY <2>2, <2>3, <2>4, <2>5, <2>6
  <2>10. cache'[s].pages > 0 => goal'.offset = PageOffset(p, cache'[s].layout)
    BY <2>2, <2>4
  <2>11. DeferredLeads'
    BY <2>2, <2>4, <2>6, <2>7, <2>9, <2>10 DEF DeferredLeads, Loaded, PageOffset
  <2>12. GoalOK' /\ Here'
    BY <2>2, <2>4 DEF GoalOK, Here
  <2>13. Leads'
    BY <2>8, <2>11 DEF Leads
  <2>14. QED
    BY <2>6, <2>12, <2>13, KeptAway
<1>3. QED
  BY <1>1, <1>2

LEMMA ClosesBy ==
    ASSUME Types, Inside, [Next]_vars, mainPc' = "closed"
    PROVE  \/ mainPc = "closed" /\ UNCHANGED <<goal, excused, cache, progress>>
           \/ DeleteCache \/ Leave \/ Reboot
<1>1. CASE Render
  <2>1. mainPc = "closed"
    BY <1>1, RenderMoves
  <2>2. renderPc = "idle"
    BY <2>1, Located
  <2>3. RenderBegin
    BY <1>1, <2>2 DEF Render, RenderOpen, RenderBuild, RenderBuilt, RenderPlace, RenderFitStart, RenderFitBuild,
       RenderFit, RenderShow, RenderSave, RenderWrite
  <2>4. QED
    BY <2>1, <2>3 DEF RenderBegin
<1>2. CASE Extend \/ Tick
  BY <1>2 DEF Extend, Tick, Panic
<1>3. CASE Holds /\ mainPc = "closed"
  <2>1. UNCHANGED <<goal, excused, cache>>
    BY <1>3 DEF Holds
  <2>2. UNCHANGED progress
    <3>1. CASE Begins \/ LaysOut \/ Draws \/ NotesPage \/ WritesPage \/ Works \/ EndTests \/ EndSaves \/ EndShows
      BY <1>3, <3>1, Located DEF Begins, LaysOut, Draws, NotesPage, WritesPage, Works, EndTests, EndSaves, EndShows
    <3>2. CASE Returns \/ Chooses \/ TurnTests \/ TurnsPage \/ Jumps \/ OpensList \/ SetsStatus \/ Persists \/ Closes
      BY <1>3, <3>2 DEF Returns, Chooses, TurnTests, TurnsPage, Jumps, OpensList, SetsStatus, Persists, Closes
    <3>3. CASE Opens \/ Stutters
      BY <3>3 DEF Opens, Stutters
    <3>4. QED
      BY <3>1, <3>2, <3>3, EveryStep DEF Kinds
  <2>3. QED
    BY <1>3, <2>1, <2>2
<1>4. CASE TurnLock \/ TurnTest \/ TurnPage \/ SkipPage \/ TurnChapter \/ SkipNext \/ SkipChapter
  BY <1>4 DEF TurnLock, TurnTest, TurnPage, SkipPage, TurnChapter, SkipNext, SkipChapter, ToChapter, Panic
<1>5. CASE ReturnFromEnd
  BY <1>5 DEF ReturnFromEnd
<1>6. CASE Handlers
  <2>1. ASSUME NEW L \in Layouts, Relayout(L) PROVE FALSE
    BY <2>1 DEF Relayout, Ready, Idle, mainVars
  <2>2. ASSUME NEW s \in Chapters, NEW o \in Anchors, JumpToPercent(s, o) \/ Footnote(s, o) PROVE FALSE
    BY <2>2 DEF JumpToPercent, Footnote, Ready, Idle, mainVars
  <2>3. ASSUME NEW s \in Chapters, NEW o \in Anchors, NEW L \in Layouts, GoToBookmark(s, o, L) PROVE FALSE
    BY <2>3 DEF GoToBookmark, Ready, Idle
  <2>4. ASSUME NEW s \in Chapters, ChooseChapter(s) PROVE FALSE
    BY <2>4 DEF ChooseChapter
  <2>5. CASE OpenChapters \/ RestoreSavedPosition
    BY <2>5 DEF OpenChapters, RestoreSavedPosition, Ready, Idle, mainVars
  <2>6. QED
    BY <1>6, <2>1, <2>2, <2>3, <2>4, <2>5 DEF Handlers
<1>7. ASSUME NEW L \in Layouts, Open(L) PROVE FALSE
  BY <1>7 DEF Open
<1>8. QED
  BY <1>1, <1>2, <1>3, <1>4, <1>5, <1>6, <1>7, HoldSteps DEF Moves, Holds

(* In the text, progress.bin already holds the page on the screen. *)
LEMMA LeftInText ==
    ASSUME Types, FollowOK, ScreenOK, CacheOf, Lost, Fresh, ShownFits, Leave, origin = <<>>, ~excused'
    PROVE  ClosedOK'
<1>1. /\ ~excused /\ Quiet /\ marks = {} /\ cache' = Dispose(cache) /\ UNCHANGED progress
      /\ OnScreen /\ progress # None => progress.of \in {None, shown.layout}
      /\ goal' = IF OnScreen THEN [spine |-> shown.spine, offset |-> OffsetOf(shown, shown.page)] ELSE goal
  <2>1. /\ cache' = Dispose(cache) /\ UNCHANGED <<saving, marks, faults>>
        /\ goal' = IF OnScreen THEN [spine |-> shown.spine, offset |-> OffsetOf(shown, shown.page)] ELSE goal
        /\ excused' = \/ excused \/ ~Quiet \/ marks # {}
                      \/ OnScreen /\ progress # None /\ progress.of \notin {None, shown.layout}
    BY DEF Leave
  <2>2. ~(excused \/ ~Quiet \/ marks # {} \/ (OnScreen /\ progress # None /\ progress.of \notin {None, shown.layout}))
    BY <2>1, Zenon
  <2>3. QED
    BY <2>1, <2>2 DEF saving
<1>2. spine < Spines /\ mainPc = "loop" /\ renderPc = "idle" /\ ~notified
  BY <1>1 DEF Leave, Quiet, Ready, LockFree
<1>3. OnScreen
  BY <1>1, <1>2 DEF ScreenOK, ScreenKept
<1>4. /\ lastSaved.spine = shown.spine /\ lastSaved.page = shown.page /\ lastSaved.count # -1
      /\ shown.spine \in Chapters /\ shown.page \in Nat
  BY <1>1, <1>2, <1>3 DEF FollowOK, Followed, Intact, OnScreen, ShownPage
<1>5. /\ progress # None /\ progress.spine = shown.spine /\ progress.page = shown.page
      /\ progress.of # None => progress.offset = progress.page * LenOf[progress.of]
  BY <1>1, <1>2, <1>4 DEF FollowOK, Stored, OffsetFits
<1>6. section # None /\ shown = PageScreen
  BY <1>1, <1>2, <1>3 DEF Lost, Fresh, OnScreen
<1>7. cache'[shown.spine].layout = shown.layout
  BY <1>1, <1>6, DisposedLayout DEF PageScreen
<1> DEFINE p == shown.page
           L == shown.layout
<1>8. L \in Layouts /\ p \in Nat /\ p < Pages(L)
  BY <1>3, <1>4, PagesOfLayout DEF ShownFits, OnScreen
<1>9. goal'.spine = shown.spine /\ goal'.offset = p * LenOf[L]
  BY <1>1, <1>3 DEF OffsetOf
<1>10. PageOffset(p, L) = p * LenOf[L] /\ PageOffset(p, L) \in 0 .. Units - 1
  BY <1>8, PageOfOffset
<1>11. goal'.offset = PageOffset(progress'.page, cache'[goal'.spine].layout)
  BY <1>1, <1>5, <1>7, <1>9, <1>10
<1>12. progress'.of # None => progress'.offset = goal'.offset
  BY <1>1, <1>3, <1>5, <1>9
<1>13. progress'.page >= 0 /\ goal'.spine \in Chapters /\ progress'.spine = goal'.spine /\ progress' # None
  BY <1>1, <1>4, <1>5, <1>9
<1>14. goal'.offset \in 0 .. Units - 1
  BY <1>9, <1>10
<1>15. QED
  BY <1>11, <1>12, <1>13, <1>14 DEF ClosedOK, PageOffset

(* In a footnote, the place it was opened from is saved. *)
LEMMA LeftInNote ==
    ASSUME Types, Types', Fresh, Leave, origin # <<>>, ~excused'
    PROVE  ClosedOK'
<1> DEFINE pos == origin[1]
           s == pos.spine
           p == pos.page
           b == Bytes(s, p, 0)
<1>1. /\ Quiet /\ goal' = [spine |-> s, offset |-> PageOffset(p, layout)] /\ progress' = b
      /\ s < Spines => cache'[s].layout = layout
  BY DEF Leave, PageOffset
<1>2. s \in Chapters /\ p \in PageNumbers
  <2> DEFINE S == [spine : Chapters, page : PageNumbers]
  <2>1. origin \in Seq(S)
    BY DEF Types, OriginOK
  <2> HIDE DEF S
  <2>2. pos \in S
    BY <2>1, EndsOfSequence
  <2>3. QED
    BY <2>2 DEF S
<1> HIDE DEF p, s
<1>3. s < Spines /\ s \in 0 .. Spines /\ ~AtEnd(s) /\ layout \in Layouts
  BY <1>2, ReaderAssumption DEF Chapters, AtEnd, Types, CacheOK
<1>4. SavedPage(s, p) = p
  BY <1>3 DEF SavedPage
<1>5. b # None /\ BytesOK(b) /\ b.spine = s /\ b.page = p
  <2>1. 0 \in Nat
    OBVIOUS
  <2>2. QED
    BY <1>2, <1>3, <1>4, <2>1, BytesTyped
<1>6. b.of # None => SavedOffset(s, p) # None /\ b.offset = SavedOffset(s, p)
  BY <1>4 DEF Bytes
<1> HIDE DEF b
<1>7. p \in Nat
  BY <1>1, <1>2, <1>5 DEF Types, SavingOK, PageNumbers
<1>8. PageOffset(p, layout) \in 0 .. Units - 1 /\ (p < Pages(layout) => PageOffset(p, layout) = p * LenOf[layout])
  BY <1>3, <1>7, PageOfOffset
<1>9. ASSUME SavedOffset(s, p) # None PROVE SavedOffset(s, p) = PageOffset(p, layout)
  <2>1. section # None /\ s = spine /\ p < section.count
    BY <1>9 DEF SavedOffset
  <2>2. section.layout = layout /\ section.count \in Nat /\ section.count <= Pages(layout) /\ Pages(layout) \in Nat
    BY <2>1, SectionRecord DEF Types, SectionInv, LocatedOK
  <2>3. PageOffset(p, layout) = p * LenOf[layout]
    BY <1>7, <1>8, <2>1, <2>2
  <2>4. OffsetOf(section, p) = p * LenOf[layout]
    BY <2>2 DEF OffsetOf
  <2>5. p = section.page => pageOffset = OffsetOf(section, section.page)
    <3>1. p = section.page => section.page >= 0
      BY <1>7
    <3>2. QED
      BY <1>1, <1>3, <2>1, <3>1 DEF Fresh, Quiet, LockFree
  <2>6. QED
    BY <2>1, <2>3, <2>4, <2>5 DEF SavedOffset
<1>10. goal'.spine = s /\ goal'.offset = PageOffset(p, layout)
  BY <1>1
<1>11. goal'.offset = PageOffset(progress'.page, cache'[goal'.spine].layout)
  BY <1>1, <1>3, <1>5, <1>10
<1>12. progress'.of # None => progress'.offset = goal'.offset
  BY <1>1, <1>6, <1>9, <1>10
<1>13. progress'.page >= 0 /\ goal'.spine \in Chapters /\ progress'.spine = goal'.spine /\ progress' # None
  BY <1>1, <1>2, <1>5, <1>7, <1>10
<1>14. goal'.offset \in 0 .. Units - 1
  BY <1>8, <1>10
<1>15. QED
  BY <1>11, <1>12, <1>13, <1>14 DEF ClosedOK, PageOffset

LEMMA ClosedStep ==
    ASSUME Types, Types', FollowOK, ScreenOK, CacheOf, Lost, Fresh, ShownFits, ClosedOK, [Next]_vars
    PROVE  ClosedOK'
<1> SUFFICES ASSUME mainPc' = "closed", ~excused' PROVE ClosedOK'
  BY DEF ClosedOK
<1>1. CASE mainPc = "closed" /\ UNCHANGED <<goal, excused, cache, progress>>
  BY <1>1 DEF ClosedOK, PageOffset
<1>2. CASE DeleteCache \/ Reboot
  BY <1>2 DEF DeleteCache, Reboot
<1>3. CASE Leave
  BY <1>3, LeftInText, LeftInNote
<1>4. QED
  BY <1>1, <1>2, <1>3, ClosesBy DEF FollowOK

----------------------------------------------------------------------------
(* The invariant: what the place rests on, and that it is kept. *)
RestOK  == /\ Settled /\ AsideOK /\ LeftStale /\ CacheOf /\ ShowFits /\ Fresh /\ Lost /\ ShownFits
           /\ OpenPage /\ SkipAlone /\ EndLast /\ LockHeld /\ PlaceReady
ReaderOK == Types /\ NullOK /\ SkipOK /\ FollowOK /\ ScreenOK

LEMMA RestInit == Init => RestOK
<1> SUFFICES ASSUME Init PROVE RestOK
  OBVIOUS
<1>1. /\ section = None /\ pend = NoPend /\ renderPc = "idle" /\ notified /\ shown = Screen("blank") /\ mainPc = "loop"
  BY DEF Init
<1>2. ~Leftover /\ ~Aside /\ shown.kind # "page" /\ ~Opening
  BY <1>1 DEF Leftover, Aside, NoPend, Screen, Opening
<1>3. QED
  BY <1>1, <1>2 DEF RestOK, Settled, AsideOK, LeftStale, CacheOf, ShowFits, Fresh, Lost, ShownFits, OpenPage, SkipAlone,
     EndLast, LockHeld, PlaceReady, Opening

LEMMA RestStep == ReaderOK /\ ReaderOK' /\ RestOK /\ [Next]_vars => RestOK'
<1> SUFFICES ASSUME ReaderOK, ReaderOK', RestOK, [Next]_vars PROVE RestOK'
  OBVIOUS
<1>1. /\ Types /\ Types' /\ Inside /\ NullOK /\ SkipOK /\ TurnAlone /\ WholeLeft' /\ TurnCleared /\ PartialFilled
  BY DEF ReaderOK, SkipOK, FollowOK, ScreenOK
<1>2. Settled' /\ AsideOK' /\ LeftStale' /\ CacheOf' /\ PlaceReady'
  BY <1>1, SettledStep, AsideStep, LeftStep, CacheOfStep, PlaceReadyStep DEF RestOK
<1>3. ShowFits' /\ Fresh' /\ Lost' /\ ShownFits'
  BY <1>1, ShowFitsStep, FreshStep, LostStep, ShownFitsStep DEF RestOK
<1>4. OpenPage' /\ SkipAlone' /\ EndLast' /\ LockHeld'
  BY <1>1, OpenPageStep, SkipAloneStep, EndLastStep, LockHeldStep DEF RestOK
<1>5. QED
  BY <1>2, <1>3, <1>4 DEF RestOK

LEMMA KeptInit == ASSUME Init PROVE Kept /\ ClosedOK
<1>1. /\ section = None /\ pend = NoPend /\ spine = 0 /\ mainPc = "loop" /\ layout \in Layouts
      /\ deferred = [spine |-> 0, total |-> 0, offset |-> None] /\ goal = [spine |-> 0, offset |-> 0]
  BY ReaderAssumption DEF Init
<1>2. ~Leftover /\ Cleared /\ ~DeferredHere /\ pend.next = 0 /\ goal.offset = 0 /\ goal.spine = spine
  BY <1>1 DEF Leftover, NoPend, Cleared, DeferredHere
<1>3. PageOffset(0, layout) = 0 /\ 0 \in 0 .. Units - 1
  BY <1>1, FirstPage
<1>4. NextLeads
  BY <1>2, <1>3 DEF NextLeads
<1>5. Leads
  BY <1>2, <1>4 DEF Leads
<1>6. QED
  BY <1>1, <1>2, <1>3, <1>5 DEF Kept, GoalOK, Here, Placed, Led, Waiting, ClosedOK

LEMMA KeptStep ==
    ASSUME ReaderOK, ReaderOK', RestOK, Kept, ClosedOK, [Next]_vars
    PROVE  Kept' /\ ClosedOK'
<1>1. /\ Types /\ Types' /\ Inside /\ TurnAlone /\ TurnCleared /\ BackDue /\ FollowOK /\ ScreenOK
  BY DEF ReaderOK, SkipOK, FollowOK, ScreenOK
<1>2. /\ AsideOK /\ LeftStale /\ CacheOf /\ Fresh /\ Lost /\ ShownFits /\ SkipAlone /\ EndLast /\ LockHeld /\ PlaceReady
  BY DEF RestOK
<1>3. ClosedOK'
  BY <1>1, <1>2, ClosedStep
<1>4. CASE Render
  BY <1>1, <1>2, <1>3, <1>4, KeptRender
<1>5. CASE Extend \/ Tick \/ Holds
  BY <1>1, <1>3, <1>5, KeptExtend, KeptTick, KeptHolds
<1>6. CASE TurnLock \/ TurnTest
  BY <1>1, <1>2, <1>3, <1>6, KeptTurnLock, KeptTurnTest
<1>7. CASE TurnChapter \/ SkipNext \/ SkipChapter
  BY <1>1, <1>3, <1>7, KeptTurnsChapter
<1>8. CASE ReturnFromEnd
  BY <1>1, <1>2, <1>3, <1>8, KeptFromEnd
<1>9. CASE (TurnPage \/ SkipPage) /\ section # None
  BY <1>1, <1>2, <1>3, <1>9, KeptPages
<1>10. CASE Handlers
  BY <1>1, <1>2, <1>3, <1>10, KeptRelayout, KeptChosen, KeptPercent, KeptFootnote, KeptBookmark, KeptBack DEF Handlers
<1>11. CASE DeleteCache \/ Reboot
  <2>1. excused'
    BY <1>11 DEF DeleteCache, Reboot
  <2>2. QED
    BY <1>3, <2>1, KeptLost
<1>12. CASE Leave
  <2>1. mainPc' = "closed"
    BY <1>12 DEF Leave, Closed
  <2>2. ~Live' /\ GoalOK'
    BY <1>3, <2>1 DEF Live, GoalOK, ClosedOK
  <2>3. QED
    BY <1>3, <2>2 DEF Kept, Here, Placed, Led
<1>13. ASSUME NEW L \in Layouts, Open(L) PROVE Kept'
  BY <1>1, <1>13, KeptReopened
<1>14. QED
  BY <1>1, <1>3, <1>4, <1>5, <1>6, <1>7, <1>8, <1>9, <1>10, <1>11, <1>12, <1>13, HoldSteps DEF Moves

(* PlaceKept: when both tasks rest, the page on the screen holds the text that the reader
   was at or asked for, after turns and jumps, changes of the layout and the end of one
   session and the start of the next, whichever task laid the chapter out. *)
THEOREM PlaceSafe == Spec => []PlaceKept
<1>1. Init => ReaderOK /\ RestOK /\ Kept /\ ClosedOK
  <2>1. Init => NullOK
    BY DEF Init, NullOK, Uses
  <2>2. QED
    BY <2>1, TypesInit, SkipInit, FollowInit, ScreenInit, RestInit, KeptInit DEF ReaderOK
<1>2. ReaderOK /\ [Next]_vars => ReaderOK'
  BY TypesStep, NullStep, SkipStep, FollowStep, ScreenStep DEF ReaderOK
<1>3. ReaderOK /\ RestOK /\ Kept /\ ClosedOK /\ [Next]_vars => (ReaderOK /\ RestOK /\ Kept /\ ClosedOK)'
  BY <1>2, RestStep, KeptStep
<1>4. ReaderOK /\ RestOK /\ Kept => PlaceKept
  <2> SUFFICES ASSUME ReaderOK, RestOK, Kept, Quiet, OnScreen, ~excused PROVE Contains(shown, goal)
    BY DEF PlaceKept
  <2>1. /\ Types /\ renderPc = "idle" /\ ~notified /\ mainPc = "loop" /\ spine < Spines /\ shown.kind = "page"
    BY DEF ReaderOK, Quiet, OnScreen, LockFree
  <2>2. section # None /\ shown = PageScreen
    BY <2>1 DEF RestOK, Lost, Fresh
  <2>3. /\ shown.spine = spine /\ shown.page = section.page /\ shown.layout = layout /\ layout \in Layouts
        /\ shown.page \in 0 .. Pages(layout) - 1
    <3>1. section.spine = spine /\ section.layout = layout /\ layout \in Layouts
      BY <2>1, <2>2, Located DEF Types, LocatedOK, CacheOK
    <3>2. QED
      BY <2>1, <2>2, <3>1 DEF PageScreen, RestOK, ShownFits
  <2>4. goal.spine = spine /\ AtGoal /\ goal.offset \in 0 .. Units - 1
    BY <2>1, <2>2 DEF Kept, GoalOK, Here, Placed, Live, Waiting, Opening
  <2> DEFINE p == section.page
             n == LenOf[layout]
             k == Pages(layout) - 1
             o == goal.offset
  <2>5. p \in Int /\ k \in Int /\ p <= k /\ n \in Nat /\ o \in Int
    BY <2>3, <2>4, PagesOfLayout
  <2>6. p = o \div n
    <3>1. Min({p, k}) = o \div n
      BY <2>4 DEF AtGoal
    <3> HIDE DEF p, k, o, n
    <3>2. QED
      BY <2>5, <3>1, MinOfTwo
  <2>7. n * (o \div n) <= o /\ o <= n * (o \div n) + n - 1
    BY <2>3, <2>4, PageOfUnit
  <2> HIDE DEF p, n, o, k
  <2>8. n * p <= o /\ o <= n * p + n - 1
    BY <2>6, <2>7
  <2>9. p * n = n * p /\ (p + 1) * n = n * p + n
    BY <2>5
  <2>10. p * n \in Int /\ (p + 1) * n - 1 \in Int /\ p * n <= o /\ o <= (p + 1) * n - 1
    BY <2>5, <2>8, <2>9
  <2>11. o \in p * n .. (p + 1) * n - 1
    BY <2>5, <2>10
  <2>12. QED
    BY <2>3, <2>4, <2>11 DEF Contains, p, n, o
<1>5. QED
  BY <1>1, <1>3, <1>4, PTL DEF Spec

=============================================================================
