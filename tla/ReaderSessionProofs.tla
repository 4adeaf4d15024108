------------------------- MODULE ReaderSessionProofs -------------------------
(***************************************************************************)
(* Proofs about ReaderSession, for any book, layouts and bounds.           *)
(*                                                                         *)
(* Types says what a state of the session is: the numbers of a section are *)
(* those of its layout, what is about to be written is well formed, and    *)
(* each step of the two tasks finds the section and the chapter its test   *)
(* left. One lemma per part shows that every step keeps it. The lemmas     *)
(* ...Effect say what each step that works on the section does to it: with *)
(* them follow that the main task never meets a null section and that no   *)
(* step of the code skips text.                                            *)
(***************************************************************************)
EXTENDS ReaderSession, TLAPS

----------------------------------------------------------------------------
(* Operators. *)

(* Max and Min of two integers. *)
LEMMA MaxOfTwo ==
    ASSUME NEW a \in Int, NEW b \in Int
    PROVE  Max({a, b}) = IF a >= b THEN a ELSE b
<1>1. \E x \in {a, b} : \A y \in {a, b} : x >= y
  OBVIOUS
<1>2. Max({a, b}) \in {a, b} /\ \A y \in {a, b} : Max({a, b}) >= y
  BY <1>1 DEF Max
<1>3. QED
  BY <1>2

LEMMA MinOfTwo ==
    ASSUME NEW a \in Int, NEW b \in Int
    PROVE  Min({a, b}) = IF a <= b THEN a ELSE b
<1>1. \E x \in {a, b} : \A y \in {a, b} : x <= y
  OBVIOUS
<1>2. Min({a, b}) \in {a, b} /\ \A y \in {a, b} : Min({a, b}) <= y
  BY <1>1 DEF Min
<1>3. QED
  BY <1>2

(* What a division of naturals gives. *)
LEMMA Quotient ==
    ASSUME NEW a \in Nat, NEW b \in Nat \ {0}
    PROVE  /\ a \div b \in Nat /\ b * (a \div b) <= a /\ a < b * (a \div b) + b
           /\ a % b = 0 => b * (a \div b) = a
  OBVIOUS

(* A layout has a page, and its pages hold the text of a chapter. *)
LEMMA PagesOfLayout ==
    ASSUME NEW L \in Layouts
    PROVE  /\ Pages(L) \in Nat /\ Pages(L) > 0 /\ Pages(L) <= Units
           /\ LenOf[L] \in Nat /\ LenOf[L] > 0 /\ LenOf[L] * Pages(L) = Units
<1>1. LenOf[L] \in Nat \ {0} /\ LenOf[L] <= Units /\ Units \in Nat \ {0}
  BY ReaderAssumption
<1>2. Units % LenOf[L] = 0
  BY ReaderAssumption
<1>3. Pages(L) \in Nat /\ LenOf[L] * Pages(L) = Units
  BY <1>1, <1>2, Quotient DEF Pages
<1>4. Pages(L) > 0 /\ Pages(L) <= Units
  BY <1>1, <1>3
<1>5. QED
  BY <1>1, <1>3, <1>4

(* A section whose numbers are those of its layout. *)
SectionOK(sec) ==
    /\ sec \in Sections
    /\ sec.count <= Pages(sec.layout) /\ sec.built <= Pages(sec.layout)
    /\ sec.building => sec.built < Pages(sec.layout)
    /\ Whole(sec) => sec.count = Pages(sec.layout)

LEMMA SectionRecord ==
    ASSUME NEW sec, SectionOK(sec)
    PROVE  /\ sec.spine \in Chapters /\ sec.layout \in Layouts /\ sec.page \in PageNumbers
           /\ sec.count \in Nat /\ sec.built \in Nat /\ sec.building \in BOOLEAN
           /\ sec.partial \in BOOLEAN /\ sec # None
           /\ sec.page \in Int /\ Pages(sec.layout) \in Nat /\ Pages(sec.layout) > 0
           /\ sec.count <= Pages(sec.layout)
BY PagesOfLayout, NoneAssumption DEF SectionOK, Sections, PageNumbers

(* Another page of the section. *)
LEMMA PageTurned ==
    ASSUME NEW sec, SectionOK(sec), NEW p \in PageNumbers
    PROVE  LET new == [sec EXCEPT !.page = p] IN
           /\ SectionOK(new) /\ new.page = p /\ new.spine = sec.spine /\ new.layout = sec.layout
           /\ new.count = sec.count /\ new.built = sec.built
           /\ new.building = sec.building /\ new.partial = sec.partial
BY DEF SectionOK, Sections, Whole

(* A build starts: partial layouts are kept until the build passes them. *)
LEMMA StartedOK ==
    ASSUME NEW sec \in Sections, sec.count <= Pages(sec.layout)
    PROVE  /\ SectionOK(Started(sec))
           /\ Started(sec).spine = sec.spine /\ Started(sec).layout = sec.layout
           /\ Started(sec).page = sec.page /\ Started(sec).building
           /\ Started(sec).partial = sec.partial /\ Started(sec).built = 0
           /\ Started(sec).count = IF sec.partial THEN sec.count ELSE 0
<1> DEFINE n == IF sec.partial THEN sec.count ELSE 0
           begun == TRUE
           none == 0
<1>1. Pages(sec.layout) \in Nat /\ Pages(sec.layout) > 0
  BY PagesOfLayout DEF Sections
<1>2. n \in Nat /\ n <= Pages(sec.layout)
  BY <1>1 DEF Sections
<1>3. Started(sec) = [sec EXCEPT !.building = begun, !.built = none, !.count = n]
  BY DEF Started
<1>0. begun \in BOOLEAN /\ none \in Nat
  OBVIOUS
<1> HIDE DEF n, begun, none
<1>4. /\ Started(sec) \in Sections
      /\ Started(sec).spine = sec.spine /\ Started(sec).layout = sec.layout
      /\ Started(sec).page = sec.page /\ Started(sec).built = none /\ Started(sec).count = n
      /\ Started(sec).building = begun /\ Started(sec).partial = sec.partial
  <2> DEFINE new == [sec EXCEPT !.building = begun, !.built = none, !.count = n]
  <2>1. /\ new \in Sections
        /\ new.spine = sec.spine /\ new.layout = sec.layout /\ new.page = sec.page
        /\ new.built = none /\ new.count = n /\ new.building = begun /\ new.partial = sec.partial
    BY <1>2, <1>0 DEF Sections
  <2>2. Started(sec) = new
    BY <1>3
  <2> HIDE DEF new
  <2>3. QED
    BY <2>1, <2>2
<1>5. SectionOK(Started(sec))
  BY <1>1, <1>2, <1>4 DEF SectionOK, Whole, begun, none
<1>6. QED
  BY <1>4, <1>5 DEF n, begun, none

(* One page more. *)
LEMMA AdvancedOK ==
    ASSUME NEW sec, SectionOK(sec), sec.building
    PROVE  /\ SectionOK(Advanced(sec))
           /\ Advanced(sec).spine = sec.spine /\ Advanced(sec).layout = sec.layout
           /\ Advanced(sec).page = sec.page /\ Advanced(sec).built = sec.built + 1
           /\ Advanced(sec).count = IF sec.count >= sec.built + 1 THEN sec.count ELSE sec.built + 1
           /\ Advanced(sec).building = (sec.built + 1 # Pages(sec.layout))
           /\ Advanced(sec).partial = (sec.partial /\ sec.built + 1 # Pages(sec.layout))
<1>1. sec \in Sections /\ sec.built < Pages(sec.layout) /\ sec.count <= Pages(sec.layout)
  BY DEF SectionOK
<1>2. sec.built \in Nat /\ sec.count \in Nat /\ Pages(sec.layout) \in Nat /\ sec.partial \in BOOLEAN
  BY <1>1, SectionRecord
<1> DEFINE n == IF sec.count >= sec.built + 1 THEN sec.count ELSE sec.built + 1
           b == sec.built + 1
           all == sec.built + 1 = Pages(sec.layout)
<1>3. Max({sec.count, b}) = n
  BY <1>2, MaxOfTwo
<1>4. Advanced(sec) = [sec EXCEPT !.built = b, !.count = n, !.building = ~all,
                                  !.partial = sec.partial /\ ~all]
  BY <1>3 DEF Advanced
<1>5. n \in Nat /\ n <= Pages(sec.layout) /\ b \in Nat /\ b <= Pages(sec.layout)
  BY <1>1, <1>2
<1> HIDE DEF n, b, all
<1>6. /\ Advanced(sec) \in Sections
      /\ Advanced(sec).spine = sec.spine /\ Advanced(sec).layout = sec.layout
      /\ Advanced(sec).page = sec.page /\ Advanced(sec).built = b /\ Advanced(sec).count = n
      /\ Advanced(sec).building = ~all /\ Advanced(sec).partial = (sec.partial /\ ~all)
  BY <1>1, <1>2, <1>4, <1>5 DEF Sections
<1>7. all => n = Pages(sec.layout)
  BY <1>1, <1>2 DEF n, all, b
<1>8. ~all => b < Pages(sec.layout)
  BY <1>1, <1>2 DEF all, b
<1>9. SectionOK(Advanced(sec))
  BY <1>1, <1>2, <1>5, <1>6, <1>7, <1>8 DEF SectionOK, Whole
<1>10. QED
  BY <1>6, <1>9 DEF n, b, all

(* Where the deferred place is: a page of the section. *)
LEMMA RepositionedOK ==
    ASSUME NEW sec, SectionOK(sec), deferred.total \in Nat, deferred.offset \in Nat \cup {None}
    PROVE  /\ Repositioned(sec).spine = sec.spine /\ Repositioned(sec).layout = sec.layout
           /\ Repositioned(sec).count = sec.count /\ Repositioned(sec).built = sec.built
           /\ Repositioned(sec).building = sec.building /\ Repositioned(sec).partial = sec.partial
           /\ SectionOK(Repositioned(sec))
           /\ Repositioned(sec).page # sec.page =>
                /\ spine = deferred.spine /\ ~sec.building
                /\ deferred.offset # None \/ deferred.total # 0
                /\ 0 <= Repositioned(sec).page
                /\ sec.count > 0 => Repositioned(sec).page < sec.count
<1> DEFINE o == IF deferred.offset = None THEN None ELSE PageAt(sec, deferred.offset)
           p == CASE o # None -> o
                  [] o = None /\ deferred.total > 0 /\ sec.count # deferred.total ->
                       (sec.page * sec.count) \div deferred.total
                  [] OTHER -> sec.page
           q == Max({0, Min({p, sec.count - 1})})
<1>1. /\ sec.page \in Int /\ sec.count \in Nat /\ sec.page \in PageNumbers /\ sec.layout \in Layouts
  BY SectionRecord
<1>2. LenOf[sec.layout] \in Nat \ {0}
  BY <1>1, PagesOfLayout
<1>3. o \in Int \cup {None}
  BY <1>1, <1>2, Quotient DEF PageAt
<1>4. deferred.total > 0 => (sec.page * sec.count) \div deferred.total \in Int
  BY <1>1
<1>5. p \in Int
  BY <1>1, <1>3, <1>4, NoneAssumption
<1>6. RepositionedPage(sec) = IF spine = deferred.spine THEN q ELSE sec.page
  BY DEF RepositionedPage
<1> HIDE DEF o, p
<1>7. q \in Nat /\ (sec.count > 0 => q < sec.count)
  BY <1>1, <1>5, MaxOfTwo, MinOfTwo
<1> HIDE DEF q
<1>8. CASE DoesReposition(sec)
  <2>1. Repositioned(sec) = [sec EXCEPT !.page = RepositionedPage(sec)]
    BY <1>8 DEF Repositioned
  <2>2. RepositionedPage(sec) \in PageNumbers
    BY <1>1, <1>6, <1>7 DEF PageNumbers
  <2> HIDE DEF RepositionedPage
  <2>3. /\ SectionOK(Repositioned(sec)) /\ Repositioned(sec).page = RepositionedPage(sec)
        /\ Repositioned(sec).spine = sec.spine /\ Repositioned(sec).layout = sec.layout
        /\ Repositioned(sec).count = sec.count /\ Repositioned(sec).built = sec.built
        /\ Repositioned(sec).building = sec.building /\ Repositioned(sec).partial = sec.partial
    BY <2>1, <2>2, PageTurned
  <2>4. ~sec.building /\ (deferred.offset # None \/ deferred.total # 0)
    BY <1>8 DEF DoesReposition
  <2>5. QED
    BY <2>3, <2>4, <1>6, <1>7
<1>9. CASE ~DoesReposition(sec)
  BY <1>9 DEF Repositioned
<1>10. QED
  BY <1>8, <1>9

(* estimatedTotalPages() is a number of pages. *)
LEMMA EstimateOK ==
    ASSUME NEW sec, SectionOK(sec), NEW n \in Estimates(sec)
    PROVE  n \in Nat
BY SectionRecord, MaxOfTwo DEF Estimates

(* What is kept in the files is of a layout, and no more than it has. *)
CacheOK ==
    /\ layout \in Layouts
    /\ cache \in [Chapters -> [layout : Layouts, pages : Nat]]
    /\ \A s \in Chapters : cache[s].pages <= Pages(cache[s].layout)
SectionInv == section = None \/ SectionOK(section)

LEMMA NewSectionOK ==
    ASSUME CacheOK, NEW s \in Chapters
    PROVE  /\ NewSection(s) \in Sections
           /\ NewSection(s).count <= Pages(NewSection(s).layout)
           /\ NewSection(s).spine = s /\ NewSection(s).layout = layout /\ NewSection(s).page = 0
           /\ NewSection(s).built = 0 /\ ~NewSection(s).building
           /\ NewSection(s).count = IF Loaded(s) THEN cache[s].pages ELSE 0
           /\ NewSection(s).partial = (Loaded(s) /\ cache[s].pages < Pages(layout))
           /\ NewSection(s).partial => Loaded(s)
           /\ (NewSection(s).partial \/ NewSection(s).count = Pages(layout)) => SectionOK(NewSection(s))
<1> DEFINE n == IF Loaded(s) THEN cache[s].pages ELSE 0
           q == Loaded(s) /\ n < Pages(layout)
           new == [spine |-> s, layout |-> layout, page |-> 0, count |-> n, built |-> 0,
                   building |-> FALSE, partial |-> q]
<1>1. layout \in Layouts /\ Pages(layout) \in Nat /\ Pages(layout) > 0
  BY PagesOfLayout DEF CacheOK
<1>2. cache[s].pages \in Nat /\ (cache[s].layout = layout => cache[s].pages <= Pages(layout))
  BY DEF CacheOK
<1>3. n \in Nat /\ n <= Pages(layout)
  BY <1>1, <1>2 DEF Loaded
<1>4. q \in BOOLEAN /\ (q => Loaded(s)) /\ q = (Loaded(s) /\ cache[s].pages < Pages(layout))
  BY <1>2
<1>5. NewSection(s) = new
  BY DEF NewSection
<1> HIDE DEF n, q
<1>6. /\ new \in Sections /\ new.spine = s /\ new.layout = layout /\ new.page = 0 /\ new.count = n
      /\ new.built = 0 /\ ~new.building /\ new.partial = q
  BY <1>1, <1>3, <1>4 DEF Sections, PageNumbers
<1> HIDE DEF new
<1>7. /\ NewSection(s) \in Sections /\ NewSection(s).spine = s /\ NewSection(s).layout = layout
      /\ NewSection(s).page = 0 /\ NewSection(s).count = n /\ NewSection(s).built = 0
      /\ ~NewSection(s).building /\ NewSection(s).partial = q
  BY <1>5, <1>6
<1>8. (NewSection(s).partial \/ NewSection(s).count = Pages(layout)) => SectionOK(NewSection(s))
  BY <1>1, <1>3, <1>7 DEF SectionOK, Whole
<1>9. QED
  BY <1>3, <1>4, <1>7, <1>8 DEF n

(* A suspended build leaves a file its layout can have. *)
LEMMA DisposeOK ==
    ASSUME CacheOK, SectionInv
    PROVE  /\ Dispose(cache) \in [Chapters -> [layout : Layouts, pages : Nat]]
           /\ \A s \in Chapters : Dispose(cache)[s].pages <= Pages(Dispose(cache)[s].layout)
<1>1. CASE section # None /\ section.building /\ (~section.partial \/ section.built = section.count)
  <2>1. /\ section.spine \in Chapters /\ section.layout \in Layouts /\ section.built \in Nat
        /\ section.built <= Pages(section.layout)
    BY <1>1, SectionRecord DEF SectionInv, SectionOK
  <2>2. Dispose(cache) = [cache EXCEPT ![section.spine] = File(section, section.built)]
    BY <1>1 DEF Dispose
  <2>3. /\ File(section, section.built) \in [layout : Layouts, pages : Nat]
        /\ File(section, section.built).pages <= Pages(File(section, section.built).layout)
    BY <2>1 DEF File
  <2>4. QED
    BY <2>1, <2>2, <2>3 DEF CacheOK
<1>2. CASE ~(section # None /\ section.building /\ (~section.partial \/ section.built = section.count))
  BY <1>2 DEF Dispose, CacheOK
<1>3. QED
  BY <1>1, <1>2

(* A file of the section's layout, with no more pages than it has. *)
LEMMA FileOK ==
    ASSUME CacheOK, NEW sec, SectionOK(sec), NEW n \in Nat, n <= Pages(sec.layout)
    PROVE  LET c == [cache EXCEPT ![sec.spine] = File(sec, n)] IN
           /\ c \in [Chapters -> [layout : Layouts, pages : Nat]]
           /\ \A s \in Chapters : c[s].pages <= Pages(c[s].layout)
<1>1. sec.spine \in Chapters /\ sec.layout \in Layouts
  BY SectionRecord
<1>2. /\ File(sec, n) \in [layout : Layouts, pages : Nat]
      /\ File(sec, n).pages <= Pages(File(sec, n).layout)
  BY <1>1 DEF File
<1>3. QED
  BY <1>1, <1>2 DEF CacheOK

----------------------------------------------------------------------------
(* Types. *)

Pends     == [next : PageNumbers, last : BOOLEAN, offset : (0 .. Units) \cup {None},
              anchor : Anchors \cup {None}, percent : Anchors \cup {None}]
Deferreds == [spine : 0 .. Spines, total : Nat, offset : Nat \cup {None}]
PlaceOK   == spine \in 0 .. Spines /\ pend \in Pends /\ deferred \in Deferreds
OriginOK == origin \in Seq([spine : Chapters, page : PageNumbers]) /\ Len(origin) <= MaxDepth
BytesOK(b) == b \in Saved /\ (b.page >= 0 => b.offset \in Nat) /\ (b.of = None => b.offset = 0)
SavingOK ==
    /\ progress # None => BytesOK(progress) /\ progress.page >= 0
    /\ renderSave # None => BytesOK(renderSave)
    /\ mainSave # None => BytesOK(mainSave)
    /\ renderPc = "write" => renderSave # None
    /\ mainPc = "endSave" => mainSave # None
    /\ status \in Statuses /\ manual \in BOOLEAN
    /\ lastSaved \in [spine : 0 .. Spines \cup {-1}, page : PageNumbers, count : Nat \cup {-1}]
    /\ pageOffset \in Nat \cup {None}

RenderSteps == {"idle", "open", "build", "place", "fit", "show", "save", "write"}
InTurn == {"turnLock", "turnTest", "turnPage", "turnChapter"}
MainSteps == InTurn \cup {"loop", "extend", "tick", "endSave", "endPush", "end", "skipNext",
                          "skipPage", "skipChapter", "chapters", "persist", "closed", "panic"}
ControlOK ==
    /\ renderPc \in RenderSteps /\ mainPc \in MainSteps /\ queued \in {-1, 0, 1}
    /\ mainPc \in InTurn => turn \in TurnsDue
    /\ faults \in 0 .. MaxFaults
    /\ marks \subseteq {"torn", "turned", "lost", "overlap"}
    /\ marked \in Statuses \cup {None}

NotifiedOK == notified \in BOOLEAN

(* What the steps of the two tasks know of the section and the chapter. *)
StepsOK ==
    /\ renderPc = "open" => section = None /\ spine < Spines
    /\ renderPc \in {"build", "place", "fit", "show", "save", "write"} => section # None
    /\ mainPc \in {"closed", "chapters"} => section = None
    /\ mainPc \in {"closed", "chapters", "end"} => renderPc = "idle"
    /\ mainPc = "turnChapter" => spine + turn.dir \in Chapters
    /\ mainPc = "skipChapter" => spine > 0
    /\ mainPc = "skipNext" => spine < Spines
    /\ mainPc \in {"endSave", "endPush", "end"} => spine = Spines
LocatedOK ==
    section # None => /\ section.spine = IF spine < Spines THEN spine ELSE Spines - 1
                      /\ section.layout = layout
TurnBackOK ==
    mainPc = "turnPage" /\ turn.dir < 0 => turn.page > 0 /\ (section # None => section.page >= 0)

Types == CacheOK /\ SectionInv /\ PlaceOK /\ OriginOK /\ SavingOK /\ ControlOK /\ StepsOK
         /\ LocatedOK /\ TurnBackOK /\ NotifiedOK

(* clearDeferredReposition() *)
LEMMA NoDeferredOK ==
    ASSUME NEW d \in Deferreds
    PROVE  /\ NoDeferred(d) \in Deferreds /\ NoDeferred(d).spine = d.spine
           /\ NoDeferred(d).offset = None /\ NoDeferred(d).total = 0
BY DEF NoDeferred, Deferreds

(* The ends of a sequence that is not empty. *)
LEMMA EndsOfSequence ==
    ASSUME NEW S, NEW q \in Seq(S), q # <<>>
    PROVE  q[1] \in S /\ q[Len(q)] \in S /\ Len(q) \in Nat /\ Len(q) > 0
OBVIOUS

(* The place a footnote was opened from is put on a sequence, and taken from it. *)
LEMMA Pushed ==
    ASSUME NEW S, NEW q \in Seq(S), NEW x \in S, NEW d \in Nat, Len(q) < d
    PROVE  Append(q, x) \in Seq(S) /\ Len(Append(q, x)) <= d
<1>1. Append(q, x) \in Seq(S) /\ Len(Append(q, x)) = Len(q) + 1 /\ Len(q) \in Nat
  OBVIOUS
<1>2. \A n \in Nat : n < d => n + 1 <= d
  OBVIOUS
<1>3. QED
  BY <1>1, <1>2

LEMMA Popped ==
    ASSUME NEW S, NEW q \in Seq(S), q # <<>>, NEW d \in Nat, Len(q) <= d
    PROVE  /\ SubSeq(q, 1, Len(q) - 1) \in Seq(S)
           /\ Len(SubSeq(q, 1, Len(q) - 1)) <= d
<1>1. Len(q) \in Nat /\ Len(q) > 0
  BY EndsOfSequence
<1>2. ASSUME NEW n \in Nat, Len(q) = n + 1
      PROVE  SubSeq(q, 1, n) \in Seq(S) /\ Len(SubSeq(q, 1, n)) = n
  BY <1>2
<1>3. Len(q) - 1 \in Nat /\ Len(q) = (Len(q) - 1) + 1
  BY <1>1
<1>4. SubSeq(q, 1, Len(q) - 1) \in Seq(S) /\ Len(SubSeq(q, 1, Len(q) - 1)) = Len(q) - 1
  BY <1>2, <1>3
<1>5. \A n \in Nat : n <= d => n - 1 <= d
  OBVIOUS
<1>6. QED
  BY <1>1, <1>4, <1>5

(* The files. *)
LEMMA CacheStep == Types /\ [Next]_vars => CacheOK'
<1> SUFFICES ASSUME Types, [Next]_vars PROVE CacheOK'
  OBVIOUS
<1>1. CASE Render
  <2>1. CASE RenderOpen
    <3>1. spine \in Chapters /\ layout \in Layouts
      BY <2>1, ReaderAssumption DEF Types, StepsOK, PlaceOK, CacheOK, RenderOpen, Chapters
    <3>2. UNCHANGED layout /\ cache' \in {cache, [cache EXCEPT ![spine] = [layout |-> layout, pages |-> 0]]}
      BY <2>1 DEF RenderOpen
    <3>3. QED
      BY <3>1, <3>2, PagesOfLayout DEF Types, CacheOK
  <2>2. CASE RenderBuild
    <3>1. SectionOK(section) /\ section.building
      BY <2>2, SectionRecord DEF Types, SectionInv, StepsOK, RenderBuild
    <3>2. CASE section' = Advanced(section) /\ cache' \in {cache, [cache EXCEPT ![section.spine] = File(section, section'.count)]}
      <4>1. section'.count \in Nat /\ section'.count <= Pages(section.layout)
        BY <3>1, <3>2, AdvancedOK, SectionRecord
      <4>2. UNCHANGED layout
        BY <2>2 DEF RenderBuild, RenderUnchanged
      <4>3. QED
        BY <3>1, <3>2, <4>1, <4>2, FileOK DEF Types, CacheOK
    <3>3. CASE cache' = Dispose(cache)
      BY <2>2, <3>3, DisposeOK DEF Types, CacheOK, RenderBuild, RenderUnchanged
    <3>4. QED
      BY <2>2, <3>2, <3>3 DEF RenderBuild, BuildMore
  <2>3. CASE RenderFitBuild
    <3>1. SectionOK(section) /\ section.building
      BY <2>3, SectionRecord DEF Types, SectionInv, StepsOK, RenderFitBuild
    <3>2. CASE section' = Advanced(section) /\ cache' \in {cache, [cache EXCEPT ![section.spine] = File(section, section'.count)]}
      <4>1. section'.count \in Nat /\ section'.count <= Pages(section.layout)
        BY <3>1, <3>2, AdvancedOK, SectionRecord
      <4>2. UNCHANGED layout
        BY <2>3 DEF RenderFitBuild, RenderUnchanged
      <4>3. QED
        BY <3>1, <3>2, <4>1, <4>2, FileOK DEF Types, CacheOK
    <3>3. CASE cache' = Dispose(cache)
      BY <2>3, <3>3, DisposeOK DEF Types, CacheOK, RenderFitBuild, RenderUnchanged
    <3>4. QED
      BY <2>3, <3>2, <3>3 DEF RenderFitBuild, BuildMore
  <2>4. CASE RenderShow
    <3>1. SectionOK(section)
      BY <2>4 DEF Types, SectionInv, StepsOK, RenderShow
    <3>2. section.spine \in Chapters
      BY <3>1, SectionRecord
    <3>3. UNCHANGED layout /\ cache' \in {cache, [cache EXCEPT ![section.spine].pages = 0]}
      BY <2>4 DEF RenderShow
    <3>4. QED
      BY <3>2, <3>3, PagesOfLayout DEF Types, CacheOK
  <2>5. CASE RenderBegin \/ RenderBuilt \/ RenderPlace \/ RenderFitStart \/ RenderFit \/
      RenderSave \/ RenderWrite
    BY <2>5 DEF Types, CacheOK, RenderBegin, RenderBuilt, RenderPlace, RenderUnchanged,
      RenderFitStart, RenderFit, RenderSave, RenderWrite, place, saving, mainVars, drawVars,
      history, bounds, rest, vars
  <2>6. QED
    BY <1>1, <2>1, <2>2, <2>3, <2>4, <2>5 DEF Render
<1>2. CASE Background
  <2>1. CASE Tick
    <3>1. CASE UNCHANGED cache
      BY <2>1, <3>1 DEF Types, CacheOK, Tick
    <3>2. CASE cache' = Dispose(cache)
      BY <2>1, <3>2, DisposeOK DEF Types, CacheOK, Tick
    <3>3. CASE /\ section # None /\ section.building
               /\ cache' = [cache EXCEPT ![Advanced(section).spine] = File(Advanced(section), Advanced(section).count)]
      <4>1. SectionOK(Advanced(section))
        BY <3>3, AdvancedOK DEF Types, SectionInv
      <4>2. Advanced(section).count \in Nat /\ Advanced(section).count <= Pages(Advanced(section).layout)
        BY <4>1, SectionRecord
      <4>3. UNCHANGED layout
        BY <2>1 DEF Tick
      <4>4. QED
        BY <3>3, <4>1, <4>2, <4>3, FileOK DEF Types, CacheOK
    <3>4. QED
      BY <2>1, <3>1, <3>2, <3>3 DEF Tick
  <2>2. CASE ExtendTest \/ Extend \/ TickTest
    BY <2>2 DEF Types, CacheOK, ExtendTest, Extend, TickTest, place, saving, mainVars,
      drawVars, history, bounds, rest, vars
  <2>3. QED
    BY <1>2, <2>1, <2>2 DEF Background
<1>3. CASE End
  <2>1. CASE EndTest \/ EndSave \/ EndPush \/ EndReset \/ ReturnFromEnd
    BY <2>1 DEF Types, CacheOK, EndTest, EndSave, EndPush, EndReset, ReturnFromEnd, place,
      saving, mainVars, drawVars, history, bounds, rest, vars
  <2>2. QED
    BY <1>3, <2>1 DEF End
<1>4. CASE Turns
  <2>1. CASE TurnChapter
    BY <2>1, DisposeOK DEF Types, CacheOK, TurnChapter, ToChapter
  <2>2. CASE SkipNext
    BY <2>2, DisposeOK DEF Types, CacheOK, SkipNext, ToChapter
  <2>3. CASE SkipChapter
    BY <2>3, DisposeOK DEF Types, CacheOK, SkipChapter, ToChapter
  <2>4. CASE (\E dir \in {-1, 1} : PressTurn(dir)) \/ QueuedTurn \/ TurnLock \/ TurnTest \/
      TurnPage \/ SkipForward \/ SkipBack \/ SkipPage
    BY <2>4 DEF Types, CacheOK, PressTurn, QueuedTurn, TurnLock, TurnTest, TurnPage,
      PageSet, SkipForward, SkipBack, SkipPage, place, saving, mainVars, drawVars, history,
      bounds, rest, vars
  <2>5. QED
    BY <1>4, <2>1, <2>2, <2>3, <2>4 DEF Turns
<1>5. CASE Menus
  <2>1. ASSUME NEW L \in Layouts, Relayout(L) PROVE CacheOK'
    BY <2>1, DisposeOK DEF Types, CacheOK, Relayout, ResetSection
  <2>2. CASE OpenChapters
    BY <2>2, DisposeOK DEF Types, CacheOK, OpenChapters, ResetSection
  <2>3. ASSUME NEW s \in Chapters, NEW o \in Anchors, JumpToPercent(s, o) PROVE CacheOK'
    BY <2>3, DisposeOK DEF Types, CacheOK, JumpToPercent, ResetSection
  <2>4. ASSUME NEW s \in Chapters, NEW o \in Anchors, Footnote(s, o) PROVE CacheOK'
    BY <2>4, DisposeOK DEF Types, CacheOK, Footnote, ResetSection
  <2>5. ASSUME NEW s \in Chapters, NEW o \in Anchors, NEW L \in Layouts, GoToBookmark(s, o, L) PROVE CacheOK'
    BY <2>5, DisposeOK DEF Types, CacheOK, GoToBookmark, ResetSection
  <2>6. CASE RestoreSavedPosition
    BY <2>6, DisposeOK DEF Types, CacheOK, RestoreSavedPosition, ResetSection
  <2>7. CASE DeleteCache
    BY <2>7, PagesOfLayout DEF Types, CacheOK, DeleteCache
  <2>8. CASE CancelChapters \/ (\E s \in Chapters : ChooseChapter(s)) \/
      (\E st \in ManualStatuses : SetStatus(st)) \/ Persist
    BY <2>8 DEF Types, CacheOK, CancelChapters, ChooseChapter, SetStatus, Persist, place,
      saving, mainVars, drawVars, history, bounds, rest, vars
  <2>9. QED
    BY <1>5, <2>1, <2>2, <2>3, <2>4, <2>5, <2>6, <2>7, <2>8 DEF Menus
<1>6. CASE Sessions
  <2>1. CASE Leave
    BY <2>1, DisposeOK DEF Types, CacheOK, Leave
  <2>2. ASSUME NEW L \in Layouts, Open(L) PROVE CacheOK'
    BY <2>2 DEF Types, CacheOK, Open
  <2>3. CASE Reboot
    BY <2>3 DEF Types, CacheOK, Reboot, Closed, place, saving, mainVars, drawVars, history,
      bounds, rest, vars
  <2>4. QED
    BY <1>6, <2>1, <2>2, <2>3 DEF Sessions
<1>7. CASE UNCHANGED vars
  BY <1>7 DEF Types, CacheOK, place, saving, mainVars, drawVars, history, bounds, rest, vars
<1>8. QED
  BY <1>1, <1>2, <1>3, <1>4, <1>5, <1>6, <1>7 DEF Next

(* getPageForVisibleTextOffset() gives a page. *)
LEMMA PageAtOK ==
    ASSUME NEW sec, SectionOK(sec), NEW o \in Nat
    PROVE  PageAt(sec, o) \in Nat \cup {None}
<1>1. LenOf[sec.layout] \in Nat \ {0}
  BY SectionRecord, PagesOfLayout
<1>2. QED
  BY <1>1, Quotient DEF PageAt

LEMMA AnchorPageOK ==
    ASSUME NEW sec, SectionOK(sec), NEW o \in Nat
    PROVE  AnchorPage(sec, o) \in Nat \cup {None}
<1>1. LenOf[sec.layout] \in Nat \ {0}
  BY SectionRecord, PagesOfLayout
<1>2. QED
  BY <1>1, Quotient DEF AnchorPage

LEMMA TargetOK ==
    ASSUME PlaceOK
    PROVE  Target \in Nat /\ (~pend.last => Target = IF pend.next >= 0 THEN pend.next ELSE 0)
<1>1. pend.next \in Int /\ pend.last \in BOOLEAN
  BY DEF PlaceOK, Pends, Deferreds, PageNumbers
<1>2. Max({pend.next, 0}) = IF pend.next >= 0 THEN pend.next ELSE 0
  BY <1>1, MaxOfTwo
<1>3. MaxPage \in Nat
  BY ReaderAssumption DEF MaxPage
<1>4. QED
  BY <1>1, <1>2, <1>3 DEF Target

(* The page a new section is opened at. *)
LEMMA PlacedPageOK ==
    ASSUME PlaceOK, NEW sec, SectionOK(sec)
    PROVE  PlacedPage(sec) \in PageNumbers /\ PlacedPage(sec) >= 0
<1> DEFINE o == IF OffsetJump(sec) = None THEN None ELSE PageAt(sec, OffsetJump(sec))
           a == IF pend.anchor = None THEN None ELSE AnchorPage(sec, pend.anchor)
           c == (pend.percent * sec.count) \div Units
<1>1. /\ pend.offset \in Nat \cup {None} /\ pend.anchor \in Nat \cup {None}
      /\ pend.percent \in Nat \cup {None} /\ deferred.offset \in Nat \cup {None}
  <2>1. Anchors \subseteq Nat /\ 0 .. Units \subseteq Nat
    BY ReaderAssumption
  <2>2. /\ pend.offset \in (0 .. Units) \cup {None} /\ pend.anchor \in Anchors \cup {None}
        /\ pend.percent \in Anchors \cup {None} /\ deferred.offset \in Nat \cup {None}
    BY DEF PlaceOK, Pends, Deferreds
  <2>3. QED
    BY <2>1, <2>2
<1>2. OffsetJump(sec) \in Nat \cup {None}
  BY <1>1 DEF OffsetJump
<1>3. o \in Nat \cup {None}
  BY <1>2, PageAtOK
<1>4. a \in Nat \cup {None}
  BY <1>1, AnchorPageOK
<1>5. pend.percent # None => c \in Nat
  <2> SUFFICES ASSUME pend.percent # None PROVE c \in Nat
    OBVIOUS
  <2>1. pend.percent \in Nat /\ sec.count \in Nat /\ Units \in Nat \ {0}
    BY <1>1, SectionRecord, ReaderAssumption
  <2>2. pend.percent * sec.count \in Nat
    BY <2>1
  <2>3. QED
    BY <2>1, <2>2, Quotient
<1>6. PlacedPage(sec) = CASE pend.percent # None /\ sec.count > 0 -> c
                          [] pend.percent = None /\ a # None -> a
                          [] OTHER -> IF o # None THEN o ELSE Target
  BY DEF PlacedPage
<1> HIDE DEF o, a, c
<1>7. PlacedPage(sec) \in Nat
  BY <1>3, <1>4, <1>5, <1>6, TargetOK
<1>8. QED
  BY <1>7 DEF PageNumbers

(* The section. *)
LEMMA SectionStep == Types /\ [Next]_vars => SectionInv'
<1> SUFFICES ASSUME Types, [Next]_vars PROVE SectionInv'
  OBVIOUS
<1>1. CASE Render
  <2>1. CASE RenderOpen
    <3>1. spine \in Chapters /\ CacheOK
      BY <2>1, ReaderAssumption DEF Types, StepsOK, PlaceOK, RenderOpen, Chapters
    <3>2. \/ section' = None
          \/ section' = Started(NewSection(spine))
          \/ section' = NewSection(spine) /\ (NewSection(spine).count = Pages(layout) \/ NewSection(spine).partial)
      BY <2>1 DEF RenderOpen, Deferrable
    <3>3. QED
      BY <3>1, <3>2, NewSectionOK, StartedOK DEF SectionInv
  <2>2. CASE RenderBuild
    <3>1. SectionOK(section) /\ section.building
      BY <2>2 DEF Types, SectionInv, StepsOK, RenderBuild
    <3>2. section' \in {None, Advanced(section)}
      BY <2>2 DEF RenderBuild, BuildMore
    <3>3. QED
      BY <3>1, <3>2, AdvancedOK DEF SectionInv
  <2>3. CASE RenderPlace
    <3>1. SectionOK(section)
      BY <2>3 DEF Types, SectionInv, StepsOK, RenderPlace
    <3>2. PlacedPage(section) \in PageNumbers
      BY <3>1, PlacedPageOK DEF Types
    <3>3. section' = [section EXCEPT !.page = PlacedPage(section)]
      BY <2>3 DEF RenderPlace
    <3> HIDE DEF PlacedPage
    <3>4. QED
      BY <3>1, <3>2, <3>3, PageTurned DEF SectionInv
  <2>4. CASE RenderFitStart
    <3>1. SectionOK(section) /\ section' \in {None, Started(section)}
      BY <2>4 DEF Types, SectionInv, StepsOK, RenderFitStart
    <3>2. QED
      BY <3>1, StartedOK DEF SectionInv, SectionOK
  <2>5. CASE RenderFitBuild
    <3>1. SectionOK(section) /\ section.building
      BY <2>5 DEF Types, SectionInv, StepsOK, RenderFitBuild
    <3>2. section' \in {None, Advanced(section)}
      BY <2>5 DEF RenderFitBuild, BuildMore
    <3>3. QED
      BY <3>1, <3>2, AdvancedOK DEF SectionInv
  <2>6. CASE RenderFit
    <3>1. SectionOK(section)
      BY <2>6 DEF Types, SectionInv, StepsOK, RenderFit
    <3>2. PICK sec : SectionOK(sec) /\ section' = Repositioned(sec)
      <4>1. section.count - 1 \in PageNumbers
        BY <3>1, SectionRecord DEF PageNumbers
      <4>2. section' \in {Repositioned(section), Repositioned([section EXCEPT !.page = section.count - 1])}
        BY <2>6 DEF RenderFit
      <4>3. QED
        BY <3>1, <4>1, <4>2, PageTurned
    <3>3. QED
      BY <3>2, RepositionedOK DEF SectionInv, Types, PlaceOK, Deferreds
  <2>7. CASE RenderShow
    BY <2>7 DEF Types, SectionInv, RenderShow
  <2>8. CASE RenderBegin \/ RenderBuilt \/ RenderSave \/ RenderWrite
    BY <2>8 DEF Types, SectionInv, RenderBegin, RenderBuilt, RenderSave, RenderWrite, place,
      saving, mainVars, drawVars, history, bounds, rest, vars
  <2>9. QED
    BY <1>1, <2>1, <2>2, <2>3, <2>4, <2>5, <2>6, <2>7, <2>8 DEF Render
<1>2. CASE Background
  <2>1. CASE Extend
    <3>1. section' \in {None, section} \/ (section # None /\ section' = Started(section))
      BY <2>1 DEF Extend, Panic
    <3>2. QED
      BY <3>1, StartedOK DEF Types, SectionInv, SectionOK
  <2>2. CASE Tick
    <3>1. section' \in {None, section} \/ (section # None /\ section.building /\ section' = Repositioned(Advanced(section)))
      BY <2>2 DEF Tick
    <3>2. QED
      BY <3>1, AdvancedOK, RepositionedOK DEF Types, SectionInv, PlaceOK, Deferreds
  <2>3. CASE ExtendTest \/ TickTest
    BY <2>3 DEF Types, SectionInv, ExtendTest, TickTest, place, saving, mainVars, drawVars,
      history, bounds, rest, vars
  <2>4. QED
    BY <1>2, <2>1, <2>2, <2>3 DEF Background
<1>3. CASE End
  <2>1. CASE EndTest \/ EndSave \/ EndPush \/ EndReset \/ ReturnFromEnd
    BY <2>1 DEF Types, SectionInv, EndTest, EndSave, EndPush, EndReset, ReturnFromEnd,
      place, saving, mainVars, drawVars, history, bounds, rest, vars
  <2>2. QED
    BY <1>3, <2>1 DEF End
<1>4. CASE Turns
  <2>1. CASE TurnPage
    <3>1. section' = section \/ \E p \in {turn.page, section.page} :
                    section # None /\ section' = [section EXCEPT !.page = p + turn.dir]
      BY <2>1 DEF TurnPage, PageSet
    <3>2. CASE section' = section
      BY <3>2 DEF Types, SectionInv
    <3>3. ASSUME NEW p \in {turn.page, section.page}, section # None,
                 section' = [section EXCEPT !.page = p + turn.dir]
          PROVE  SectionInv'
      <4>1. SectionOK(section) /\ mainPc = "turnPage"
        BY <2>1, <3>3 DEF Types, SectionInv, TurnPage
      <4>2. /\ turn.dir \in {-1, 1} /\ turn.page \in PageNumbers /\ section.page \in PageNumbers
            /\ turn.dir < 0 => section.page >= 0 /\ turn.page > 0
        BY <3>3, <4>1, SectionRecord DEF Types, ControlOK, TurnBackOK, InTurn, TurnsDue
      <4>3. p + turn.dir \in PageNumbers
        BY <4>2 DEF PageNumbers
      <4>4. QED
        BY <3>3, <4>1, <4>3, PageTurned DEF SectionInv
    <3>4. QED
      BY <3>1, <3>2, <3>3
  <2>2. CASE TurnChapter
    BY <2>2 DEF SectionInv, ToChapter, TurnChapter
  <2>3. CASE SkipNext
    BY <2>3 DEF SectionInv, ToChapter, SkipNext
  <2>4. CASE SkipPage
    <3>1. section' = section \/ (section # None /\ section' = [section EXCEPT !.page = 0])
      BY <2>4 DEF SkipPage, PageSet
    <3>2. 0 \in PageNumbers
      BY DEF PageNumbers
    <3>3. QED
      BY <3>1, <3>2, PageTurned DEF Types, SectionInv
  <2>5. CASE SkipChapter
    BY <2>5 DEF SectionInv, ToChapter, SkipChapter
  <2>6. CASE (\E dir \in {-1, 1} : PressTurn(dir)) \/ QueuedTurn \/ TurnLock \/ TurnTest \/
      SkipForward \/ SkipBack
    BY <2>6 DEF Types, SectionInv, PressTurn, QueuedTurn, TurnLock, TurnTest, SkipForward,
      SkipBack, place, saving, mainVars, drawVars, history, bounds, rest, vars
  <2>7. QED
    BY <1>4, <2>1, <2>2, <2>3, <2>4, <2>5, <2>6 DEF Turns
<1>5. CASE Menus
  <2>1. ASSUME NEW L \in Layouts, Relayout(L) PROVE SectionInv'
    BY <2>1 DEF SectionInv, ResetSection, Relayout
  <2>2. CASE OpenChapters
    BY <2>2 DEF SectionInv, ResetSection, OpenChapters
  <2>3. ASSUME NEW s \in Chapters, NEW o \in Anchors, JumpToPercent(s, o) PROVE SectionInv'
    BY <2>3 DEF SectionInv, ResetSection, JumpToPercent
  <2>4. ASSUME NEW s \in Chapters, NEW o \in Anchors, Footnote(s, o) PROVE SectionInv'
    BY <2>4 DEF SectionInv, ResetSection, Footnote
  <2>5. ASSUME NEW s \in Chapters, NEW o \in Anchors, NEW L \in Layouts, GoToBookmark(s, o, L) PROVE SectionInv'
    <3>1. CASE section # None /\ spine = s
      <4> DEFINE p == IF PageAt(section, o) # None THEN PageAt(section, o) ELSE o \div LenOf[L]
      <4>1. section' = [section EXCEPT !.page = p]
        BY <2>5, <3>1 DEF GoToBookmark
      <4>2. SectionOK(section)
        BY <3>1 DEF Types, SectionInv
      <4>3. o \in Nat /\ LenOf[L] \in Nat \ {0}
        BY PagesOfLayout, ReaderAssumption
      <4>4. PageAt(section, o) \in Nat \cup {None} /\ o \div LenOf[L] \in Nat
        BY <4>2, <4>3, PageAtOK, Quotient
      <4>5. p \in PageNumbers
        BY <4>4 DEF PageNumbers
      <4> HIDE DEF p
      <4>6. QED
        BY <4>1, <4>2, <4>5, PageTurned DEF SectionInv
    <3>2. CASE ~(section # None /\ spine = s)
      BY <2>5, <3>2 DEF GoToBookmark, ResetSection, SectionInv
    <3>3. QED
      BY <3>1, <3>2
  <2>6. CASE RestoreSavedPosition
    BY <2>6 DEF SectionInv, ResetSection, RestoreSavedPosition
  <2>7. CASE DeleteCache
    BY <2>7 DEF SectionInv, Closed, DeleteCache
  <2>8. CASE CancelChapters \/ (\E s \in Chapters : ChooseChapter(s)) \/
      (\E st \in ManualStatuses : SetStatus(st)) \/ Persist
    BY <2>8 DEF Types, SectionInv, CancelChapters, ChooseChapter, SetStatus, Persist, place,
      saving, mainVars, drawVars, history, bounds, rest, vars
  <2>9. QED
    BY <1>5, <2>1, <2>2, <2>3, <2>4, <2>5, <2>6, <2>7, <2>8 DEF Menus
<1>6. CASE Sessions
  <2>1. CASE Leave
    BY <2>1 DEF SectionInv, Closed, Leave
  <2>2. CASE Reboot
    BY <2>2 DEF SectionInv, Closed, Reboot
  <2>3. CASE (\E L \in Layouts : Open(L))
    BY <2>3 DEF Types, SectionInv, Open, place, saving, mainVars, drawVars, history, bounds,
      rest, vars
  <2>4. QED
    BY <1>6, <2>1, <2>2, <2>3 DEF Sessions
<1>7. CASE UNCHANGED vars
  BY <1>7 DEF Types, SectionInv, place, saving, mainVars, drawVars, history, bounds, rest,
    vars
<1>8. QED
  BY <1>1, <1>2, <1>3, <1>4, <1>5, <1>6, <1>7 DEF Next

(* rememberCurrentContentOffset() keeps a place. *)
LEMMA RememberedOK ==
    ASSUME SectionInv, PlaceOK
    PROVE  /\ Remembered[1] \in Deferreds
           /\ Remembered[2] \in PageNumbers
<1>1. CASE section = None
  BY <1>1 DEF Remembered, PlaceOK, Pends
<1>2. CASE section # None
  <2> DEFINE o == IF InBounds(section) THEN OffsetOf(section, section.page) ELSE None
             r == [spine |-> spine, total |-> section.count, offset |-> o]
  <2>1. /\ section.page \in PageNumbers /\ section.count \in Nat /\ LenOf[section.layout] \in Nat
    BY <1>2, SectionRecord, PagesOfLayout DEF SectionInv
  <2>2. o \in Nat \cup {None}
    BY <2>1 DEF InBounds, OffsetOf
  <2>3. Remembered = <<r, section.page>>
    BY <1>2 DEF Remembered
  <2> HIDE DEF o
  <2>4. r \in Deferreds
    BY <2>1, <2>2 DEF PlaceOK, Deferreds
  <2> HIDE DEF r
  <2>5. QED
    BY <2>1, <2>3, <2>4
<1>3. QED
  BY <1>1, <1>2

(* The place. *)
LEMMA PlaceStep == Types /\ [Next]_vars => PlaceOK'
<1> SUFFICES ASSUME Types, [Next]_vars PROVE PlaceOK'
  OBVIOUS
<1>1. CASE Render
  <2>1. CASE RenderOpen
    BY <2>1 DEF RenderOpen, Types, PlaceOK, Pends, Deferreds, NoDeferred, PageNumbers
  <2>2. CASE RenderPlace
    BY <2>2 DEF RenderPlace, RenderUnchanged, NoPend, Types, PlaceOK, Pends, Deferreds, NoDeferred, PageNumbers
  <2>3. CASE RenderFit
    BY <2>3 DEF RenderFit, RenderUnchanged, Types, PlaceOK, Pends, Deferreds, NoDeferred, PageNumbers
  <2>4. CASE RenderBegin \/ RenderBuild \/ RenderBuilt \/ RenderFitStart \/
      RenderFitBuild \/ RenderShow \/ RenderSave \/ RenderWrite
    BY <2>4 DEF Types, PlaceOK, RenderBegin, RenderBuild, BuildMore, RenderUnchanged,
      RenderBuilt, RenderFitStart, RenderFitBuild, RenderShow, RenderSave, RenderWrite,
      place, saving, mainVars, drawVars, history, bounds, rest, vars
  <2>5. QED
    BY <1>1, <2>1, <2>2, <2>3, <2>4 DEF Render
<1>2. CASE Background
  <2>1. CASE Tick
    <3>1. deferred' \in {deferred, NoDeferred(deferred)} /\ UNCHANGED <<spine, pend>>
      BY <2>1 DEF Tick
    <3>2. QED
      BY <3>1, NoDeferredOK DEF Types, PlaceOK
  <2>2. CASE ExtendTest \/ Extend \/ TickTest
    BY <2>2 DEF Types, PlaceOK, ExtendTest, Extend, TickTest, place, saving, mainVars,
      drawVars, history, bounds, rest, vars
  <2>3. QED
    BY <1>2, <2>1, <2>2 DEF Background
<1>3. CASE End
  <2>1. CASE ReturnFromEnd
    <3> DEFINE zero == 0
    <3> DEFINE yes == TRUE
    <3>1. pend' = [pend EXCEPT !.next = zero, !.last = yes]
      BY <2>1 DEF ReturnFromEnd
    <3>2. zero \in PageNumbers /\ yes \in BOOLEAN
      BY DEF PageNumbers
    <3> HIDE DEF zero, yes
    <3>3. pend' \in Pends
      BY <3>1, <3>2 DEF Types, PlaceOK, Pends
    <3>4. deferred' \in Deferreds
      BY <2>1 DEF ReturnFromEnd, Types, PlaceOK, Deferreds, NoDeferred
    <3>5. spine' \in 0 .. Spines
      BY <2>1, ReaderAssumption DEF ReturnFromEnd, Types, PlaceOK, StepsOK, Chapters
    <3>6. QED
      BY <3>3, <3>4, <3>5 DEF PlaceOK
  <2>2. CASE EndTest \/ EndSave \/ EndPush \/ EndReset
    BY <2>2 DEF Types, PlaceOK, EndTest, EndSave, EndPush, EndReset, place, saving,
      mainVars, drawVars, history, bounds, rest, vars
  <2>3. QED
    BY <1>3, <2>1, <2>2 DEF End
<1>4. CASE Turns
  <2>1. CASE TurnLock
    BY <2>1 DEF TurnLock, Types, PlaceOK, Pends, Deferreds, NoDeferred, PageNumbers
  <2>2. CASE TurnTest
    BY <2>2, ReaderAssumption DEF TurnTest, Types, PlaceOK, Pends, Deferreds, NoDeferred, PageNumbers
  <2>3. CASE TurnChapter
    <3> DEFINE zero == 0
    <3> DEFINE last == pend.last \/ turn.dir < 0
    <3>1. pend' = [pend EXCEPT !.next = zero, !.last = last]
      BY <2>3 DEF TurnChapter, ToChapter
    <3>2. zero \in PageNumbers /\ last \in BOOLEAN
      BY DEF PageNumbers, Types, PlaceOK, Pends
    <3> HIDE DEF zero, last
    <3>3. pend' \in Pends
      BY <3>1, <3>2 DEF Types, PlaceOK, Pends
    <3>4. deferred' \in Deferreds
      BY <2>3 DEF TurnChapter, ToChapter, Types, PlaceOK, Deferreds, NoDeferred
    <3>5. spine' \in 0 .. Spines
      BY <2>3, ReaderAssumption DEF TurnChapter, ToChapter, Types, PlaceOK, StepsOK, Chapters
    <3>6. QED
      BY <3>3, <3>4, <3>5 DEF PlaceOK
  <2>4. CASE SkipNext
    <3> DEFINE zero == 0
    <3> DEFINE last == pend.last \/ FALSE
    <3>1. pend' = [pend EXCEPT !.next = zero, !.last = last]
      BY <2>4 DEF SkipNext, ToChapter
    <3>2. zero \in PageNumbers /\ last \in BOOLEAN
      BY DEF PageNumbers, Types, PlaceOK, Pends
    <3> HIDE DEF zero, last
    <3>3. pend' \in Pends
      BY <3>1, <3>2 DEF Types, PlaceOK, Pends
    <3>4. deferred' \in Deferreds
      BY <2>4 DEF SkipNext, ToChapter, Types, PlaceOK, Deferreds, NoDeferred
    <3>5. spine' \in 0 .. Spines
      BY <2>4, ReaderAssumption DEF SkipNext, ToChapter, Types, PlaceOK, StepsOK, Chapters
    <3>6. QED
      BY <3>3, <3>4, <3>5 DEF PlaceOK
  <2>5. CASE SkipChapter
    <3> DEFINE zero == 0
    <3> DEFINE last == pend.last \/ FALSE
    <3>1. pend' = [pend EXCEPT !.next = zero, !.last = last]
      BY <2>5 DEF SkipChapter, ToChapter
    <3>2. zero \in PageNumbers /\ last \in BOOLEAN
      BY DEF PageNumbers, Types, PlaceOK, Pends
    <3> HIDE DEF zero, last
    <3>3. pend' \in Pends
      BY <3>1, <3>2 DEF Types, PlaceOK, Pends
    <3>4. deferred' \in Deferreds
      BY <2>5 DEF SkipChapter, ToChapter, Types, PlaceOK, Deferreds, NoDeferred
    <3>5. spine' \in 0 .. Spines
      BY <2>5, ReaderAssumption DEF SkipChapter, ToChapter, Types, PlaceOK, StepsOK, Chapters
    <3>6. QED
      BY <3>3, <3>4, <3>5 DEF PlaceOK
  <2>6. CASE (\E dir \in {-1, 1} : PressTurn(dir)) \/ QueuedTurn \/ TurnPage \/
      SkipForward \/ SkipBack \/ SkipPage
    BY <2>6 DEF Types, PlaceOK, PressTurn, QueuedTurn, TurnPage, PageSet, SkipForward,
      SkipBack, SkipPage, place, saving, mainVars, drawVars, history, bounds, rest, vars
  <2>7. QED
    BY <1>4, <2>1, <2>2, <2>3, <2>4, <2>5, <2>6 DEF Turns
<1>5. CASE Menus
  <2>1. ASSUME NEW L \in Layouts, Relayout(L) PROVE PlaceOK'
    BY <2>1, RememberedOK DEF Relayout, Types, PlaceOK, Pends, Deferreds, NoDeferred, PageNumbers
  <2>2. CASE OpenChapters
    BY <2>2, RememberedOK DEF OpenChapters, Types, PlaceOK, Pends, Deferreds, NoDeferred, PageNumbers
  <2>3. ASSUME NEW s \in Chapters, ChooseChapter(s) PROVE PlaceOK'
    <3> DEFINE zero == 0
    <3>1. pend' = [pend EXCEPT !.next = zero, !.anchor = None]
      BY <2>3 DEF ChooseChapter
    <3>2. zero \in PageNumbers
      BY DEF PageNumbers
    <3> HIDE DEF zero
    <3>3. pend' \in Pends
      BY <3>1, <3>2 DEF Types, PlaceOK, Pends
    <3>4. deferred' \in Deferreds
      BY <2>3 DEF ChooseChapter, Types, PlaceOK, Deferreds, NoDeferred
    <3>5. spine' \in 0 .. Spines
      BY <2>3, ReaderAssumption DEF ChooseChapter, Types, PlaceOK, StepsOK, Chapters
    <3>6. QED
      BY <3>3, <3>4, <3>5 DEF PlaceOK
  <2>4. ASSUME NEW s \in Chapters, NEW o \in Anchors, JumpToPercent(s, o) PROVE PlaceOK'
    <3> DEFINE zero == 0
    <3>1. pend' = [pend EXCEPT !.percent = o, !.next = zero]
      BY <2>4 DEF JumpToPercent
    <3>2. zero \in PageNumbers
      BY DEF PageNumbers
    <3> HIDE DEF zero
    <3>3. pend' \in Pends
      BY <3>1, <3>2 DEF Types, PlaceOK, Pends
    <3>4. deferred' \in Deferreds
      BY <2>4 DEF JumpToPercent, Types, PlaceOK, Deferreds, NoDeferred
    <3>5. spine' \in 0 .. Spines
      BY <2>4, ReaderAssumption DEF JumpToPercent, Types, PlaceOK, StepsOK, Chapters
    <3>6. QED
      BY <3>3, <3>4, <3>5 DEF PlaceOK
  <2>5. ASSUME NEW s \in Chapters, NEW o \in Anchors, Footnote(s, o) PROVE PlaceOK'
    <3> DEFINE zero == 0
    <3>1. pend' = [pend EXCEPT !.anchor = o, !.next = zero]
      BY <2>5 DEF Footnote
    <3>2. zero \in PageNumbers
      BY DEF PageNumbers
    <3> HIDE DEF zero
    <3>3. pend' \in Pends
      BY <3>1, <3>2 DEF Types, PlaceOK, Pends
    <3>4. deferred' \in Deferreds
      BY <2>5 DEF Footnote, Types, PlaceOK, Deferreds, NoDeferred
    <3>5. spine' \in 0 .. Spines
      BY <2>5, ReaderAssumption DEF Footnote, Types, PlaceOK, StepsOK, Chapters
    <3>6. QED
      BY <3>3, <3>4, <3>5 DEF PlaceOK
  <2>6. ASSUME NEW s \in Chapters, NEW o \in Anchors, NEW L \in Layouts, GoToBookmark(s, o, L) PROVE PlaceOK'
    <3>1. o \in 0 .. Units /\ s \in 0 .. Spines
      BY ReaderAssumption DEF Chapters
    <3>2. o \div LenOf[L] \in PageNumbers
      BY <3>1, PagesOfLayout, ReaderAssumption, Quotient DEF PageNumbers
    <3>3. QED
      BY <2>6, <3>1, <3>2 DEF GoToBookmark, Types, PlaceOK, Pends, Deferreds, NoDeferred
  <2>7. CASE RestoreSavedPosition
    <3> DEFINE pos == origin[Len(origin)]
    <3>1. pos.spine \in Chapters /\ pos.page \in PageNumbers
      <4> DEFINE S == [spine : Chapters, page : PageNumbers]
      <4>1. origin \in Seq(S) /\ origin # <<>>
        BY <2>7 DEF RestoreSavedPosition, Types, OriginOK
      <4>2. pos \in S
        BY <4>1, EndsOfSequence
      <4>3. QED
        BY <4>2
    <3>2. /\ spine' = pos.spine /\ pend' = [pend EXCEPT !.next = pos.page]
          /\ deferred' = NoDeferred(deferred)
      BY <2>7 DEF RestoreSavedPosition
    <3> HIDE DEF pos
    <3>3. pos.spine \in 0 .. Spines
      BY <3>1, ReaderAssumption DEF Chapters
    <3>4. QED
      BY <3>1, <3>2, <3>3 DEF Types, PlaceOK, Pends, Deferreds, NoDeferred
  <2>8. CASE CancelChapters \/ (\E st \in ManualStatuses : SetStatus(st)) \/ Persist \/
      DeleteCache
    BY <2>8 DEF Types, PlaceOK, CancelChapters, SetStatus, Persist, DeleteCache, Closed,
      place, saving, mainVars, drawVars, history, bounds, rest, vars
  <2>9. QED
    BY <1>5, <2>1, <2>2, <2>3, <2>4, <2>5, <2>6, <2>7, <2>8 DEF Menus
<1>6. CASE Sessions
  <2>1. ASSUME NEW L \in Layouts, Open(L) PROVE PlaceOK'
    <3> DEFINE at   == IF progress = None THEN 0 ELSE progress.spine
               page == IF progress = None THEN 0 ELSE progress.page
               n    == IF progress = None THEN 0 ELSE progress.count
               o    == IF progress = None THEN None ELSE progress.offset
    <3>1. /\ at \in 0 .. Spines /\ page \in PageNumbers /\ n \in Nat /\ o \in Nat \cup {None}
      BY ReaderAssumption DEF Types, SavingOK, BytesOK, Saved, PageNumbers
    <3>2. /\ spine' = at /\ pend' = [NoPend EXCEPT !.next = page]
          /\ deferred' = [spine |-> at, total |-> n, offset |-> o]
      BY <2>1 DEF Open
    <3> HIDE DEF at, page, n, o
    <3>3. QED
      BY <3>1, <3>2 DEF PlaceOK, Pends, Deferreds, NoPend
  <2>2. CASE Leave \/ Reboot
    BY <2>2 DEF Types, PlaceOK, Leave, Closed, Reboot, place, saving, mainVars, drawVars,
      history, bounds, rest, vars
  <2>3. QED
    BY <1>6, <2>1, <2>2 DEF Sessions
<1>7. CASE UNCHANGED vars
  BY <1>7 DEF Types, PlaceOK, place, saving, mainVars, drawVars, history, bounds, rest, vars
<1>8. QED
  BY <1>1, <1>2, <1>3, <1>4, <1>5, <1>6, <1>7 DEF Next

(* The places footnotes were opened from. *)
LEMMA OriginStep == Types /\ [Next]_vars => OriginOK'
<1> SUFFICES ASSUME Types, [Next]_vars PROVE OriginOK'
  OBVIOUS
<1>1. CASE Render
  <2>1. CASE RenderBegin \/ RenderOpen \/ RenderBuild \/ RenderBuilt \/ RenderPlace \/
      RenderFitStart \/ RenderFitBuild \/ RenderFit \/ RenderShow \/ RenderSave \/
      RenderWrite
    BY <2>1 DEF Types, OriginOK, RenderBegin, RenderOpen, RenderBuild, BuildMore,
      RenderUnchanged, RenderBuilt, RenderPlace, RenderFitStart, RenderFitBuild, RenderFit,
      RenderShow, RenderSave, RenderWrite, place, saving, mainVars, drawVars, history,
      bounds, rest, vars
  <2>2. QED
    BY <1>1, <2>1 DEF Render
<1>2. CASE Background
  <2>1. CASE ExtendTest \/ Extend \/ TickTest \/ Tick
    BY <2>1 DEF Types, OriginOK, ExtendTest, Extend, TickTest, Tick, place, saving,
      mainVars, drawVars, history, bounds, rest, vars
  <2>2. QED
    BY <1>2, <2>1 DEF Background
<1>3. CASE End
  <2>1. CASE EndTest \/ EndSave \/ EndPush \/ EndReset \/ ReturnFromEnd
    BY <2>1 DEF Types, OriginOK, EndTest, EndSave, EndPush, EndReset, ReturnFromEnd, place,
      saving, mainVars, drawVars, history, bounds, rest, vars
  <2>2. QED
    BY <1>3, <2>1 DEF End
<1>4. CASE Turns
  <2>1. CASE (\E dir \in {-1, 1} : PressTurn(dir)) \/ QueuedTurn \/ TurnLock \/ TurnTest \/
      TurnPage \/ TurnChapter \/ SkipForward \/ SkipNext \/ SkipBack \/ SkipPage \/
      SkipChapter
    BY <2>1 DEF Types, OriginOK, PressTurn, QueuedTurn, TurnLock, TurnTest, TurnPage,
      PageSet, TurnChapter, ToChapter, SkipForward, SkipNext, SkipBack, SkipPage,
      SkipChapter, place, saving, mainVars, drawVars, history, bounds, rest, vars
  <2>2. QED
    BY <1>4, <2>1 DEF Turns
<1>5. CASE Menus
  <2>1. ASSUME NEW s \in Chapters, NEW o \in Anchors, Footnote(s, o) PROVE OriginOK'
    <3>1. origin' = OriginPushed
      BY <2>1 DEF Footnote
    <3>2. CASE section # None /\ Len(origin) < MaxDepth
      <4> DEFINE S == [spine : Chapters, page : PageNumbers]
                 x == [spine |-> spine, page |-> section.page]
      <4>1. x \in S
        <5>1. spine \in Chapters
          BY <2>1, ReaderAssumption DEF Footnote, Ready, Types, PlaceOK, Chapters
        <5>2. QED
          BY <3>2, <5>1, SectionRecord DEF Types, SectionInv
      <4>2. origin \in Seq(S) /\ MaxDepth \in Nat
        BY ReaderAssumption DEF Types, OriginOK
      <4>3. origin' = Append(origin, x)
        BY <3>1, <3>2 DEF OriginPushed
      <4> HIDE DEF x
      <4>4. origin' \in Seq(S) /\ Len(origin') <= MaxDepth
        BY <3>2, <4>1, <4>2, <4>3, Pushed
      <4>5. QED
        BY <4>4 DEF OriginOK
    <3>3. CASE ~(section # None /\ Len(origin) < MaxDepth)
      BY <3>1, <3>3 DEF OriginPushed, Types, OriginOK
    <3>4. QED
      BY <3>2, <3>3
  <2>2. CASE RestoreSavedPosition
    <3> DEFINE S == [spine : Chapters, page : PageNumbers]
    <3>1. origin # <<>> /\ origin' = SubSeq(origin, 1, Len(origin) - 1)
      BY <2>2 DEF RestoreSavedPosition
    <3>2. origin \in Seq(S) /\ MaxDepth \in Nat /\ Len(origin) <= MaxDepth
      BY ReaderAssumption DEF Types, OriginOK
    <3>3. origin' \in Seq(S) /\ Len(origin') <= MaxDepth
      BY <3>1, <3>2, Popped
    <3>4. QED
      BY <3>3 DEF OriginOK
  <2>3. CASE DeleteCache
    <3> DEFINE S == [spine : Chapters, page : PageNumbers]
    <3>1. origin' = <<>> /\ <<>> \in Seq(S) /\ Len(<<>>) = 0 /\ MaxDepth \in Nat
      BY <2>3, ReaderAssumption DEF DeleteCache, Closed
    <3>2. QED
      BY <3>1 DEF OriginOK
  <2>4. CASE (\E L \in Layouts : Relayout(L)) \/ OpenChapters \/ CancelChapters \/
      (\E s \in Chapters : ChooseChapter(s)) \/
      (\E s \in Chapters, o \in Anchors : JumpToPercent(s, o)) \/
      (\E s \in Chapters, o \in Anchors, L \in Layouts : GoToBookmark(s, o, L)) \/
      (\E st \in ManualStatuses : SetStatus(st)) \/ Persist
    BY <2>4 DEF Types, OriginOK, Relayout, ResetSection, OpenChapters, CancelChapters,
      ChooseChapter, JumpToPercent, GoToBookmark, SetStatus, Persist, place, saving,
      mainVars, drawVars, history, bounds, rest, vars
  <2>5. QED
    BY <1>5, <2>1, <2>2, <2>3, <2>4 DEF Menus
<1>6. CASE Sessions
  <2>1. CASE Leave
    <3> DEFINE S == [spine : Chapters, page : PageNumbers]
    <3>1. origin' = <<>> /\ <<>> \in Seq(S) /\ Len(<<>>) = 0 /\ MaxDepth \in Nat
      BY <2>1, ReaderAssumption DEF Leave, Closed
    <3>2. QED
      BY <3>1 DEF OriginOK
  <2>2. CASE Reboot
    <3> DEFINE S == [spine : Chapters, page : PageNumbers]
    <3>1. origin' = <<>> /\ <<>> \in Seq(S) /\ Len(<<>>) = 0 /\ MaxDepth \in Nat
      BY <2>2, ReaderAssumption DEF Reboot, Closed
    <3>2. QED
      BY <3>1 DEF OriginOK
  <2>3. CASE (\E L \in Layouts : Open(L))
    BY <2>3 DEF Types, OriginOK, Open, place, saving, mainVars, drawVars, history, bounds,
      rest, vars
  <2>4. QED
    BY <1>6, <2>1, <2>2, <2>3 DEF Sessions
<1>7. CASE UNCHANGED vars
  BY <1>7 DEF Types, OriginOK, place, saving, mainVars, drawVars, history, bounds, rest,
    vars
<1>8. QED
  BY <1>1, <1>2, <1>3, <1>4, <1>5, <1>6, <1>7 DEF Next

(* getPageForVisibleTextOffset() and saveProgress(): what is written is well formed. *)
LEMMA StatusTyped ==
    ASSUME SavingOK, NEW s, NEW p
    PROVE  NaturalStatus(s, p) \in Statuses
<1>1. status \in Statuses /\ EndStatus \in Statuses
  BY StatusAssumption DEF SavingOK
<1>2. "READING" \in Statuses /\ "START" \in Statuses
  BY DEF Statuses
<1>3. NaturalStatus(s, p) \in {status, EndStatus, "READING", "START"}
  BY DEF NaturalStatus
<1>4. QED
  BY <1>1, <1>2, <1>3

LEMMA KeepManualTyped ==
    ASSUME SavingOK, NEW s, NEW p
    PROVE  KeepManual(s, p) \in BOOLEAN
BY DEF SavingOK, KeepManual

LEMMA SavedPageTyped ==
    ASSUME NEW p \in PageNumbers, NEW s
    PROVE  SavedPage(s, p) \in PageNumbers /\ SavedPage(s, p) \in {0, p}
BY DEF SavedPage, PageNumbers

LEMMA SavedOffsetTyped ==
    ASSUME Types, NEW s, NEW p \in PageNumbers
    PROVE  /\ SavedOffset(s, p) \in Int \cup {None}
           /\ p >= 0 => SavedOffset(s, p) \in Nat \cup {None}
           /\ SavedOffset(s, p) # None => section # None
<1>1. CASE section # None /\ s = spine /\ p < section.count
  <2>1. section.layout \in Layouts /\ LenOf[section.layout] \in Nat
    BY <1>1, SectionRecord, PagesOfLayout DEF Types, SectionInv
  <2>2. /\ OffsetOf(section, p) \in Int
        /\ p >= 0 => OffsetOf(section, p) \in Nat
    BY <2>1 DEF OffsetOf, PageNumbers
  <2>3. SavedOffset(s, p) \in {pageOffset, OffsetOf(section, p)}
        /\ (SavedOffset(s, p) = pageOffset \/ SavedOffset(s, p) = OffsetOf(section, p))
    BY <1>1 DEF SavedOffset
  <2>4. pageOffset \in Nat \cup {None}
    BY DEF Types, SavingOK
  <2>5. QED
    BY <1>1, <2>2, <2>3, <2>4
<1>2. CASE ~(section # None /\ s = spine /\ p < section.count)
  BY <1>2 DEF SavedOffset
<1>3. QED
  BY <1>1, <1>2

LEMMA BytesTyped ==
    ASSUME Types, NEW s \in 0 .. Spines, NEW p \in PageNumbers, NEW n \in Nat
    PROVE  /\ BytesOK(Bytes(s, p, n)) /\ Bytes(s, p, n) # None
           /\ Bytes(s, p, n).spine = s /\ Bytes(s, p, n).page = SavedPage(s, p)
           /\ Bytes(s, p, n).status = NaturalStatus(s, p)
<1> DEFINE page == SavedPage(s, p)
           so == SavedOffset(s, SavedPage(s, p))
           o  == IF so = None THEN 0 ELSE so
           of == IF so = None THEN None ELSE section.layout
           st == NaturalStatus(s, p)
           b  == [spine |-> s, page |-> page, count |-> n, offset |-> o, of |-> of, status |-> st]
<1>1. page \in PageNumbers
  BY SavedPageTyped
<1>2. so \in Int \cup {None} /\ (page >= 0 => so \in Nat \cup {None}) /\ (so # None => section # None)
  BY <1>1, SavedOffsetTyped
<1>3. o \in Int /\ (page >= 0 => o \in Nat)
  BY <1>2
<1>4. of \in Layouts \cup {None}
  BY <1>2, SectionRecord DEF Types, SectionInv
<1>5. st \in Statuses /\ (of = None => o = 0)
  BY <1>2, StatusTyped, SectionRecord, NoneAssumption DEF Types, SectionInv
<1>6. Bytes(s, p, n) = b
  BY DEF Bytes
<1> HIDE DEF page, o, of, st
<1>7. b \in Saved /\ b.page = page /\ b.offset = o /\ b.spine = s /\ b.status = st /\ b.of = of
  BY <1>1, <1>3, <1>4, <1>5 DEF Saved
<1> HIDE DEF b
<1>8. BytesOK(b) /\ b # None
  BY <1>3, <1>5, <1>7, NoneAssumption DEF BytesOK
<1>9. QED
  BY <1>6, <1>7, <1>8 DEF page, st

LEMMA SaveTyped ==
    ASSUME Types, NEW s \in 0 .. Spines, NEW p \in PageNumbers, NEW n \in Nat, Save(s, p, n)
    PROVE  /\ status' \in Statuses /\ manual' \in BOOLEAN
           /\ lastSaved' \in [spine : 0 .. Spines \cup {-1}, page : PageNumbers, count : Nat \cup {-1}]
           /\ lastSaved'.spine = s /\ lastSaved'.page = SavedPage(s, p)
<1>1. SavedPage(s, p) \in PageNumbers /\ NaturalStatus(s, p) \in Statuses /\ KeepManual(s, p) \in BOOLEAN
  BY SavedPageTyped, StatusTyped, KeepManualTyped DEF Types
<1>2. /\ status' = NaturalStatus(s, p) /\ manual' = KeepManual(s, p)
      /\ lastSaved' = [spine |-> s, page |-> SavedPage(s, p), count |-> n]
  BY DEF Save
<1> HIDE DEF SavedPage
<1>3. QED
  BY <1>1, <1>2

LEMMA WriteTyped ==
    ASSUME NEW b, NEW also, BytesOK(b), progress # None => BytesOK(progress) /\ progress.page >= 0,
           Write(b, also)
    PROVE  progress' # None => BytesOK(progress') /\ progress'.page >= 0
<1>1. b.page \in Int
  BY DEF BytesOK, Saved, PageNumbers
<1>2. CASE b.page < 0
  BY <1>2 DEF Write
<1>3. CASE ~(b.page < 0)
  <2>1. progress' \in {b, progress, None} /\ b.page >= 0
    BY <1>1, <1>3 DEF Write
  <2>2. QED
    BY <2>1
<1>4. QED
  BY <1>2, <1>3

(* What is saved. *)
LEMMA SavingStep == Types /\ [Next]_vars => SavingOK'
<1> SUFFICES ASSUME Types, [Next]_vars PROVE SavingOK'
  OBVIOUS
<1>1. CASE Render
  <2>1. CASE RenderShow
    <3>1. pageOffset' \in Nat \cup {None}
      <4>1. CASE InBounds(section) /\ DrawPage
        <5>1. section.page \in Int /\ section.count \in Nat /\ LenOf[section.layout] \in Nat
          BY <2>1, SectionRecord, PagesOfLayout DEF Types, SectionInv, StepsOK, RenderShow
        <5>2. QED
          BY <4>1, <5>1 DEF InBounds, DrawPage, OffsetOf
      <4>2. CASE UNCHANGED pageOffset
        BY <4>2 DEF Types, SavingOK
      <4>3. QED
        BY <2>1, <4>1, <4>2 DEF RenderShow
    <3>2. /\ renderPc' \in {"save", "idle"}
          /\ UNCHANGED <<progress, renderSave, mainSave, mainPc, status, manual, lastSaved>>
      BY <2>1 DEF RenderShow, saving, mainVars
    <3>3. QED
      BY <3>1, <3>2 DEF Types, SavingOK
  <2>2. CASE RenderSave
    <3>1. SectionOK(section) /\ spine \in 0 .. Spines
      BY <2>2 DEF Types, SectionInv, StepsOK, PlaceOK, RenderSave
    <3>2. section.page \in PageNumbers
      BY <3>1, SectionRecord
    <3>3. /\ UNCHANGED <<progress, mainSave, mainPc, pageOffset>>
          /\ \/ /\ UNCHANGED <<status, manual, lastSaved, renderSave>> /\ renderPc' = "idle"
             \/ \E n \in Estimates(section) : Save(spine, section.page, n)
                                          /\ renderSave' = Bytes(spine, section.page, n)
      BY <2>2 DEF RenderSave, mainVars
    <3>4. CASE UNCHANGED <<status, manual, lastSaved, renderSave>> /\ renderPc' = "idle"
      BY <3>3, <3>4 DEF Types, SavingOK
    <3>5. ASSUME NEW n \in Estimates(section), Save(spine, section.page, n),
                 renderSave' = Bytes(spine, section.page, n)
          PROVE  SavingOK'
      <4>1. n \in Nat
        BY <3>1, EstimateOK
      <4>2. BytesOK(renderSave') /\ renderSave' # None
        BY <3>1, <3>2, <3>5, <4>1, BytesTyped
      <4>3. /\ status' \in Statuses /\ manual' \in BOOLEAN
            /\ lastSaved' \in [spine : 0 .. Spines \cup {-1}, page : PageNumbers, count : Nat \cup {-1}]
        BY <3>1, <3>2, <3>5, <4>1, SaveTyped
      <4>4. QED
        BY <3>3, <4>2, <4>3 DEF Types, SavingOK
    <3>6. QED
      BY <3>3, <3>4, <3>5
  <2>3. CASE RenderWrite
    <3>1. BytesOK(renderSave) /\ (progress # None => BytesOK(progress) /\ progress.page >= 0)
      BY <2>3 DEF Types, SavingOK, RenderWrite
    <3>2. progress' # None => BytesOK(progress') /\ progress'.page >= 0
      <4>1. Write(renderSave, (IF mainPc = "endSave" THEN {"overlap"} ELSE {})
                                \cup (IF "turned" \in marks THEN {"torn"} ELSE {}))
        BY <2>3 DEF RenderWrite
      <4>2. QED
        BY <3>1, <4>1, WriteTyped
    <3>3. lastSaved' \in [spine : 0 .. Spines \cup {-1}, page : PageNumbers, count : Nat \cup {-1}]
      <4>1. SectionOK(section) /\ spine \in 0 .. Spines
        BY <2>3 DEF Types, SectionInv, StepsOK, PlaceOK, RenderWrite
      <4>2. section.page \in PageNumbers
        BY <4>1, SectionRecord
      <4>3. \/ lastSaved' = lastSaved
            \/ \E n \in Estimates(section) :
                  lastSaved' = [spine |-> spine, page |-> section.page, count |-> n]
        BY <2>3 DEF RenderWrite
      <4>4. QED
        BY <4>1, <4>2, <4>3, EstimateOK DEF Types, SavingOK
    <3>4. /\ UNCHANGED <<mainSave, mainPc, status, manual, pageOffset>>
          /\ renderSave' = None /\ renderPc' = "idle"
      BY <2>3 DEF RenderWrite, mainVars
    <3>5. QED
      BY <3>2, <3>3, <3>4 DEF Types, SavingOK
  <2>4. CASE RenderBegin \/ RenderOpen \/ RenderBuild \/ RenderBuilt \/ RenderPlace \/
      RenderFitStart \/ RenderFitBuild \/ RenderFit
    BY <2>4 DEF Types, SavingOK, RenderBegin, RenderOpen, RenderBuild, BuildMore,
      RenderUnchanged, RenderBuilt, RenderPlace, RenderFitStart, RenderFitBuild, RenderFit,
      place, saving, mainVars, drawVars, history, bounds, rest, vars
  <2>5. QED
    BY <1>1, <2>1, <2>2, <2>3, <2>4 DEF Render
<1>2. CASE Background
  <2>1. CASE ExtendTest
    BY <2>1 DEF Types, SavingOK, ExtendTest, place, saving, mainVars, drawVars, history,
      bounds, rest, vars
  <2>2. CASE Extend
    <3>1. /\ UNCHANGED <<progress, renderSave, mainSave, renderPc, status, manual, lastSaved, pageOffset>>
          /\ mainPc' # "endSave"
      BY <2>2 DEF Extend, saving, drawVars, Panic
    <3>2. QED
      BY <3>1 DEF Types, SavingOK
  <2>3. CASE TickTest
    BY <2>3 DEF Types, SavingOK, TickTest, place, saving, mainVars, drawVars, history,
      bounds, rest, vars
  <2>4. CASE Tick
    <3>1. /\ UNCHANGED <<progress, renderSave, mainSave, renderPc, status, manual, lastSaved, pageOffset>>
          /\ mainPc' # "endSave"
      BY <2>4 DEF Tick, saving, drawVars, Panic
    <3>2. QED
      BY <3>1 DEF Types, SavingOK
  <2>5. QED
    BY <1>2, <2>1, <2>2, <2>3, <2>4 DEF Background
<1>3. CASE End
  <2>1. CASE EndTest
    <3>1. spine \in 0 .. Spines /\ 0 \in PageNumbers /\ 0 \in Nat
      BY DEF Types, PlaceOK, PageNumbers
    <3>2. /\ UNCHANGED <<progress, renderSave, renderPc, pageOffset>>
          /\ \/ UNCHANGED <<status, manual, lastSaved, mainSave>> /\ mainPc' = "endPush"
             \/ Save(spine, 0, 0) /\ mainSave' = Bytes(spine, 0, 0)
      BY <2>1 DEF EndTest, drawVars
    <3>3. CASE UNCHANGED <<status, manual, lastSaved, mainSave>> /\ mainPc' = "endPush"
      BY <3>2, <3>3 DEF Types, SavingOK
    <3>4. CASE Save(spine, 0, 0) /\ mainSave' = Bytes(spine, 0, 0)
      <4>1. BytesOK(mainSave') /\ mainSave' # None
        BY <3>1, <3>4, BytesTyped
      <4>2. /\ status' \in Statuses /\ manual' \in BOOLEAN
            /\ lastSaved' \in [spine : 0 .. Spines \cup {-1}, page : PageNumbers, count : Nat \cup {-1}]
        BY <3>1, <3>4, SaveTyped
      <4>3. QED
        BY <3>2, <4>1, <4>2 DEF Types, SavingOK
    <3>5. QED
      BY <3>2, <3>3, <3>4
  <2>2. CASE EndSave
    <3>1. BytesOK(mainSave) /\ (progress # None => BytesOK(progress) /\ progress.page >= 0)
      BY <2>2 DEF Types, SavingOK, EndSave
    <3>2. progress' # None => BytesOK(progress') /\ progress'.page >= 0
      <4>1. Write(mainSave, {})
        BY <2>2 DEF EndSave
      <4>2. QED
        BY <3>1, <4>1, WriteTyped
    <3>3. /\ UNCHANGED <<renderSave, renderPc, status, manual, lastSaved, pageOffset>>
          /\ mainSave' = None /\ mainPc' = "endPush"
      BY <2>2 DEF EndSave, drawVars
    <3>4. QED
      BY <3>2, <3>3 DEF Types, SavingOK
  <2>3. CASE EndPush \/ EndReset \/ ReturnFromEnd
    BY <2>3 DEF Types, SavingOK, EndPush, EndReset, ReturnFromEnd, place, saving, mainVars,
      drawVars, history, bounds, rest, vars
  <2>4. QED
    BY <1>3, <2>1, <2>2, <2>3 DEF End
<1>4. CASE Turns
  <2>1. ASSUME NEW dir \in {-1, 1}, PressTurn(dir) PROVE SavingOK'
    <3>1. /\ UNCHANGED <<progress, renderSave, mainSave, renderPc, status, manual, lastSaved, pageOffset>>
          /\ mainPc' # "endSave"
      BY <2>1 DEF PressTurn, Ready, Idle, Chosen, saving, drawVars, Panic
    <3>2. QED
      BY <3>1 DEF Types, SavingOK
  <2>2. CASE QueuedTurn
    <3>1. /\ UNCHANGED <<progress, renderSave, mainSave, renderPc, status, manual, lastSaved, pageOffset>>
          /\ mainPc' # "endSave"
      BY <2>2 DEF QueuedTurn, Ready, Idle, Chosen, saving, drawVars, Panic
    <3>2. QED
      BY <3>1 DEF Types, SavingOK
  <2>3. CASE TurnLock
    BY <2>3 DEF Types, SavingOK, TurnLock, place, saving, mainVars, drawVars, history,
      bounds, rest, vars
  <2>4. CASE TurnTest
    <3>1. /\ UNCHANGED <<progress, renderSave, mainSave, renderPc, status, manual, lastSaved, pageOffset>>
          /\ mainPc' # "endSave"
      BY <2>4 DEF TurnTest, saving, drawVars, Panic
    <3>2. QED
      BY <3>1 DEF Types, SavingOK
  <2>5. CASE TurnPage
    <3>1. /\ UNCHANGED <<progress, renderSave, mainSave, renderPc, status, manual, lastSaved, pageOffset>>
          /\ mainPc' # "endSave"
      BY <2>5 DEF TurnPage, saving, drawVars, Panic
    <3>2. QED
      BY <3>1 DEF Types, SavingOK
  <2>6. CASE TurnChapter
    BY <2>6 DEF Types, SavingOK, TurnChapter, ToChapter, place, saving, mainVars, drawVars,
      history, bounds, rest, vars
  <2>7. CASE SkipForward
    BY <2>7 DEF Types, SavingOK, SkipForward, place, saving, mainVars, drawVars, history,
      bounds, rest, vars
  <2>8. CASE SkipNext
    BY <2>8 DEF Types, SavingOK, SkipNext, ToChapter, place, saving, mainVars, drawVars,
      history, bounds, rest, vars
  <2>9. CASE SkipBack
    BY <2>9 DEF Types, SavingOK, SkipBack, place, saving, mainVars, drawVars, history,
      bounds, rest, vars
  <2>10. CASE SkipPage
    <3>1. /\ UNCHANGED <<progress, renderSave, mainSave, renderPc, status, manual, lastSaved, pageOffset>>
          /\ mainPc' # "endSave"
      BY <2>10 DEF SkipPage, saving, drawVars, Panic
    <3>2. QED
      BY <3>1 DEF Types, SavingOK
  <2>11. CASE SkipChapter
    BY <2>11 DEF Types, SavingOK, SkipChapter, ToChapter, place, saving, mainVars, drawVars,
      history, bounds, rest, vars
  <2>12. QED
    BY <1>4, <2>1, <2>2, <2>3, <2>4, <2>5, <2>6, <2>7, <2>8, <2>9, <2>10, <2>11 DEF Turns
<1>5. CASE Menus
  <2>1. ASSUME NEW L \in Layouts, Relayout(L) PROVE SavingOK'
    BY <2>1 DEF Types, SavingOK, Relayout, ResetSection, place, saving, mainVars, drawVars,
      history, bounds, rest, vars
  <2>2. CASE OpenChapters
    BY <2>2 DEF Types, SavingOK, OpenChapters, ResetSection, place, saving, mainVars,
      drawVars, history, bounds, rest, vars
  <2>3. CASE CancelChapters
    BY <2>3 DEF Types, SavingOK, CancelChapters, place, saving, mainVars, drawVars, history,
      bounds, rest, vars
  <2>4. ASSUME NEW s \in Chapters, ChooseChapter(s) PROVE SavingOK'
    <3>1. status' \in Statuses /\ mainPc' = "loop"
      BY <2>4 DEF ChooseChapter, Types, SavingOK, Statuses
    <3>2. UNCHANGED <<progress, renderSave, renderPc, mainSave, manual, lastSaved, pageOffset>>
      BY <2>4 DEF ChooseChapter, drawVars
    <3>3. QED
      BY <3>1, <3>2 DEF Types, SavingOK
  <2>5. ASSUME NEW s \in Chapters, NEW o \in Anchors, JumpToPercent(s, o) PROVE SavingOK'
    BY <2>5 DEF Types, SavingOK, JumpToPercent, ResetSection, place, saving, mainVars,
      drawVars, history, bounds, rest, vars
  <2>6. ASSUME NEW s \in Chapters, NEW o \in Anchors, Footnote(s, o) PROVE SavingOK'
    BY <2>6 DEF Types, SavingOK, Footnote, ResetSection, place, saving, mainVars, drawVars,
      history, bounds, rest, vars
  <2>7. ASSUME NEW s \in Chapters, NEW o \in Anchors, NEW L \in Layouts, GoToBookmark(s, o, L) PROVE SavingOK'
    BY <2>7 DEF Types, SavingOK, GoToBookmark, ResetSection, place, saving, mainVars,
      drawVars, history, bounds, rest, vars
  <2>8. CASE RestoreSavedPosition
    BY <2>8 DEF Types, SavingOK, RestoreSavedPosition, ResetSection, place, saving,
      mainVars, drawVars, history, bounds, rest, vars
  <2>9. ASSUME NEW st \in ManualStatuses, SetStatus(st) PROVE SavingOK'
    <3>1. status' \in Statuses /\ manual' \in BOOLEAN /\ mainPc' \in {"loop", "persist"}
      BY <2>9, StatusAssumption DEF SetStatus
    <3>2. UNCHANGED <<progress, renderSave, renderPc, mainSave, lastSaved, pageOffset>>
      BY <2>9 DEF SetStatus, drawVars
    <3>3. QED
      BY <3>1, <3>2 DEF Types, SavingOK
  <2>10. CASE Persist
    <3>1. CASE UNCHANGED saving /\ mainPc' = "panic"
      BY <2>10, <3>1 DEF Persist, Types, SavingOK, saving, drawVars
    <3>2. ASSUME section # None, mainPc' = "loop", NEW n \in Estimates(section),
                 Save(spine, section.page, n), NEW also, Write(Bytes(spine, section.page, n), also)
          PROVE  SavingOK'
      <4>1. SectionOK(section) /\ spine \in 0 .. Spines
        BY <3>2 DEF Types, SectionInv, PlaceOK
      <4>2. section.page \in PageNumbers /\ n \in Nat
        BY <3>2, <4>1, SectionRecord, EstimateOK
      <4>3. BytesOK(Bytes(spine, section.page, n))
        BY <4>1, <4>2, BytesTyped
      <4>4. progress' # None => BytesOK(progress') /\ progress'.page >= 0
        BY <3>2, <4>3, WriteTyped DEF Types, SavingOK
      <4>5. /\ status' \in Statuses /\ manual' \in BOOLEAN
            /\ lastSaved' \in [spine : 0 .. Spines \cup {-1}, page : PageNumbers, count : Nat \cup {-1}]
        BY <3>2, <4>1, <4>2, SaveTyped
      <4>6. UNCHANGED <<renderSave, renderPc, mainSave, pageOffset>>
        BY <2>10 DEF Persist, drawVars
      <4>7. QED
        BY <3>2, <4>4, <4>5, <4>6 DEF Types, SavingOK
    <3>3. QED
      BY <2>10, <3>1, <3>2 DEF Persist, Panic
  <2>11. CASE DeleteCache
    <3> DEFINE b == [Bytes(spine, section.page, section.count) EXCEPT !.offset = 0, !.of = None]
    <3>1. SectionOK(section) /\ spine \in 0 .. Spines
      BY <2>11 DEF Types, SectionInv, PlaceOK, DeleteCache
    <3>2. section.page \in PageNumbers /\ section.count \in Nat
      BY <3>1, SectionRecord
    <3>3. BytesOK(Bytes(spine, section.page, section.count))
      BY <3>1, <3>2, BytesTyped
    <3>4. BytesOK(b)
      <4> HIDE DEF Bytes
      <4> DEFINE zero == 0
      <4>1. zero \in Int /\ zero \in Nat /\ zero = 0
        OBVIOUS
      <4>2. b = [Bytes(spine, section.page, section.count) EXCEPT !.offset = zero, !.of = None]
        OBVIOUS
      <4> HIDE DEF zero, b
      <4>3. b \in Saved /\ b.offset = zero
        BY <3>3, <4>1, <4>2 DEF BytesOK, Saved
      <4>4. QED
        BY <4>1, <4>3 DEF BytesOK
    <3>5. Write(b, {}) /\ Save(spine, section.page, section.count)
      BY <2>11 DEF DeleteCache
    <3> HIDE DEF b
    <3>6. progress' # None => BytesOK(progress') /\ progress'.page >= 0
      BY <3>4, <3>5, WriteTyped DEF Types, SavingOK
    <3>7. /\ status' \in Statuses /\ manual' \in BOOLEAN
          /\ lastSaved' \in [spine : 0 .. Spines \cup {-1}, page : PageNumbers, count : Nat \cup {-1}]
      BY <3>1, <3>2, <3>5, SaveTyped
    <3>8. UNCHANGED <<renderSave, renderPc, mainSave, pageOffset>> /\ mainPc' = "closed"
      BY <2>11 DEF DeleteCache, Closed
    <3>9. QED
      BY <3>6, <3>7, <3>8 DEF Types, SavingOK
  <2>12. QED
    BY <1>5, <2>1, <2>2, <2>3, <2>4, <2>5, <2>6, <2>7, <2>8, <2>9, <2>10, <2>11 DEF Menus
<1>6. CASE Sessions
  <2>1. CASE Leave
    <3>1. UNCHANGED <<renderSave, renderPc, mainSave, pageOffset>> /\ mainPc' = "closed"
      BY <2>1 DEF Leave, Closed
    <3>2. CASE UNCHANGED saving
      BY <3>1, <3>2 DEF Types, SavingOK, saving
    <3>3. CASE origin # <<>> /\ Save(origin[1].spine, origin[1].page, 0)
                             /\ Write(Bytes(origin[1].spine, origin[1].page, 0), {})
      <4> DEFINE S == [spine : Chapters, page : PageNumbers]
      <4>1. origin[1] \in S
        BY <3>3, EndsOfSequence DEF Types, OriginOK
      <4>2. origin[1].spine \in 0 .. Spines /\ origin[1].page \in PageNumbers /\ 0 \in Nat
        BY <4>1, ReaderAssumption DEF Chapters
      <4>3. BytesOK(Bytes(origin[1].spine, origin[1].page, 0))
        BY <4>2, BytesTyped
      <4>4. progress' # None => BytesOK(progress') /\ progress'.page >= 0
        BY <3>3, <4>3, WriteTyped DEF Types, SavingOK
      <4>5. /\ status' \in Statuses /\ manual' \in BOOLEAN
            /\ lastSaved' \in [spine : 0 .. Spines \cup {-1}, page : PageNumbers, count : Nat \cup {-1}]
        BY <3>3, <4>2, SaveTyped
      <4>6. QED
        BY <3>1, <4>4, <4>5 DEF Types, SavingOK
    <3>4. QED
      BY <2>1, <3>2, <3>3 DEF Leave
  <2>2. ASSUME NEW L \in Layouts, Open(L) PROVE SavingOK'
    <3> DEFINE at   == IF progress = None THEN -1 ELSE progress.spine
               page == IF progress = None THEN -1 ELSE progress.page
               none == -1
               st   == IF progress = None THEN "START" ELSE progress.status
    <3>1. /\ at \in 0 .. Spines \cup {-1} /\ page \in PageNumbers /\ st \in Statuses
          /\ none \in Nat \cup {-1}
      BY ReaderAssumption DEF Types, SavingOK, BytesOK, Saved, PageNumbers, Statuses
    <3>2. /\ lastSaved' = [spine |-> at, page |-> page, count |-> none] /\ status' = st
          /\ manual' = FALSE /\ mainSave' = None /\ renderSave' = None /\ pageOffset' = None
          /\ mainPc' = "loop" /\ UNCHANGED <<progress, renderPc>>
      BY <2>2 DEF Open
    <3>3. mainPc = "closed" /\ renderPc = "idle"
      BY <2>2 DEF Open, Types, StepsOK
    <3> HIDE DEF at, page, st, none
    <3>4. QED
      BY <3>1, <3>2, <3>3 DEF Types, SavingOK
  <2>3. CASE Reboot
    BY <2>3 DEF Types, SavingOK, Reboot, Closed, place, saving, mainVars, drawVars, history,
      bounds, rest, vars
  <2>4. QED
    BY <1>6, <2>1, <2>2, <2>3 DEF Sessions
<1>7. CASE UNCHANGED vars
  BY <1>7 DEF Types, SavingOK, place, saving, mainVars, drawVars, history, bounds, rest,
    vars
<1>8. QED
  BY <1>1, <1>2, <1>3, <1>4, <1>5, <1>6, <1>7 DEF Next

(* The steps of the tasks. *)
LEMMA ControlStep == Types /\ [Next]_vars => ControlOK'
<1> SUFFICES ASSUME Types, [Next]_vars PROVE ControlOK'
  OBVIOUS
<1>1. CASE Render
  <2>1. CASE RenderBegin
    BY <2>1 DEF Types, ControlOK, RenderSteps, MainSteps, InTurn, TurnsDue, PageNumbers,
      RenderBegin, place, saving, mainVars, drawVars, history, bounds, rest, vars
  <2>2. CASE RenderOpen
    <3>1. /\ renderPc' \in {"place", "build", "idle"} /\ UNCHANGED <<mainPc, turn, queued, marks, marked>>
          /\ (faults' = faults \/ (faults > 0 /\ faults' = faults - 1))
      BY <2>2 DEF RenderOpen, Fault, saving, drawVars, mainVars, history, bounds, rest, Somewhere
    <3>2. QED
      BY <3>1, ReaderAssumption DEF Types, ControlOK, RenderSteps, MainSteps, InTurn, TurnsDue, PageNumbers
  <2>3. CASE RenderBuild
    <3>1. /\ renderPc' \in {"build", "idle"} /\ UNCHANGED <<mainPc, turn, queued, marks, marked>>
          /\ (faults' = faults \/ (faults > 0 /\ faults' = faults - 1))
      BY <2>3 DEF RenderBuild, BuildMore, RenderUnchanged, Fault, saving, drawVars, mainVars, history, bounds, rest, Somewhere
    <3>2. QED
      BY <3>1, ReaderAssumption DEF Types, ControlOK, RenderSteps, MainSteps, InTurn, TurnsDue, PageNumbers
  <2>4. CASE RenderBuilt
    BY <2>4 DEF Types, ControlOK, RenderSteps, MainSteps, InTurn, TurnsDue, PageNumbers,
      RenderBuilt, place, saving, mainVars, drawVars, history, bounds, rest, vars
  <2>5. CASE RenderPlace
    BY <2>5 DEF Types, ControlOK, RenderSteps, MainSteps, InTurn, TurnsDue, PageNumbers,
      RenderPlace, RenderUnchanged, place, saving, mainVars, drawVars, history, bounds,
      rest, vars
  <2>6. CASE RenderFitStart
    <3>1. /\ renderPc' \in {"fit", "idle"} /\ UNCHANGED <<mainPc, turn, queued, marks, marked>>
          /\ (faults' = faults \/ (faults > 0 /\ faults' = faults - 1))
      BY <2>6 DEF RenderFitStart, RenderUnchanged, Fault, saving, drawVars, mainVars, history, bounds, rest, Somewhere
    <3>2. QED
      BY <3>1, ReaderAssumption DEF Types, ControlOK, RenderSteps, MainSteps, InTurn, TurnsDue, PageNumbers
  <2>7. CASE RenderFitBuild
    <3>1. /\ renderPc' \in {"fit", "idle"} /\ UNCHANGED <<mainPc, turn, queued, marks, marked>>
          /\ (faults' = faults \/ (faults > 0 /\ faults' = faults - 1))
      BY <2>7 DEF RenderFitBuild, BuildMore, RenderUnchanged, Fault, saving, drawVars, mainVars, history, bounds, rest, Somewhere
    <3>2. QED
      BY <3>1, ReaderAssumption DEF Types, ControlOK, RenderSteps, MainSteps, InTurn, TurnsDue, PageNumbers
  <2>8. CASE RenderFit
    BY <2>8 DEF Types, ControlOK, RenderSteps, MainSteps, InTurn, TurnsDue, PageNumbers,
      RenderFit, RenderUnchanged, place, saving, mainVars, drawVars, history, bounds, rest,
      vars
  <2>9. CASE RenderShow
    <3>1. /\ renderPc' \in {"save", "idle"} /\ UNCHANGED <<mainPc, turn, queued, marked>> /\ marks' \subseteq marks
          /\ (faults' = faults \/ (faults > 0 /\ faults' = faults - 1))
      BY <2>9 DEF RenderShow, Fault, saving, drawVars, mainVars, history, bounds, rest, Somewhere
    <3>2. QED
      BY <3>1, ReaderAssumption DEF Types, ControlOK, RenderSteps, MainSteps, InTurn, TurnsDue, PageNumbers
  <2>10. CASE RenderSave
    BY <2>10 DEF Types, ControlOK, RenderSteps, MainSteps, InTurn, TurnsDue, PageNumbers,
      RenderSave, place, saving, mainVars, drawVars, history, bounds, rest, vars
  <2>11. CASE RenderWrite
    <3>1. /\ renderPc' = "idle" /\ UNCHANGED <<mainPc, turn, queued, marked>>
          /\ marks' \subseteq marks \cup {"lost", "overlap", "torn"}
          /\ (faults' = faults \/ (faults > 0 /\ faults' = faults - 1))
      BY <2>11 DEF RenderWrite, Write, Fault, saving, drawVars, mainVars, history, bounds, rest, Somewhere
    <3>2. QED
      BY <3>1, ReaderAssumption DEF Types, ControlOK, RenderSteps, MainSteps, InTurn, TurnsDue, PageNumbers
  <2>12. QED
    BY <1>1, <2>1, <2>2, <2>3, <2>4, <2>5, <2>6, <2>7, <2>8, <2>9, <2>10, <2>11 DEF Render
<1>2. CASE Background
  <2>1. CASE ExtendTest
    BY <2>1 DEF Types, ControlOK, RenderSteps, MainSteps, InTurn, TurnsDue, PageNumbers,
      ExtendTest, place, saving, mainVars, drawVars, history, bounds, rest, vars
  <2>2. CASE Extend
    <3>1. /\ mainPc' \in {"loop", "panic"} /\ UNCHANGED <<renderPc, queued, marks, marked>>
          /\ (faults' = faults \/ (faults > 0 /\ faults' = faults - 1))
      BY <2>2 DEF Extend, Panic, Fault, saving, drawVars, mainVars, history, bounds, rest, Somewhere
    <3>2. QED
      BY <3>1, ReaderAssumption DEF Types, ControlOK, RenderSteps, MainSteps, InTurn, TurnsDue, PageNumbers
  <2>3. CASE TickTest
    BY <2>3 DEF Types, ControlOK, RenderSteps, MainSteps, InTurn, TurnsDue, PageNumbers,
      TickTest, place, saving, mainVars, drawVars, history, bounds, rest, vars
  <2>4. CASE Tick
    <3>1. /\ mainPc' \in {"loop", "panic"} /\ UNCHANGED <<renderPc, queued, marks>> /\ marked' \in {marked, None}
          /\ (faults' = faults \/ (faults > 0 /\ faults' = faults - 1))
      BY <2>4 DEF Tick, Panic, Fault, saving, drawVars, mainVars, history, bounds, rest, Somewhere
    <3>2. QED
      BY <3>1, ReaderAssumption DEF Types, ControlOK, RenderSteps, MainSteps, InTurn, TurnsDue, PageNumbers
  <2>5. QED
    BY <1>2, <2>1, <2>2, <2>3, <2>4 DEF Background
<1>3. CASE End
  <2>1. CASE EndTest
    BY <2>1 DEF Types, ControlOK, RenderSteps, MainSteps, InTurn, TurnsDue, PageNumbers,
      EndTest, place, saving, mainVars, drawVars, history, bounds, rest, vars
  <2>2. CASE EndSave
    <3>1. /\ mainPc' = "endPush" /\ UNCHANGED <<renderPc, queued, marked>>
          /\ marks' \subseteq marks \cup {"lost"}
          /\ (faults' = faults \/ (faults > 0 /\ faults' = faults - 1))
      BY <2>2 DEF EndSave, Write, Fault, saving, drawVars, mainVars, history, bounds, rest, Somewhere
    <3>2. QED
      BY <3>1, ReaderAssumption DEF Types, ControlOK, RenderSteps, MainSteps, InTurn, TurnsDue, PageNumbers
  <2>3. CASE EndPush
    BY <2>3 DEF Types, ControlOK, RenderSteps, MainSteps, InTurn, TurnsDue, PageNumbers,
      EndPush, place, saving, mainVars, drawVars, history, bounds, rest, vars
  <2>4. CASE EndReset
    BY <2>4 DEF Types, ControlOK, RenderSteps, MainSteps, InTurn, TurnsDue, PageNumbers,
      EndReset, place, saving, mainVars, drawVars, history, bounds, rest, vars
  <2>5. CASE ReturnFromEnd
    BY <2>5 DEF Types, ControlOK, RenderSteps, MainSteps, InTurn, TurnsDue, PageNumbers,
      ReturnFromEnd, Somewhere, place, saving, mainVars, drawVars, history, bounds, rest,
      vars
  <2>6. QED
    BY <1>3, <2>1, <2>2, <2>3, <2>4, <2>5 DEF End
<1>4. CASE Turns
  <2>1. ASSUME NEW dir \in {-1, 1}, PressTurn(dir) PROVE ControlOK'
    BY <2>1 DEF Types, ControlOK, RenderSteps, MainSteps, InTurn, TurnsDue, PageNumbers,
      PressTurn, Chosen, Ready, Idle, place, saving, mainVars, drawVars, history, bounds,
      rest, vars
  <2>2. CASE QueuedTurn
    BY <2>2 DEF Types, ControlOK, RenderSteps, MainSteps, InTurn, TurnsDue, PageNumbers,
      QueuedTurn, Chosen, Ready, Idle, place, saving, mainVars, drawVars, history, bounds,
      rest, vars
  <2>3. CASE TurnLock
    BY <2>3 DEF Types, ControlOK, RenderSteps, MainSteps, InTurn, TurnsDue, PageNumbers,
      TurnLock, place, saving, mainVars, drawVars, history, bounds, rest, vars
  <2>4. CASE TurnTest
    <3>1. /\ mainPc' \in {"panic", "turnPage", "turnChapter", "loop"} /\ UNCHANGED <<renderPc, queued, faults>>
          /\ marks' \subseteq marks \cup {"turned"} /\ marked' \in {marked, None}
          /\ mainPc = "turnTest"
      BY <2>4 DEF TurnTest, drawVars, bounds, Panic, Somewhere
    <3>2. mainPc' \in InTurn => turn' \in TurnsDue
      <4>1. CASE section = None
        BY <2>4, <4>1 DEF TurnTest, Panic, InTurn
      <4>2. CASE section # None
        <5>1. section.page \in PageNumbers
          BY <4>2, SectionRecord DEF Types, SectionInv
        <5>2. turn \in TurnsDue
          BY <3>1 DEF Types, ControlOK, InTurn
        <5>3. turn' = [turn EXCEPT !.page = section.page] \/ mainPc' = "panic"
          BY <2>4, <4>2 DEF TurnTest, Panic
        <5>4. QED
          BY <5>1, <5>2, <5>3 DEF TurnsDue, InTurn
      <4>3. QED
        BY <4>1, <4>2
    <3>3. QED
      BY <3>1, <3>2 DEF Types, ControlOK, MainSteps, InTurn
  <2>5. CASE TurnPage
    BY <2>5 DEF Types, ControlOK, RenderSteps, MainSteps, InTurn, TurnsDue, PageNumbers,
      TurnPage, Panic, PageSet, Somewhere, place, saving, mainVars, drawVars, history,
      bounds, rest, vars
  <2>6. CASE TurnChapter
    BY <2>6 DEF Types, ControlOK, RenderSteps, MainSteps, InTurn, TurnsDue, PageNumbers,
      TurnChapter, ToChapter, Somewhere, place, saving, mainVars, drawVars, history, bounds,
      rest, vars
  <2>7. CASE SkipForward
    BY <2>7 DEF Types, ControlOK, RenderSteps, MainSteps, InTurn, TurnsDue, PageNumbers,
      SkipForward, place, saving, mainVars, drawVars, history, bounds, rest, vars
  <2>8. CASE SkipNext
    BY <2>8 DEF Types, ControlOK, RenderSteps, MainSteps, InTurn, TurnsDue, PageNumbers,
      SkipNext, ToChapter, Somewhere, place, saving, mainVars, drawVars, history, bounds,
      rest, vars
  <2>9. CASE SkipBack
    BY <2>9 DEF Types, ControlOK, RenderSteps, MainSteps, InTurn, TurnsDue, PageNumbers,
      SkipBack, place, saving, mainVars, drawVars, history, bounds, rest, vars
  <2>10. CASE SkipPage
    BY <2>10 DEF Types, ControlOK, RenderSteps, MainSteps, InTurn, TurnsDue, PageNumbers,
      SkipPage, Panic, PageSet, Somewhere, place, saving, mainVars, drawVars, history,
      bounds, rest, vars
  <2>11. CASE SkipChapter
    BY <2>11 DEF Types, ControlOK, RenderSteps, MainSteps, InTurn, TurnsDue, PageNumbers,
      SkipChapter, ToChapter, Somewhere, place, saving, mainVars, drawVars, history, bounds,
      rest, vars
  <2>12. QED
    BY <1>4, <2>1, <2>2, <2>3, <2>4, <2>5, <2>6, <2>7, <2>8, <2>9, <2>10, <2>11 DEF Turns
<1>5. CASE Menus
  <2>1. ASSUME NEW L \in Layouts, Relayout(L) PROVE ControlOK'
    BY <2>1 DEF Types, ControlOK, RenderSteps, MainSteps, InTurn, TurnsDue, PageNumbers,
      Relayout, ResetSection, Somewhere, place, saving, mainVars, drawVars, history, bounds,
      rest, vars
  <2>2. CASE OpenChapters
    BY <2>2 DEF Types, ControlOK, RenderSteps, MainSteps, InTurn, TurnsDue, PageNumbers,
      OpenChapters, ResetSection, place, saving, mainVars, drawVars, history, bounds, rest,
      vars
  <2>3. CASE CancelChapters
    BY <2>3 DEF Types, ControlOK, RenderSteps, MainSteps, InTurn, TurnsDue, PageNumbers,
      CancelChapters, place, saving, mainVars, drawVars, history, bounds, rest, vars
  <2>4. ASSUME NEW s \in Chapters, ChooseChapter(s) PROVE ControlOK'
    BY <2>4 DEF Types, ControlOK, RenderSteps, MainSteps, InTurn, TurnsDue, PageNumbers,
      ChooseChapter, place, saving, mainVars, drawVars, history, bounds, rest, vars
  <2>5. ASSUME NEW s \in Chapters, NEW o \in Anchors, JumpToPercent(s, o) PROVE ControlOK'
    BY <2>5 DEF Types, ControlOK, RenderSteps, MainSteps, InTurn, TurnsDue, PageNumbers,
      JumpToPercent, ResetSection, Somewhere, place, saving, mainVars, drawVars, history,
      bounds, rest, vars
  <2>6. ASSUME NEW s \in Chapters, NEW o \in Anchors, Footnote(s, o) PROVE ControlOK'
    BY <2>6 DEF Types, ControlOK, RenderSteps, MainSteps, InTurn, TurnsDue, PageNumbers,
      Footnote, ResetSection, Somewhere, place, saving, mainVars, drawVars, history, bounds,
      rest, vars
  <2>7. ASSUME NEW s \in Chapters, NEW o \in Anchors, NEW L \in Layouts, GoToBookmark(s, o, L) PROVE ControlOK'
    BY <2>7 DEF Types, ControlOK, RenderSteps, MainSteps, InTurn, TurnsDue, PageNumbers,
      GoToBookmark, ResetSection, Somewhere, place, saving, mainVars, drawVars, history,
      bounds, rest, vars
  <2>8. CASE RestoreSavedPosition
    BY <2>8 DEF Types, ControlOK, RenderSteps, MainSteps, InTurn, TurnsDue, PageNumbers,
      RestoreSavedPosition, ResetSection, Somewhere, place, saving, mainVars, drawVars,
      history, bounds, rest, vars
  <2>9. ASSUME NEW st \in ManualStatuses, SetStatus(st) PROVE ControlOK'
    <3>1. /\ mainPc' \in {"loop", "persist"} /\ UNCHANGED <<renderPc, marks, faults>>
          /\ marked' \in {st, None} /\ queued' = 0
      BY <2>9 DEF SetStatus, drawVars
    <3>2. st \in Statuses
      BY StatusAssumption
    <3>3. QED
      BY <3>1, <3>2 DEF Types, ControlOK, MainSteps, InTurn
  <2>10. CASE Persist
    <3>1. /\ mainPc' \in {"loop", "panic"} /\ UNCHANGED <<renderPc, queued, marked>>
          /\ marks' \subseteq marks \cup {"lost", "torn"}
          /\ (faults' = faults \/ (faults > 0 /\ faults' = faults - 1))
      BY <2>10 DEF Persist, Panic, Write, Fault, saving, drawVars, mainVars, history, bounds, rest, Somewhere
    <3>2. QED
      BY <3>1, ReaderAssumption DEF Types, ControlOK, RenderSteps, MainSteps, InTurn, TurnsDue, PageNumbers
  <2>11. CASE DeleteCache
    <3>1. /\ mainPc' = "closed" /\ UNCHANGED renderPc /\ queued' = 0 /\ marked' = None
          /\ marks' \subseteq marks \cup {"lost"}
          /\ (faults' = faults \/ (faults > 0 /\ faults' = faults - 1))
      BY <2>11 DEF DeleteCache, Closed, Write, Fault, Somewhere, saving, drawVars, mainVars, history, bounds, rest
    <3>2. QED
      BY <3>1, ReaderAssumption DEF Types, ControlOK, RenderSteps, MainSteps, InTurn, TurnsDue, PageNumbers
  <2>12. QED
    BY <1>5, <2>1, <2>2, <2>3, <2>4, <2>5, <2>6, <2>7, <2>8, <2>9, <2>10, <2>11 DEF Menus
<1>6. CASE Sessions
  <2>1. CASE Leave
    <3>1. /\ mainPc' = "closed" /\ UNCHANGED renderPc /\ queued' = 0 /\ marked' = None
          /\ marks' \subseteq marks \cup {"lost"}
          /\ (faults' = faults \/ (faults > 0 /\ faults' = faults - 1))
      BY <2>1 DEF Leave, Closed, Write, Fault, Somewhere, saving, drawVars, mainVars, history, bounds, rest
    <3>2. QED
      BY <3>1, ReaderAssumption DEF Types, ControlOK, RenderSteps, MainSteps, InTurn, TurnsDue, PageNumbers
  <2>2. CASE Reboot
    BY <2>2 DEF Types, ControlOK, RenderSteps, MainSteps, InTurn, TurnsDue, PageNumbers,
      Reboot, Closed, Somewhere, place, saving, mainVars, drawVars, history, bounds, rest,
      vars
  <2>3. ASSUME NEW L \in Layouts, Open(L) PROVE ControlOK'
    BY <2>3 DEF Types, ControlOK, RenderSteps, MainSteps, InTurn, TurnsDue, PageNumbers,
      Open, place, saving, mainVars, drawVars, history, bounds, rest, vars
  <2>4. QED
    BY <1>6, <2>1, <2>2, <2>3 DEF Sessions
<1>7. CASE UNCHANGED vars
  BY <1>7 DEF Types, ControlOK, RenderSteps, MainSteps, InTurn, TurnsDue, PageNumbers,
    place, saving, mainVars, drawVars, history, bounds, rest, vars
<1>8. QED
  BY <1>1, <1>2, <1>3, <1>4, <1>5, <1>6, <1>7 DEF Next

(* An update is requested or not. *)
LEMMA NotifiedStep == Types /\ [Next]_vars => NotifiedOK'
<1> SUFFICES ASSUME Types, [Next]_vars PROVE NotifiedOK'
  OBVIOUS
<1>1. CASE Render
  <2>1. CASE RenderBegin \/ RenderOpen \/ RenderBuild \/ RenderBuilt \/ RenderPlace \/
      RenderFitStart \/ RenderFitBuild \/ RenderFit \/ RenderShow \/ RenderSave \/
      RenderWrite
    BY <2>1 DEF Types, NotifiedOK, RenderBegin, Request, RenderOpen, Fault, RenderBuild,
      BuildMore, RenderUnchanged, RenderBuilt, RenderPlace, RenderFitStart, RenderFitBuild,
      RenderFit, RenderShow, RenderSave, RenderWrite, Write, place, saving, mainVars,
      drawVars, history, bounds, rest, vars
  <2>2. QED
    BY <1>1, <2>1 DEF Render
<1>2. CASE Background
  <2>1. CASE ExtendTest
    BY <2>1 DEF Types, NotifiedOK, ExtendTest, Request, place, saving, mainVars, drawVars,
      history, bounds, rest, vars
  <2>2. CASE Extend
    BY <2>2 DEF Types, NotifiedOK, Extend, Panic, Fault, Request, place, saving, mainVars,
      drawVars, history, bounds, rest, vars
  <2>3. CASE TickTest
    BY <2>3 DEF Types, NotifiedOK, TickTest, Request, place, saving, mainVars, drawVars,
      history, bounds, rest, vars
  <2>4. CASE Tick
    BY <2>4 DEF Types, NotifiedOK, Tick, Panic, Fault, Request, place, saving, mainVars,
      drawVars, history, bounds, rest, vars
  <2>5. QED
    BY <1>2, <2>1, <2>2, <2>3, <2>4 DEF Background
<1>3. CASE End
  <2>1. CASE EndTest \/ EndSave \/ EndPush \/ EndReset \/ ReturnFromEnd
    BY <2>1 DEF Types, NotifiedOK, EndTest, Request, EndSave, Write, Fault, EndPush,
      EndReset, ReturnFromEnd, Somewhere, place, saving, mainVars, drawVars, history,
      bounds, rest, vars
  <2>2. QED
    BY <1>3, <2>1 DEF End
<1>4. CASE Turns
  <2>1. ASSUME NEW dir \in {-1, 1}, PressTurn(dir) PROVE NotifiedOK'
    BY <2>1 DEF Types, NotifiedOK, PressTurn, Chosen, Ready, Idle, Request, place, saving,
      mainVars, drawVars, history, bounds, rest, vars
  <2>2. CASE QueuedTurn
    BY <2>2 DEF Types, NotifiedOK, QueuedTurn, Chosen, Ready, Idle, Request, place, saving,
      mainVars, drawVars, history, bounds, rest, vars
  <2>3. CASE TurnLock
    BY <2>3 DEF Types, NotifiedOK, TurnLock, Request, place, saving, mainVars, drawVars,
      history, bounds, rest, vars
  <2>4. CASE TurnTest
    BY <2>4 DEF Types, NotifiedOK, TurnTest, Panic, Somewhere, Request, place, saving,
      mainVars, drawVars, history, bounds, rest, vars
  <2>5. CASE TurnPage
    BY <2>5 DEF Types, NotifiedOK, TurnPage, Panic, PageSet, Somewhere, Request, place,
      saving, mainVars, drawVars, history, bounds, rest, vars
  <2>6. CASE TurnChapter
    BY <2>6 DEF Types, NotifiedOK, TurnChapter, ToChapter, Somewhere, Request, place,
      saving, mainVars, drawVars, history, bounds, rest, vars
  <2>7. CASE SkipForward
    BY <2>7 DEF Types, NotifiedOK, SkipForward, Request, place, saving, mainVars, drawVars,
      history, bounds, rest, vars
  <2>8. CASE SkipNext
    BY <2>8 DEF Types, NotifiedOK, SkipNext, ToChapter, Somewhere, Request, place, saving,
      mainVars, drawVars, history, bounds, rest, vars
  <2>9. CASE SkipBack
    BY <2>9 DEF Types, NotifiedOK, SkipBack, Request, place, saving, mainVars, drawVars,
      history, bounds, rest, vars
  <2>10. CASE SkipPage
    BY <2>10 DEF Types, NotifiedOK, SkipPage, Panic, PageSet, Somewhere, Request, place,
      saving, mainVars, drawVars, history, bounds, rest, vars
  <2>11. CASE SkipChapter
    BY <2>11 DEF Types, NotifiedOK, SkipChapter, ToChapter, Somewhere, Request, place,
      saving, mainVars, drawVars, history, bounds, rest, vars
  <2>12. QED
    BY <1>4, <2>1, <2>2, <2>3, <2>4, <2>5, <2>6, <2>7, <2>8, <2>9, <2>10, <2>11 DEF Turns
<1>5. CASE Menus
  <2>1. CASE (\E L \in Layouts : Relayout(L)) \/ OpenChapters \/ CancelChapters \/
      (\E s \in Chapters : ChooseChapter(s)) \/
      (\E s \in Chapters, o \in Anchors : JumpToPercent(s, o)) \/
      (\E s \in Chapters, o \in Anchors : Footnote(s, o)) \/
      (\E s \in Chapters, o \in Anchors, L \in Layouts : GoToBookmark(s, o, L)) \/
      RestoreSavedPosition \/ (\E st \in ManualStatuses : SetStatus(st)) \/ Persist \/
      DeleteCache
    BY <2>1 DEF Types, NotifiedOK, Relayout, ResetSection, Somewhere, Request, OpenChapters,
      CancelChapters, ChooseChapter, JumpToPercent, Footnote, GoToBookmark,
      RestoreSavedPosition, SetStatus, Persist, Panic, Write, Fault, DeleteCache, Closed,
      place, saving, mainVars, drawVars, history, bounds, rest, vars
  <2>2. QED
    BY <1>5, <2>1 DEF Menus
<1>6. CASE Sessions
  <2>1. CASE Leave
    BY <2>1 DEF Types, NotifiedOK, Leave, Closed, Write, Fault, Somewhere, Request, place,
      saving, mainVars, drawVars, history, bounds, rest, vars
  <2>2. CASE Reboot
    BY <2>2 DEF Types, NotifiedOK, Reboot, Closed, Somewhere, Request, place, saving,
      mainVars, drawVars, history, bounds, rest, vars
  <2>3. ASSUME NEW L \in Layouts, Open(L) PROVE NotifiedOK'
    BY <2>3 DEF Types, NotifiedOK, Open, Request, place, saving, mainVars, drawVars,
      history, bounds, rest, vars
  <2>4. QED
    BY <1>6, <2>1, <2>2, <2>3 DEF Sessions
<1>7. CASE UNCHANGED vars
  BY <1>7 DEF Types, NotifiedOK, place, saving, mainVars, drawVars, history, bounds, rest,
    vars
<1>8. QED
  BY <1>1, <1>2, <1>3, <1>4, <1>5, <1>6, <1>7 DEF Next

----------------------------------------------------------------------------
(* What the steps that work on the section do to it. *)

SameChapter(new, sec) == new # None /\ new.spine = sec.spine /\ new.layout = sec.layout
SameLayout(new, sec)  ==
    /\ SameChapter(new, sec) /\ new.count = sec.count /\ new.built = sec.built
    /\ new.building = sec.building /\ new.partial = sec.partial
(* The layout goes on, the page stays. *)
Continued(new, sec) ==
    /\ SameChapter(new, sec) /\ new.page = sec.page
    /\ sec.building /\ new.count >= sec.count /\ new.count >= new.built
    /\ new.built = sec.built + 1
    /\ new.partial = (sec.partial /\ new.building)
    /\ ~new.building => new.count = Pages(new.layout)
    /\ ~sec.partial /\ sec.built = sec.count => new.built = new.count
Restarted(new, sec) ==
    /\ SameChapter(new, sec) /\ new.page = sec.page /\ new.building /\ new.built = 0
    /\ new.partial = sec.partial /\ new.count = IF sec.partial THEN sec.count ELSE 0
Failed == section' = None /\ faults > 0 /\ faults' = faults - 1

LEMMA AdvancedContinues ==
    ASSUME NEW sec, SectionOK(sec), sec.building
    PROVE  Continued(Advanced(sec), sec)
<1>1. SectionOK(Advanced(sec)) /\ Advanced(sec) # None
  BY AdvancedOK, SectionRecord
<1>2. sec.count \in Int /\ sec.built \in Int /\ sec.building
  BY SectionRecord
<1>3. Advanced(sec).building = (sec.built + 1 # Pages(sec.layout))
  BY AdvancedOK
<1>4. Advanced(sec).partial = (sec.partial /\ Advanced(sec).building)
  BY AdvancedOK
<1>5. ~Advanced(sec).building => Advanced(sec).count = Pages(Advanced(sec).layout)
  BY <1>1, <1>4 DEF SectionOK, Whole
<1>6. /\ Advanced(sec).count >= sec.count /\ Advanced(sec).count >= sec.built + 1
      /\ sec.built = sec.count => Advanced(sec).count = sec.built + 1
  BY <1>2, AdvancedOK
<1>7. SameChapter(Advanced(sec), sec) /\ Advanced(sec).page = sec.page /\ Advanced(sec).built = sec.built + 1
  BY <1>1, AdvancedOK DEF SameChapter
<1>8. QED
  BY <1>2, <1>4, <1>5, <1>6, <1>7 DEF Continued

LEMMA StartedRestarts ==
    ASSUME NEW sec, SectionOK(sec)
    PROVE  Restarted(Started(sec), sec)
<1>1. sec \in Sections /\ sec.count <= Pages(sec.layout)
  BY DEF SectionOK
<1>2. Started(sec) # None
  BY <1>1, StartedOK, SectionRecord
<1>3. QED
  BY <1>1, <1>2, StartedOK DEF Restarted, SameChapter

LEMMA OpenEffect ==
    ASSUME Types, RenderOpen
    PROVE  /\ section = None /\ spine \in Chapters /\ renderPc = "open"
           /\ deferred' = IF Loaded(spine) THEN NoDeferred(deferred) ELSE deferred
           /\ ~startFailed'
           /\ \/ Failed /\ renderPc' = "idle"
              \/ /\ UNCHANGED faults
                 /\ section' # None /\ section'.spine = spine /\ section'.layout = layout
                 /\ section'.page = 0 /\ section'.built = 0
                 /\ section'.partial => Loaded(spine)
                 /\ \/ renderPc' = "place" /\ ~section'.building /\ Loaded(spine)
                    \/ renderPc' = "build" /\ section'.building
                 /\ section'.count = IF Loaded(spine) /\ (section'.partial \/ ~section'.building)
                                       THEN cache[spine].pages ELSE 0
<1>1. section = None /\ spine \in Chapters /\ renderPc = "open" /\ CacheOK
  BY ReaderAssumption DEF Types, StepsOK, PlaceOK, RenderOpen, Chapters
<1>2. /\ deferred' = IF Loaded(spine) THEN NoDeferred(deferred) ELSE deferred
      /\ ~startFailed'
  BY DEF RenderOpen
<1> DEFINE sec == NewSection(spine)
<1>3. /\ sec \in Sections /\ sec.count <= Pages(sec.layout) /\ sec.spine = spine /\ sec.layout = layout
      /\ sec.page = 0 /\ sec.built = 0 /\ ~sec.building /\ (sec.partial => Loaded(spine))
      /\ sec.count = IF Loaded(spine) THEN cache[spine].pages ELSE 0
      /\ (sec.partial \/ sec.count = Pages(layout)) => SectionOK(sec)
  BY <1>1, NewSectionOK
<1>4. \/ section' = sec /\ renderPc' = "place" /\ UNCHANGED faults
            /\ (sec.count = Pages(layout) \/ Deferrable(sec))
      \/ section' = Started(sec) /\ renderPc' = "build" /\ UNCHANGED faults
            /\ ~(sec.count = Pages(layout) \/ Deferrable(sec))
      \/ section' = None /\ renderPc' = "idle" /\ Fault
  BY DEF RenderOpen
<1> HIDE DEF sec
<1>5. CASE section' = sec /\ renderPc' = "place" /\ UNCHANGED faults
             /\ (sec.count = Pages(layout) \/ Deferrable(sec))
  <2>1. layout \in Layouts /\ Pages(layout) > 0 /\ Pages(layout) \in Nat
    BY <1>1, PagesOfLayout DEF CacheOK
  <2>2. Loaded(spine) /\ SectionOK(sec)
    BY <1>3, <1>5, <2>1 DEF Deferrable
  <2>3. sec # None
    BY <2>2, SectionRecord
  <2>4. QED
    BY <1>1, <1>2, <1>3, <1>5, <2>2, <2>3
<1>6. CASE section' = Started(sec) /\ renderPc' = "build" /\ UNCHANGED faults
  <2>1. /\ SectionOK(Started(sec)) /\ Started(sec).spine = sec.spine /\ Started(sec).layout = sec.layout
        /\ Started(sec).page = sec.page /\ Started(sec).building
        /\ Started(sec).partial = sec.partial /\ Started(sec).built = 0
        /\ Started(sec).count = IF sec.partial THEN sec.count ELSE 0
    BY <1>3, StartedOK
  <2>2. Started(sec) # None
    BY <2>1, SectionRecord
  <2>3. QED
    BY <1>1, <1>2, <1>3, <1>6, <2>1, <2>2
<1>7. CASE section' = None /\ renderPc' = "idle" /\ Fault
  BY <1>1, <1>2, <1>7 DEF Failed, Fault
<1>8. QED
  BY <1>4, <1>5, <1>6, <1>7

LEMMA BuildEffect ==
    ASSUME Types, NEW pc, section # None, section.building, BuildMore(pc)
    PROVE  \/ Failed /\ renderPc' = "idle"
           \/ UNCHANGED faults /\ Continued(section', section) /\ renderPc' = pc
<1>1. SectionOK(section)
  BY DEF Types, SectionInv
<1>2. \/ section' = Advanced(section) /\ renderPc' = pc /\ UNCHANGED faults
      \/ section' = None /\ renderPc' = "idle" /\ Fault
  BY DEF BuildMore
<1>3. QED
  BY <1>1, <1>2, AdvancedContinues DEF Failed, Fault

LEMMA PlaceEffect ==
    ASSUME Types, RenderPlace
    PROVE  /\ section # None /\ SectionOK(section) /\ SameLayout(section', section)
           /\ section'.page = PlacedPage(section) /\ section'.page \in Nat
<1>1. SectionOK(section) /\ section # None
  BY DEF Types, SectionInv, StepsOK, RenderPlace
<1>2. PlacedPage(section) \in PageNumbers /\ PlacedPage(section) >= 0
  BY <1>1, PlacedPageOK DEF Types
<1>3. PlacedPage(section) \in Nat
  BY <1>2 DEF PageNumbers
<1>4. section' = [section EXCEPT !.page = PlacedPage(section)]
  BY DEF RenderPlace
<1> HIDE DEF PlacedPage
<1>5. SectionOK(section')
  BY <1>1, <1>2, <1>4, PageTurned
<1>6. QED
  BY <1>1, <1>2, <1>3, <1>4, <1>5, PageTurned, SectionRecord DEF SameLayout, SameChapter

LEMMA FitStartEffect ==
    ASSUME Types, RenderFitStart
    PROVE  /\ section # None /\ section.partial /\ ~section.building
           /\ \/ Failed /\ renderPc' = "idle"
              \/ UNCHANGED <<faults, renderPc>> /\ Restarted(section', section)
<1>1. SectionOK(section) /\ section # None
  BY DEF Types, SectionInv, StepsOK, RenderFitStart
<1>2. \/ section' = Started(section) /\ UNCHANGED <<faults, renderPc>>
      \/ section' = None /\ renderPc' = "idle" /\ Fault
  BY DEF RenderFitStart
<1>3. QED
  BY <1>1, <1>2, StartedRestarts DEF Failed, Fault, RenderFitStart

(* A place in bounds, of a layout that is whole or goes so far. *)
LEMMA FitEffect ==
    ASSUME Types, RenderFit
    PROVE  /\ section # None /\ SectionOK(section) /\ SameLayout(section', section)
           /\ deferred' \in {deferred, NoDeferred(deferred)}
           /\ section.page >= 0 => InBounds(section')
           /\ section'.page = section.page \/ section'.page >= 0
           /\ deferred.offset = None /\ deferred.total = 0 =>
                section'.page = (IF section.page >= section.count THEN section.count - 1 ELSE section.page)
           /\ section.partial /\ ~section.building /\ deferred.offset = None /\ deferred.total = 0 =>
                section'.page = section.page
           /\ ~section.building => deferred'.offset = None /\ deferred'.total = 0
           /\ section.count > 0 => section'.page < section'.count
<1> DEFINE sec == IF ~section.building /\ Short(section)
                    THEN [section EXCEPT !.page = section.count - 1] ELSE section
<1>1. SectionOK(section) /\ section # None /\ ~(Short(section) /\ (section.building \/ section.partial))
  BY DEF Types, SectionInv, StepsOK, RenderFit
<1>2. /\ section' = Repositioned(sec)
      /\ deferred' = IF DoesReposition(sec) THEN NoDeferred(deferred) ELSE deferred
  BY DEF RenderFit
<1>3. section.count - 1 \in PageNumbers /\ section.page \in Int /\ section.count \in Nat
  BY <1>1, SectionRecord DEF PageNumbers
<1>4. deferred.total \in Nat /\ deferred.offset \in Nat \cup {None} /\ deferred \in Deferreds
  BY DEF Types, PlaceOK, Deferreds
<1>5. /\ SectionOK(sec) /\ sec.spine = section.spine /\ sec.layout = section.layout
      /\ sec.count = section.count /\ sec.built = section.built
      /\ sec.building = section.building /\ sec.partial = section.partial
      /\ sec.page = IF ~section.building /\ section.page >= section.count
                      THEN section.count - 1 ELSE section.page
  BY <1>1, <1>3, PageTurned DEF Short
<1>6. Short(section) => ~section.building /\ ~section.partial /\ section.count > 0
  BY <1>1, SectionRecord DEF SectionOK, Whole
<1> HIDE DEF sec
<1>7. /\ section'.spine = sec.spine /\ section'.layout = sec.layout
      /\ section'.count = sec.count /\ section'.built = sec.built
      /\ section'.building = sec.building /\ section'.partial = sec.partial
      /\ SectionOK(section')
      /\ section'.page # sec.page =>
           /\ spine = deferred.spine /\ ~sec.building
           /\ deferred.offset # None \/ deferred.total # 0
           /\ 0 <= section'.page
           /\ sec.count > 0 => section'.page < sec.count
  BY <1>2, <1>4, <1>5, RepositionedOK
<1>8. SameLayout(section', section)
  BY <1>5, <1>7, SectionRecord DEF SameLayout, SameChapter
<1>9. \/ sec.page < section.count /\ (section.page >= 0 => sec.page >= 0) /\ section.count > 0
      \/ section.page < 0
  BY <1>3, <1>5, <1>6 DEF Short
<1>10. section.page >= 0 => section'.page \in 0 .. section'.count - 1
  <2> SUFFICES ASSUME section.page >= 0 PROVE section'.page \in 0 .. section'.count - 1
    OBVIOUS
  <2>1. section'.page \in Int
    BY <1>7, SectionRecord
  <2>2. QED
    BY <1>3, <1>5, <1>7, <1>9, <2>1
<1>11. section'.page = section.page \/ section'.page >= 0
  <2>1. section'.page \in Int
    BY <1>7, SectionRecord
  <2>2. QED
    BY <1>3, <1>5, <1>6, <1>7, <2>1 DEF Short
<1>12. ~section.building => deferred'.offset = None /\ deferred'.total = 0
  BY <1>2, <1>4, <1>5, NoDeferredOK, SectionRecord DEF DoesReposition
<1>13. section.count > 0 => section'.page < section'.count
  <2>1. section'.page \in Int /\ sec.page < section.count
    BY <1>1, <1>3, <1>5, <1>7, SectionRecord DEF Short
  <2>2. QED
    BY <1>3, <1>5, <1>7, <2>1
<1>14. QED
  BY <1>1, <1>2, <1>3, <1>5, <1>6, <1>7, <1>8, <1>10, <1>11, <1>12, <1>13 DEF InBounds, Short

LEMMA ShowEffect ==
    ASSUME Types, RenderShow
    PROVE  /\ section # None /\ SectionOK(section)
           /\ \/ UNCHANGED <<section, faults>> /\ renderPc' = "save" /\ InBounds(section) /\ DrawPage
              \/ UNCHANGED <<section, faults, pageOffset>> /\ renderPc' = "idle" /\ ~InBounds(section)
                   /\ shown' = Screen("outOfBounds")
              \/ Failed /\ renderPc' = "idle"
BY DEF Types, SectionInv, StepsOK, RenderShow, Failed, Fault

LEMMA ExtendEffect ==
    ASSUME Types, Extend
    PROVE  \/ section = None /\ mainPc' = "panic" /\ UNCHANGED <<section, startFailed, faults>>
           \/ /\ section # None /\ mainPc' = "loop" /\ SectionOK(section)
              /\ \/ ~section.building /\ Restarted(section', section) /\ UNCHANGED <<startFailed, faults>>
                 \/ section.building /\ startFailed' /\ UNCHANGED <<section, faults>>
                 \/ startFailed' /\ UNCHANGED section /\ faults > 0 /\ faults' = faults - 1
<1>1. CASE Panic /\ UNCHANGED <<section, startFailed, faults>>
  BY <1>1 DEF Panic
<1>2. CASE section # None
  <2>1. SectionOK(section)
    BY <1>2 DEF Types, SectionInv
  <2>2. Restarted(Started(section), section)
    BY <2>1, StartedRestarts
  <2>3. QED
    BY <1>2, <2>1, <2>2 DEF Extend, Panic, Fault
<1>3. QED
  BY <1>1, <1>2 DEF Extend, Panic

(* A tick: the layout goes on, and the deferred place is used once it is whole. *)
LEMMA TickEffect ==
    ASSUME Types, Tick
    PROVE  \/ /\ section = None /\ mainPc' = "panic"
              /\ UNCHANGED <<section, deferred, notified, marked, faults>>
           \/ /\ section # None /\ ~section.building /\ mainPc' = "loop"
              /\ UNCHANGED <<section, deferred, notified, marked, faults>>
           \/ /\ section # None /\ mainPc' = "loop" /\ UNCHANGED faults
              /\ SectionOK(section) /\ section.building /\ SectionOK(section')
              /\ \/ Continued(section', section) /\ UNCHANGED <<notified, marked>>
                 \/ /\ SameChapter(section', section) /\ ~section'.partial /\ section'.built = section.built + 1
                    /\ section'.count >= section.count /\ section'.count = Pages(section'.layout)
                    /\ section'.page \in Nat /\ ~section'.building /\ section'.page # section.page
                    /\ section'.page < section'.count
                    /\ notified' /\ marked' = None /\ spine = deferred.spine
                    /\ deferred.offset # None \/ deferred.total # 0
              /\ deferred' \in {deferred, NoDeferred(deferred)}
           \/ section # None /\ section.building /\ mainPc' = "loop" /\ Failed /\ notified'
<1>1. CASE Panic /\ UNCHANGED <<cache, section, deferred, notified, excused, stale, marked, faults>>
  BY <1>1 DEF Panic
<1>2. CASE section # None /\ ~section.building
  BY <1>2 DEF Tick, Panic
<1>3. CASE section # None /\ section.building
  <2> DEFINE sec == Advanced(section)
  <2>1. SectionOK(section) /\ SectionOK(sec) /\ Continued(sec, section) /\ SectionOK(sec)
    BY <1>3, AdvancedOK, AdvancedContinues DEF Types, SectionInv
  <2>2. \/ /\ section' = Repositioned(sec) /\ UNCHANGED faults
           /\ deferred' = IF DoesReposition(sec) THEN NoDeferred(deferred) ELSE deferred
           /\ notified' = (notified \/ section'.page # sec.page)
           /\ marked' = IF section'.page # sec.page THEN None ELSE marked
        \/ section' = None /\ Fault /\ Request
    BY <1>3 DEF Tick, Panic
  <2>3. mainPc' = "loop"
    BY <1>3 DEF Tick, Panic
  <2> HIDE DEF sec
  <2>4. CASE section' = None /\ Fault /\ Request
    BY <1>3, <2>3, <2>4 DEF Failed, Fault, Request
  <2>5. CASE /\ section' = Repositioned(sec) /\ UNCHANGED faults
             /\ deferred' = IF DoesReposition(sec) THEN NoDeferred(deferred) ELSE deferred
             /\ notified' = (notified \/ section'.page # sec.page)
             /\ marked' = IF section'.page # sec.page THEN None ELSE marked
    <3>1. deferred.total \in Nat /\ deferred.offset \in Nat \cup {None}
      BY DEF Types, PlaceOK, Deferreds
    <3>2. /\ section'.spine = sec.spine /\ section'.layout = sec.layout
          /\ section'.count = sec.count /\ section'.built = sec.built
          /\ section'.building = sec.building /\ section'.partial = sec.partial
          /\ SectionOK(section')
          /\ section'.page # sec.page =>
               /\ spine = deferred.spine /\ ~sec.building
               /\ deferred.offset # None \/ deferred.total # 0
               /\ 0 <= section'.page
               /\ sec.count > 0 => section'.page < sec.count
      BY <2>1, <2>5, <3>1, RepositionedOK
    <3>3. section' # None /\ section'.page \in Int
      BY <3>2, SectionRecord
    <3>4. CASE section'.page = sec.page
      <4>1. Continued(section', section)
        BY <2>1, <3>2, <3>3, <3>4 DEF Continued, SameChapter
      <4>2. UNCHANGED <<notified, marked>>
        <5>1. notified \in BOOLEAN
          BY DEF Types, NotifiedOK
        <5>2. QED
          BY <2>5, <3>4, <5>1
      <4>3. QED
        BY <1>3, <2>1, <2>3, <2>5, <3>2, <4>1, <4>2
    <3>5. CASE section'.page # sec.page
      <4>1. section'.page >= 0 /\ ~section'.building
        BY <3>2, <3>5
      <4>2. sec.count > 0
        BY <2>1, <3>2, <4>1, SectionRecord DEF Continued
      <4>3. /\ ~section'.partial /\ section'.built = section.built + 1
            /\ section'.count >= section.count /\ section'.count = Pages(section'.layout)
        BY <2>1, <3>2, <4>1 DEF Continued
      <4>4. SameChapter(section', section)
        BY <2>1, <3>2, <3>3 DEF Continued, SameChapter
      <4>5. section'.page # section.page
        BY <2>1, <3>5 DEF Continued
      <4>6. section'.page < section'.count
        BY <3>2, <3>5, <4>2
      <4>7. section'.page \in Nat
        BY <3>3, <4>1
      <4>8. QED
        BY <1>3, <2>1, <2>3, <2>5, <3>2, <3>5, <4>1, <4>3, <4>4, <4>5, <4>6, <4>7
    <3>6. QED
      BY <3>4, <3>5
  <2>6. QED
    BY <2>2, <2>4, <2>5
<1>4. QED
  BY <1>1, <1>2, <1>3 DEF Tick

LEMMA TurnPageEffect ==
    ASSUME Types, TurnPage
    PROVE  \/ section = None /\ mainPc' = "panic" /\ UNCHANGED <<section, marked, marks>>
           \/ /\ section # None /\ mainPc' = "loop" /\ notified' /\ SameLayout(section', section)
              /\ SectionOK(section) /\ Somewhere
              /\ marks' = IF renderPc \in {"save", "write"} THEN marks \cup {"turned"} ELSE marks
<1>1. CASE Panic /\ UNCHANGED <<section, notified, goal, excused, marked, byMenu, marks>>
  BY <1>1 DEF Panic
<1>2. CASE section # None /\ mainPc' = "loop" /\ Request /\ \E p \in {turn.page, section.page} : PageSet(p + turn.dir)
  <2>1. PICK p \in {turn.page, section.page} : PageSet(p + turn.dir)
    BY <1>2
  <2>2. /\ section' = [section EXCEPT !.page = p + turn.dir] /\ Somewhere
        /\ marks' = IF renderPc \in {"save", "write"} THEN marks \cup {"turned"} ELSE marks
    BY <2>1 DEF PageSet
  <2>3. SectionOK(section) /\ mainPc = "turnPage"
    BY <1>2 DEF Types, SectionInv, TurnPage
  <2>4. /\ turn.dir \in {-1, 1} /\ turn.page \in PageNumbers /\ section.page \in PageNumbers
        /\ turn.dir < 0 => section.page >= 0 /\ turn.page > 0
    BY <1>2, <2>3, SectionRecord DEF Types, ControlOK, TurnBackOK, InTurn, TurnsDue
  <2>5. p + turn.dir \in PageNumbers
    BY <2>4 DEF PageNumbers
  <2>6. SameLayout(section', section)
    BY <2>2, <2>3, <2>5, PageTurned, SectionRecord DEF SameLayout, SameChapter
  <2>7. QED
    BY <1>2, <2>2, <2>3, <2>6 DEF Request
<1>3. QED
  BY <1>1, <1>2 DEF TurnPage

LEMMA SkipPageEffect ==
    ASSUME Types, SkipPage
    PROVE  \/ section = None /\ mainPc' = "panic" /\ UNCHANGED <<section, marked, marks>>
           \/ /\ section # None /\ mainPc' = "loop" /\ notified' /\ SameLayout(section', section)
              /\ SectionOK(section) /\ section'.page = 0 /\ Somewhere
              /\ marks' = IF renderPc \in {"save", "write"} THEN marks \cup {"turned"} ELSE marks
<1>1. CASE Panic /\ UNCHANGED <<section, notified, goal, excused, marked, byMenu, marks>>
  BY <1>1 DEF Panic
<1>2. CASE section # None /\ mainPc' = "loop" /\ Request /\ PageSet(0)
  <2>1. SectionOK(section)
    BY <1>2 DEF Types, SectionInv
  <2>2. 0 \in PageNumbers
    BY DEF PageNumbers
  <2>3. /\ section' = [section EXCEPT !.page = 0] /\ Somewhere
        /\ marks' = IF renderPc \in {"save", "write"} THEN marks \cup {"turned"} ELSE marks
    BY <1>2 DEF PageSet
  <2>4. SameLayout(section', section) /\ section'.page = 0
    BY <2>1, <2>2, <2>3, PageTurned, SectionRecord DEF SameLayout, SameChapter
  <2>5. QED
    BY <1>2, <2>1, <2>3, <2>4 DEF Request
<1>3. QED
  BY <1>1, <1>2 DEF SkipPage

LEMMA BookmarkEffect ==
    ASSUME Types, NEW s \in Chapters, NEW o \in Anchors, NEW L \in Layouts, GoToBookmark(s, o, L)
    PROVE  \/ /\ section # None /\ spine = s /\ SameLayout(section', section) /\ section'.page \in Nat
              /\ UNCHANGED <<cache, spine, pend>>
           \/ /\ ~(section # None /\ spine = s) /\ section' = None /\ spine' = s
              /\ cache' = Dispose(cache) /\ pend' = [pend EXCEPT !.offset = o, !.next = o \div LenOf[L]]
<1>1. CASE section # None /\ spine = s
  <2> DEFINE p == IF PageAt(section, o) # None THEN PageAt(section, o) ELSE o \div LenOf[L]
  <2>1. section' = [section EXCEPT !.page = p] /\ UNCHANGED <<cache, spine, pend>>
    BY <1>1 DEF GoToBookmark
  <2>2. SectionOK(section)
    BY <1>1 DEF Types, SectionInv
  <2>3. o \in Nat /\ LenOf[L] \in Nat \ {0}
    BY PagesOfLayout, ReaderAssumption
  <2>4. PageAt(section, o) \in Nat \cup {None} /\ o \div LenOf[L] \in Nat
    BY <2>2, <2>3, PageAtOK, Quotient
  <2>5. p \in PageNumbers /\ p \in Nat
    BY <2>4 DEF PageNumbers
  <2> HIDE DEF p
  <2>6. SameLayout(section', section) /\ section'.page \in Nat
    BY <2>1, <2>2, <2>5, PageTurned, SectionRecord DEF SameLayout, SameChapter
  <2>7. QED
    BY <1>1, <2>1, <2>6
<1>2. CASE ~(section # None /\ spine = s)
  BY <1>2 DEF GoToBookmark, ResetSection
<1>3. QED
  BY <1>1, <1>2

(* What the tasks know. *)
LEMMA StepsStep == Types /\ [Next]_vars => StepsOK'
<1> SUFFICES ASSUME Types, [Next]_vars PROVE StepsOK'
  OBVIOUS
<1>1. CASE Render
  <2>1. CASE RenderBegin
    <3>1. /\ UNCHANGED <<mainPc, turn, spine, section>> /\ renderPc = "idle"
          /\ mainPc \notin {"chapters", "end", "closed", "panic"}
      BY <2>1 DEF RenderBegin, LockFree, mainVars, place
    <3>2. spine = Spines \/ spine < Spines
      BY ReaderAssumption DEF Types, PlaceOK
    <3>3. \/ renderPc' = "idle"
          \/ renderPc' = "open" /\ section = None /\ spine < Spines
          \/ renderPc' = "fit" /\ section # None
      BY <2>1, <3>2 DEF RenderBegin
    <3>4. QED
      BY <3>1, <3>3 DEF Types, StepsOK
  <2>2. CASE RenderOpen
    <3>1. UNCHANGED <<mainPc, turn, spine>> /\ renderPc = "open" /\ renderPc' \in {"place", "build", "idle"}
      BY <2>2 DEF RenderOpen, mainVars
    <3>2. (section' = None /\ renderPc' = "idle") \/ section' # None
      BY <2>2, OpenEffect DEF Failed
    <3>3. QED
      BY <3>1, <3>2 DEF Types, StepsOK
  <2>3. CASE RenderBuild
    <3>1. /\ UNCHANGED <<mainPc, turn, spine>> /\ renderPc = "build" /\ section.building /\ BuildMore("build")
      BY <2>3 DEF RenderBuild, RenderUnchanged, mainVars
    <3>2. section # None
      BY <3>1 DEF Types, StepsOK
    <3>3. (section' = None /\ renderPc' = "idle") \/ (section' # None /\ renderPc' = "build")
      BY <3>1, <3>2, BuildEffect DEF Failed, Continued, SameChapter
    <3>4. QED
      BY <3>1, <3>3 DEF Types, StepsOK
  <2>4. CASE RenderBuilt
    BY <2>4 DEF Types, StepsOK, RenderBuilt, place, saving, mainVars, drawVars, history,
      bounds, rest, vars
  <2>5. CASE RenderPlace
    <3>1. UNCHANGED <<mainPc, turn, spine>> /\ renderPc = "place" /\ renderPc' = "fit"
      BY <2>5 DEF RenderPlace, RenderUnchanged, mainVars
    <3>2. section' # None
      BY <2>5, PlaceEffect DEF SameLayout, SameChapter
    <3>3. QED
      BY <3>1, <3>2 DEF Types, StepsOK
  <2>6. CASE RenderFitStart
    <3>1. UNCHANGED <<mainPc, turn, spine>> /\ renderPc = "fit"
      BY <2>6 DEF RenderFitStart, RenderUnchanged, mainVars
    <3>2. (section' = None /\ renderPc' = "idle") \/ (section' # None /\ renderPc' = renderPc)
      BY <2>6, FitStartEffect DEF Failed, Restarted, SameChapter
    <3>3. QED
      BY <3>1, <3>2 DEF Types, StepsOK
  <2>7. CASE RenderFitBuild
    <3>1. /\ UNCHANGED <<mainPc, turn, spine>> /\ renderPc = "fit" /\ section.building /\ BuildMore("fit")
      BY <2>7 DEF RenderFitBuild, RenderUnchanged, mainVars
    <3>2. section # None
      BY <3>1 DEF Types, StepsOK
    <3>3. (section' = None /\ renderPc' = "idle") \/ (section' # None /\ renderPc' = "fit")
      BY <3>1, <3>2, BuildEffect DEF Failed, Continued, SameChapter
    <3>4. QED
      BY <3>1, <3>3 DEF Types, StepsOK
  <2>8. CASE RenderFit
    <3>1. UNCHANGED <<mainPc, turn, spine>> /\ renderPc = "fit" /\ renderPc' = "show"
      BY <2>8 DEF RenderFit, RenderUnchanged, mainVars
    <3>2. section' # None
      BY <2>8, FitEffect DEF SameLayout, SameChapter
    <3>3. QED
      BY <3>1, <3>2 DEF Types, StepsOK
  <2>9. CASE RenderShow
    <3>1. UNCHANGED <<mainPc, turn, spine>> /\ renderPc = "show"
      BY <2>9 DEF RenderShow, mainVars
    <3>2. (section' = None /\ renderPc' = "idle") \/ (UNCHANGED section /\ renderPc' \in {"save", "idle"})
      BY <2>9, ShowEffect DEF Failed
    <3>3. QED
      BY <3>1, <3>2 DEF Types, StepsOK
  <2>10. CASE RenderSave
    BY <2>10 DEF Types, StepsOK, RenderSave, place, saving, mainVars, drawVars, history,
      bounds, rest, vars
  <2>11. CASE RenderWrite
    BY <2>11 DEF Types, StepsOK, RenderWrite, Write, Fault, place, saving, mainVars,
      drawVars, history, bounds, rest, vars
  <2>12. QED
    BY <1>1, <2>1, <2>2, <2>3, <2>4, <2>5, <2>6, <2>7, <2>8, <2>9, <2>10, <2>11 DEF Render
<1>2. CASE Background
  <2>1. CASE ExtendTest
    BY <2>1 DEF Types, StepsOK, ExtendTest, place, saving, mainVars, drawVars, history,
      bounds, rest, vars
  <2>2. CASE Extend
    <3>1. UNCHANGED <<renderPc, turn, spine>> /\ renderPc = "idle" /\ mainPc' \in {"loop", "panic"}
      BY <2>2 DEF Extend, LockFree, Panic, drawVars
    <3>2. QED
      BY <3>1 DEF Types, StepsOK
  <2>3. CASE TickTest
    BY <2>3 DEF Types, StepsOK, TickTest, place, saving, mainVars, drawVars, history,
      bounds, rest, vars
  <2>4. CASE Tick
    <3>1. UNCHANGED <<renderPc, turn, spine>> /\ renderPc = "idle" /\ mainPc' \in {"loop", "panic"}
      BY <2>4 DEF Tick, LockFree, Panic, drawVars
    <3>2. QED
      BY <3>1 DEF Types, StepsOK
  <2>5. QED
    BY <1>2, <2>1, <2>2, <2>3, <2>4 DEF Background
<1>3. CASE End
  <2>1. CASE EndTest
    <3>1. /\ UNCHANGED <<renderPc, section, spine>> /\ spine >= Spines
          /\ mainPc' \in {"endSave", "endPush"} /\ mainPc = "loop"
      BY <2>1 DEF EndTest, Idle, place, drawVars
    <3>2. spine = Spines
      BY <3>1, ReaderAssumption DEF Types, PlaceOK
    <3>3. QED
      BY <3>1, <3>2 DEF Types, StepsOK
  <2>2. CASE EndSave
    BY <2>2 DEF Types, StepsOK, EndSave, Write, Fault, place, saving, mainVars, drawVars,
      history, bounds, rest, vars
  <2>3. CASE EndPush
    <3>1. renderPc = "idle" /\ mainPc' = "end" /\ mainPc = "endPush" /\ UNCHANGED <<renderPc, spine>>
      BY <2>3 DEF EndPush, LockFree, place
    <3>2. QED
      BY <3>1 DEF Types, StepsOK
  <2>4. CASE EndReset
    BY <2>4 DEF Types, StepsOK, EndReset, place, saving, mainVars, drawVars, history,
      bounds, rest, vars
  <2>5. CASE ReturnFromEnd
    <3>1. mainPc' = "loop" /\ mainPc = "end" /\ UNCHANGED <<renderPc, section>>
      BY <2>5 DEF ReturnFromEnd, drawVars
    <3>2. QED
      BY <3>1 DEF Types, StepsOK
  <2>6. QED
    BY <1>3, <2>1, <2>2, <2>3, <2>4, <2>5 DEF End
<1>4. CASE Turns
  <2>1. ASSUME NEW dir \in {-1, 1}, PressTurn(dir) PROVE StepsOK'
    BY <2>1 DEF Types, StepsOK, PressTurn, Chosen, Ready, Idle, place, saving, mainVars,
      drawVars, history, bounds, rest, vars
  <2>2. CASE QueuedTurn
    BY <2>2 DEF Types, StepsOK, QueuedTurn, Chosen, Ready, Idle, place, saving, mainVars,
      drawVars, history, bounds, rest, vars
  <2>3. CASE TurnLock
    BY <2>3 DEF Types, StepsOK, TurnLock, place, saving, mainVars, drawVars, history,
      bounds, rest, vars
  <2>4. CASE TurnTest
    <3>1. /\ mainPc = "turnTest" /\ mainPc' \in {"panic", "turnPage", "turnChapter", "loop"}
          /\ UNCHANGED <<renderPc, section>> /\ (mainPc' # "loop" => UNCHANGED spine)
      BY <2>4 DEF TurnTest, Panic, drawVars
    <3>2. turn \in TurnsDue /\ spine \in 0 .. Spines /\ (section = None \/ SectionOK(section))
      BY <3>1 DEF Types, ControlOK, InTurn, PlaceOK, SectionInv
    <3>3. mainPc' = "turnChapter" => spine + turn'.dir \in Chapters
      <4> SUFFICES ASSUME mainPc' = "turnChapter" PROVE spine + turn'.dir \in Chapters
        OBVIOUS
      <4>1. section # None /\ turn' = [turn EXCEPT !.page = section.page]
        BY <2>4 DEF TurnTest, Panic
      <4>2. turn.dir \in {-1, 1} /\ turn'.dir = turn.dir
        BY <3>2, <4>1 DEF TurnsDue
      <4>3. Spines \in Nat
        BY ReaderAssumption
      <4>4. CASE turn.dir > 0
        <5>1. spine + 1 < Spines
          BY <2>4, <4>4 DEF TurnTest, Panic
        <5>2. QED
          BY <3>2, <4>2, <4>3, <4>4, <5>1 DEF Chapters
      <4>5. CASE ~(turn.dir > 0)
        <5>1. spine > 0
          BY <2>4, <4>5 DEF TurnTest, Panic
        <5>2. QED
          BY <3>2, <4>2, <4>3, <4>5, <5>1 DEF Chapters
      <4>6. QED
        BY <4>4, <4>5
    <3>4. section = None => UNCHANGED spine
      BY <2>4 DEF TurnTest, Panic
    <3>5. QED
      BY <3>1, <3>3, <3>4 DEF Types, StepsOK
  <2>5. CASE TurnPage
    <3>1. UNCHANGED <<renderPc, spine>> /\ mainPc' \in {"loop", "panic"}
      BY <2>5 DEF TurnPage, Panic, drawVars
    <3>2. section' = section \/ (section' # None /\ section # None)
      BY <2>5, TurnPageEffect DEF SameLayout, SameChapter
    <3>3. QED
      BY <3>1, <3>2 DEF Types, StepsOK
  <2>6. CASE TurnChapter
    <3>1. renderPc = "idle" /\ mainPc' = "loop" /\ UNCHANGED renderPc
      BY <2>6 DEF TurnChapter, ToChapter, LockFree, drawVars
    <3>2. QED
      BY <3>1 DEF Types, StepsOK
  <2>7. CASE SkipForward
    <3>1. mainPc = "loop" /\ mainPc' = "skipNext" /\ UNCHANGED <<renderPc, section, spine>> /\ spine < Spines
      BY <2>7 DEF SkipForward, Ready, Idle, drawVars, place
    <3>2. QED
      BY <3>1 DEF Types, StepsOK
  <2>8. CASE SkipNext
    <3>1. renderPc = "idle" /\ mainPc' = "loop" /\ UNCHANGED renderPc
      BY <2>8 DEF SkipNext, ToChapter, LockFree, drawVars
    <3>2. QED
      BY <3>1 DEF Types, StepsOK
  <2>9. CASE SkipBack
    BY <2>9 DEF Types, StepsOK, SkipBack, place, saving, mainVars, drawVars, history,
      bounds, rest, vars
  <2>10. CASE SkipPage
    <3>1. UNCHANGED <<renderPc, spine>> /\ mainPc' \in {"loop", "panic"}
      BY <2>10 DEF SkipPage, Panic, drawVars
    <3>2. section' = section \/ (section' # None /\ section # None)
      BY <2>10, SkipPageEffect DEF SameLayout, SameChapter
    <3>3. QED
      BY <3>1, <3>2 DEF Types, StepsOK
  <2>11. CASE SkipChapter
    <3>1. renderPc = "idle" /\ mainPc' = "loop" /\ UNCHANGED renderPc
      BY <2>11 DEF SkipChapter, ToChapter, LockFree, drawVars
    <3>2. QED
      BY <3>1 DEF Types, StepsOK
  <2>12. QED
    BY <1>4, <2>1, <2>2, <2>3, <2>4, <2>5, <2>6, <2>7, <2>8, <2>9, <2>10, <2>11 DEF Turns
<1>5. CASE Menus
  <2>1. ASSUME NEW L \in Layouts, Relayout(L) PROVE StepsOK'
    <3>1. renderPc = "idle" /\ mainPc' = "loop" /\ UNCHANGED renderPc
      BY <2>1 DEF Relayout, LockFree, drawVars, mainVars, Ready, Idle, Types, StepsOK
    <3>2. QED
      BY <3>1 DEF Types, StepsOK
  <2>2. CASE OpenChapters
    <3>1. renderPc = "idle" /\ mainPc' = "chapters" /\ UNCHANGED renderPc /\ section' = None
      BY <2>2 DEF OpenChapters, ResetSection, LockFree, drawVars
    <3>2. QED
      BY <3>1 DEF Types, StepsOK
  <2>3. CASE CancelChapters
    <3>1. renderPc = "idle" /\ mainPc' = "loop" /\ UNCHANGED renderPc
      BY <2>3 DEF CancelChapters, LockFree, drawVars, mainVars, Ready, Idle, Types, StepsOK
    <3>2. QED
      BY <3>1 DEF Types, StepsOK
  <2>4. ASSUME NEW s \in Chapters, ChooseChapter(s) PROVE StepsOK'
    <3>1. renderPc = "idle" /\ mainPc' = "loop" /\ UNCHANGED renderPc
      BY <2>4 DEF ChooseChapter, LockFree, drawVars, mainVars, Ready, Idle, Types, StepsOK
    <3>2. QED
      BY <3>1 DEF Types, StepsOK
  <2>5. ASSUME NEW s \in Chapters, NEW o \in Anchors, JumpToPercent(s, o) PROVE StepsOK'
    <3>1. renderPc = "idle" /\ mainPc' = "loop" /\ UNCHANGED renderPc
      BY <2>5 DEF JumpToPercent, LockFree, drawVars, mainVars, Ready, Idle, Types, StepsOK
    <3>2. QED
      BY <3>1 DEF Types, StepsOK
  <2>6. ASSUME NEW s \in Chapters, NEW o \in Anchors, Footnote(s, o) PROVE StepsOK'
    <3>1. renderPc = "idle" /\ mainPc' = "loop" /\ UNCHANGED renderPc
      BY <2>6 DEF Footnote, LockFree, drawVars, mainVars, Ready, Idle, Types, StepsOK
    <3>2. QED
      BY <3>1 DEF Types, StepsOK
  <2>7. ASSUME NEW s \in Chapters, NEW o \in Anchors, NEW L \in Layouts, GoToBookmark(s, o, L) PROVE StepsOK'
    <3>1. renderPc = "idle" /\ mainPc' = "loop" /\ mainPc = "loop" /\ UNCHANGED renderPc
      BY <2>7 DEF GoToBookmark, LockFree, drawVars, Ready, Idle
    <3>2. QED
      BY <3>1 DEF Types, StepsOK
  <2>8. CASE RestoreSavedPosition
    <3>1. renderPc = "idle" /\ mainPc' = "loop" /\ UNCHANGED renderPc
      BY <2>8 DEF RestoreSavedPosition, LockFree, drawVars, mainVars, Ready, Idle, Types, StepsOK
    <3>2. QED
      BY <3>1 DEF Types, StepsOK
  <2>9. ASSUME NEW st \in ManualStatuses, SetStatus(st) PROVE StepsOK'
    <3>1. mainPc' \in {"loop", "persist"} /\ UNCHANGED <<renderPc, section, spine>>
      BY <2>9 DEF SetStatus, drawVars, place
    <3>2. QED
      BY <3>1 DEF Types, StepsOK
  <2>10. CASE Persist
    <3>1. mainPc' \in {"loop", "panic"} /\ UNCHANGED <<renderPc, section, spine>>
      BY <2>10 DEF Persist, Panic, drawVars, place
    <3>2. QED
      BY <3>1 DEF Types, StepsOK
  <2>11. CASE DeleteCache
    <3>1. renderPc = "idle" /\ mainPc' = "closed" /\ UNCHANGED renderPc /\ section' = None
      BY <2>11 DEF DeleteCache, Closed, LockFree
    <3>2. QED
      BY <3>1 DEF Types, StepsOK
  <2>12. QED
    BY <1>5, <2>1, <2>2, <2>3, <2>4, <2>5, <2>6, <2>7, <2>8, <2>9, <2>10, <2>11 DEF Menus
<1>6. CASE Sessions
  <2>1. CASE Leave
    <3>1. renderPc = "idle" /\ mainPc' = "closed" /\ UNCHANGED renderPc /\ section' = None
      BY <2>1 DEF Leave, Closed, LockFree
    <3>2. QED
      BY <3>1 DEF Types, StepsOK
  <2>2. CASE Reboot
    <3>1. renderPc = "idle" /\ mainPc' = "closed" /\ UNCHANGED renderPc /\ section' = None
      BY <2>2 DEF Reboot, Closed, LockFree
    <3>2. QED
      BY <3>1 DEF Types, StepsOK
  <2>3. ASSUME NEW L \in Layouts, Open(L) PROVE StepsOK'
    <3>1. renderPc = "idle" /\ mainPc' = "loop" /\ UNCHANGED renderPc
      BY <2>3 DEF Open, LockFree, drawVars, mainVars, Ready, Idle, Types, StepsOK
    <3>2. QED
      BY <3>1 DEF Types, StepsOK
  <2>4. QED
    BY <1>6, <2>1, <2>2, <2>3 DEF Sessions
<1>7. CASE UNCHANGED vars
  BY <1>7 DEF Types, StepsOK, place, saving, mainVars, drawVars, history, bounds, rest, vars
<1>8. QED
  BY <1>1, <1>2, <1>3, <1>4, <1>5, <1>6, <1>7 DEF Next

(* The section is that of the chapter and of the layout. *)
LEMMA LocatedStep == Types /\ [Next]_vars => LocatedOK'
<1> SUFFICES ASSUME Types, [Next]_vars PROVE LocatedOK'
  OBVIOUS
<1>1. CASE Render
  <2>1. CASE RenderBegin
    BY <2>1 DEF Types, LocatedOK, RenderBegin, place, saving, mainVars, drawVars, history,
      bounds, rest, vars
  <2>2. CASE RenderOpen
    <3>1. UNCHANGED <<spine, layout>>
      BY <2>2 DEF RenderOpen, RenderUnchanged
    <3>2. section' # None =>
            \/ section # None /\ section'.spine = section.spine /\ section'.layout = section.layout
            \/ section'.spine = spine /\ section'.layout = layout /\ spine < Spines
      BY <2>2, OpenEffect, ReaderAssumption DEF SameLayout, SameChapter, Failed, Restarted, Chapters
    <3>3. QED
      BY <3>1, <3>2 DEF Types, LocatedOK
  <2>3. CASE RenderBuild
    <3>1. /\ UNCHANGED <<spine, layout>> /\ renderPc = "build" /\ section.building /\ BuildMore("build")
      BY <2>3 DEF RenderBuild, RenderUnchanged
    <3>2. section # None
      BY <3>1 DEF Types, StepsOK
    <3>3. section' # None => section'.spine = section.spine /\ section'.layout = section.layout
      BY <3>1, <3>2, BuildEffect DEF Failed, Continued, SameChapter
    <3>4. QED
      BY <3>1, <3>2, <3>3 DEF Types, LocatedOK
  <2>4. CASE RenderBuilt
    BY <2>4 DEF Types, LocatedOK, RenderBuilt, place, saving, mainVars, drawVars, history,
      bounds, rest, vars
  <2>5. CASE RenderPlace
    <3>1. UNCHANGED <<spine, layout>>
      BY <2>5 DEF RenderPlace, RenderUnchanged
    <3>2. section' # None =>
            \/ section # None /\ section'.spine = section.spine /\ section'.layout = section.layout
            \/ section'.spine = spine /\ section'.layout = layout /\ spine < Spines
      BY <2>5, PlaceEffect, ReaderAssumption DEF SameLayout, SameChapter, Failed, Restarted, Chapters
    <3>3. QED
      BY <3>1, <3>2 DEF Types, LocatedOK
  <2>6. CASE RenderFitStart
    <3>1. UNCHANGED <<spine, layout>>
      BY <2>6 DEF RenderFitStart, RenderUnchanged
    <3>2. section' # None =>
            \/ section # None /\ section'.spine = section.spine /\ section'.layout = section.layout
            \/ section'.spine = spine /\ section'.layout = layout /\ spine < Spines
      BY <2>6, FitStartEffect, ReaderAssumption DEF SameLayout, SameChapter, Failed, Restarted, Chapters
    <3>3. QED
      BY <3>1, <3>2 DEF Types, LocatedOK
  <2>7. CASE RenderFitBuild
    <3>1. /\ UNCHANGED <<spine, layout>> /\ renderPc = "fit" /\ section.building /\ BuildMore("fit")
      BY <2>7 DEF RenderFitBuild, RenderUnchanged
    <3>2. section # None
      BY <3>1 DEF Types, StepsOK
    <3>3. section' # None => section'.spine = section.spine /\ section'.layout = section.layout
      BY <3>1, <3>2, BuildEffect DEF Failed, Continued, SameChapter
    <3>4. QED
      BY <3>1, <3>2, <3>3 DEF Types, LocatedOK
  <2>8. CASE RenderFit
    <3>1. UNCHANGED <<spine, layout>>
      BY <2>8 DEF RenderFit, RenderUnchanged
    <3>2. section' # None =>
            \/ section # None /\ section'.spine = section.spine /\ section'.layout = section.layout
            \/ section'.spine = spine /\ section'.layout = layout /\ spine < Spines
      BY <2>8, FitEffect, ReaderAssumption DEF SameLayout, SameChapter, Failed, Restarted, Chapters
    <3>3. QED
      BY <3>1, <3>2 DEF Types, LocatedOK
  <2>9. CASE RenderShow
    <3>1. UNCHANGED <<spine, layout>> /\ (section' = None \/ UNCHANGED section)
      BY <2>9 DEF RenderShow
    <3>2. QED
      BY <3>1 DEF Types, LocatedOK
  <2>10. CASE RenderSave
    BY <2>10 DEF Types, LocatedOK, RenderSave, place, saving, mainVars, drawVars, history,
      bounds, rest, vars
  <2>11. CASE RenderWrite
    BY <2>11 DEF Types, LocatedOK, RenderWrite, Write, Fault, place, saving, mainVars,
      drawVars, history, bounds, rest, vars
  <2>12. QED
    BY <1>1, <2>1, <2>2, <2>3, <2>4, <2>5, <2>6, <2>7, <2>8, <2>9, <2>10, <2>11 DEF Render
<1>2. CASE Background
  <2>1. CASE ExtendTest
    BY <2>1 DEF Types, LocatedOK, ExtendTest, place, saving, mainVars, drawVars, history,
      bounds, rest, vars
  <2>2. CASE Extend
    <3>1. UNCHANGED <<spine, layout>>
      BY <2>2 DEF Extend
    <3>2. section' # None => /\ section # None
                            /\ section'.spine = section.spine /\ section'.layout = section.layout
      BY <2>2, ExtendEffect DEF SameLayout, SameChapter, Failed, Restarted, Continued
    <3>3. QED
      BY <3>1, <3>2 DEF Types, LocatedOK
  <2>3. CASE TickTest
    BY <2>3 DEF Types, LocatedOK, TickTest, place, saving, mainVars, drawVars, history,
      bounds, rest, vars
  <2>4. CASE Tick
    <3>1. UNCHANGED <<spine, layout>>
      BY <2>4 DEF Tick
    <3>2. section' # None => /\ section # None
                            /\ section'.spine = section.spine /\ section'.layout = section.layout
      BY <2>4, TickEffect DEF SameLayout, SameChapter, Failed, Restarted, Continued
    <3>3. QED
      BY <3>1, <3>2 DEF Types, LocatedOK
  <2>5. QED
    BY <1>2, <2>1, <2>2, <2>3, <2>4 DEF Background
<1>3. CASE End
  <2>1. CASE EndTest
    BY <2>1 DEF Types, LocatedOK, EndTest, place, saving, mainVars, drawVars, history,
      bounds, rest, vars
  <2>2. CASE EndSave
    BY <2>2 DEF Types, LocatedOK, EndSave, Write, Fault, place, saving, mainVars, drawVars,
      history, bounds, rest, vars
  <2>3. CASE EndPush
    BY <2>3 DEF Types, LocatedOK, EndPush, place, saving, mainVars, drawVars, history,
      bounds, rest, vars
  <2>4. CASE EndReset
    BY <2>4 DEF Types, LocatedOK, EndReset, place, saving, mainVars, drawVars, history,
      bounds, rest, vars
  <2>5. CASE ReturnFromEnd
    <3>1. UNCHANGED <<layout, section>> /\ spine' = Spines - 1
      BY <2>5 DEF ReturnFromEnd
    <3>2. spine = Spines
      BY <2>5 DEF ReturnFromEnd, Types, StepsOK
    <3>3. QED
      BY <3>1, <3>2, ReaderAssumption DEF Types, LocatedOK
  <2>6. QED
    BY <1>3, <2>1, <2>2, <2>3, <2>4, <2>5 DEF End
<1>4. CASE Turns
  <2>1. ASSUME NEW dir \in {-1, 1}, PressTurn(dir) PROVE LocatedOK'
    BY <2>1 DEF Types, LocatedOK, PressTurn, Chosen, Ready, Idle, place, saving, mainVars,
      drawVars, history, bounds, rest, vars
  <2>2. CASE QueuedTurn
    BY <2>2 DEF Types, LocatedOK, QueuedTurn, Chosen, Ready, Idle, place, saving, mainVars,
      drawVars, history, bounds, rest, vars
  <2>3. CASE TurnLock
    BY <2>3 DEF Types, LocatedOK, TurnLock, place, saving, mainVars, drawVars, history,
      bounds, rest, vars
  <2>4. CASE TurnTest
    <3>1. UNCHANGED <<layout, section>> /\ (spine' = spine \/ (spine' = Spines /\ ~(spine + 1 < Spines) /\ section # None))
      BY <2>4 DEF TurnTest, Panic
    <3>2. spine \in 0 .. Spines /\ Spines \in Nat
      BY ReaderAssumption DEF Types, PlaceOK
    <3>3. QED
      BY <3>1, <3>2 DEF Types, LocatedOK
  <2>5. CASE TurnPage
    <3>1. UNCHANGED <<spine, layout>>
      BY <2>5 DEF TurnPage
    <3>2. section' # None => /\ section # None
                            /\ section'.spine = section.spine /\ section'.layout = section.layout
      BY <2>5, TurnPageEffect DEF SameLayout, SameChapter, Failed, Restarted, Continued
    <3>3. QED
      BY <3>1, <3>2 DEF Types, LocatedOK
  <2>6. CASE TurnChapter
    <3>1. section' = None
      BY <2>6 DEF TurnChapter, ToChapter
    <3>2. QED
      BY <3>1 DEF LocatedOK
  <2>7. CASE SkipForward
    BY <2>7 DEF Types, LocatedOK, SkipForward, place, saving, mainVars, drawVars, history,
      bounds, rest, vars
  <2>8. CASE SkipNext
    <3>1. section' = None
      BY <2>8 DEF SkipNext, ToChapter
    <3>2. QED
      BY <3>1 DEF LocatedOK
  <2>9. CASE SkipBack
    BY <2>9 DEF Types, LocatedOK, SkipBack, place, saving, mainVars, drawVars, history,
      bounds, rest, vars
  <2>10. CASE SkipPage
    <3>1. UNCHANGED <<spine, layout>>
      BY <2>10 DEF SkipPage
    <3>2. section' # None => /\ section # None
                            /\ section'.spine = section.spine /\ section'.layout = section.layout
      BY <2>10, SkipPageEffect DEF SameLayout, SameChapter, Failed, Restarted, Continued
    <3>3. QED
      BY <3>1, <3>2 DEF Types, LocatedOK
  <2>11. CASE SkipChapter
    <3>1. section' = None
      BY <2>11 DEF SkipChapter, ToChapter
    <3>2. QED
      BY <3>1 DEF LocatedOK
  <2>12. QED
    BY <1>4, <2>1, <2>2, <2>3, <2>4, <2>5, <2>6, <2>7, <2>8, <2>9, <2>10, <2>11 DEF Turns
<1>5. CASE Menus
  <2>1. ASSUME NEW L \in Layouts, Relayout(L) PROVE LocatedOK'
    <3>1. section' = None
      BY <2>1 DEF Relayout, ResetSection
    <3>2. QED
      BY <3>1 DEF LocatedOK
  <2>2. CASE OpenChapters
    <3>1. section' = None
      BY <2>2 DEF OpenChapters, ResetSection
    <3>2. QED
      BY <3>1 DEF LocatedOK
  <2>3. CASE CancelChapters
    BY <2>3 DEF Types, LocatedOK, CancelChapters, place, saving, mainVars, drawVars,
      history, bounds, rest, vars
  <2>4. ASSUME NEW s \in Chapters, ChooseChapter(s) PROVE LocatedOK'
    <3>1. section' = None
      BY <2>4 DEF ChooseChapter, Types, StepsOK
    <3>2. QED
      BY <3>1 DEF LocatedOK
  <2>5. ASSUME NEW s \in Chapters, NEW o \in Anchors, JumpToPercent(s, o) PROVE LocatedOK'
    <3>1. section' = None
      BY <2>5 DEF JumpToPercent, ResetSection
    <3>2. QED
      BY <3>1 DEF LocatedOK
  <2>6. ASSUME NEW s \in Chapters, NEW o \in Anchors, Footnote(s, o) PROVE LocatedOK'
    <3>1. section' = None
      BY <2>6 DEF Footnote, ResetSection
    <3>2. QED
      BY <3>1 DEF LocatedOK
  <2>7. ASSUME NEW s \in Chapters, NEW o \in Anchors, NEW L \in Layouts, GoToBookmark(s, o, L) PROVE LocatedOK'
    <3>1. UNCHANGED layout
      BY <2>7 DEF GoToBookmark
    <3>2. \/ section' = None
          \/ section # None /\ spine' = spine /\ section'.spine = section.spine /\ section'.layout = section.layout
      BY <2>7, BookmarkEffect DEF SameLayout, SameChapter
    <3>3. QED
      BY <3>1, <3>2 DEF Types, LocatedOK
  <2>8. CASE RestoreSavedPosition
    <3>1. section' = None
      BY <2>8 DEF RestoreSavedPosition, ResetSection
    <3>2. QED
      BY <3>1 DEF LocatedOK
  <2>9. ASSUME NEW st \in ManualStatuses, SetStatus(st) PROVE LocatedOK'
    BY <2>9 DEF Types, LocatedOK, SetStatus, place, saving, mainVars, drawVars, history,
      bounds, rest, vars
  <2>10. CASE Persist
    BY <2>10 DEF Types, LocatedOK, Persist, Panic, Write, Fault, place, saving, mainVars,
      drawVars, history, bounds, rest, vars
  <2>11. CASE DeleteCache
    <3>1. section' = None
      BY <2>11 DEF DeleteCache, Closed
    <3>2. QED
      BY <3>1 DEF LocatedOK
  <2>12. QED
    BY <1>5, <2>1, <2>2, <2>3, <2>4, <2>5, <2>6, <2>7, <2>8, <2>9, <2>10, <2>11 DEF Menus
<1>6. CASE Sessions
  <2>1. CASE Leave
    <3>1. section' = None
      BY <2>1 DEF Leave, Closed
    <3>2. QED
      BY <3>1 DEF LocatedOK
  <2>2. CASE Reboot
    <3>1. section' = None
      BY <2>2 DEF Reboot, Closed
    <3>2. QED
      BY <3>1 DEF LocatedOK
  <2>3. ASSUME NEW L \in Layouts, Open(L) PROVE LocatedOK'
    <3>1. section' = None
      BY <2>3 DEF Open, Types, StepsOK
    <3>2. QED
      BY <3>1 DEF LocatedOK
  <2>4. QED
    BY <1>6, <2>1, <2>2, <2>3 DEF Sessions
<1>7. CASE UNCHANGED vars
  BY <1>7 DEF Types, LocatedOK, place, saving, mainVars, drawVars, history, bounds, rest,
    vars
<1>8. QED
  BY <1>1, <1>2, <1>3, <1>4, <1>5, <1>6, <1>7 DEF Next

(* A turn back is made from a page that has one before it. *)
LEMMA TurnBackStep == Types /\ [Next]_vars => TurnBackOK'
<1> SUFFICES ASSUME Types, [Next]_vars PROVE TurnBackOK'
  OBVIOUS
<1>1. CASE Render
  <2>1. CASE RenderBegin
    BY <2>1 DEF Types, TurnBackOK, RenderBegin, place, saving, mainVars, drawVars, history,
      bounds, rest, vars
  <2>2. CASE RenderOpen
    <3>1. UNCHANGED <<mainPc, turn>>
      BY <2>2 DEF RenderOpen, RenderUnchanged, mainVars
    <3>2. section = None \/ section.page \in Int
      BY SectionRecord DEF Types, SectionInv
    <3>3. section' # None => section'.page >= 0 \/ (section # None /\ section'.page = section.page)
      BY <2>2, <3>2, OpenEffect DEF SameLayout, SameChapter, Failed, Restarted
    <3>4. QED
      BY <3>1, <3>2, <3>3 DEF Types, TurnBackOK
  <2>3. CASE RenderBuild
    <3>1. /\ UNCHANGED <<mainPc, turn>> /\ renderPc = "build" /\ section.building /\ BuildMore("build")
      BY <2>3 DEF RenderBuild, RenderUnchanged, mainVars
    <3>2. section # None
      BY <3>1 DEF Types, StepsOK
    <3>3. section' # None => section'.page = section.page
      BY <3>1, <3>2, BuildEffect DEF Failed, Continued, SameChapter
    <3>4. QED
      BY <3>1, <3>2, <3>3 DEF Types, TurnBackOK
  <2>4. CASE RenderBuilt
    BY <2>4 DEF Types, TurnBackOK, RenderBuilt, place, saving, mainVars, drawVars, history,
      bounds, rest, vars
  <2>5. CASE RenderPlace
    <3>1. UNCHANGED <<mainPc, turn>>
      BY <2>5 DEF RenderPlace, RenderUnchanged, mainVars
    <3>2. section = None \/ section.page \in Int
      BY SectionRecord DEF Types, SectionInv
    <3>3. section' # None => section'.page >= 0 \/ (section # None /\ section'.page = section.page)
      BY <2>5, <3>2, PlaceEffect DEF SameLayout, SameChapter, Failed, Restarted
    <3>4. QED
      BY <3>1, <3>2, <3>3 DEF Types, TurnBackOK
  <2>6. CASE RenderFitStart
    <3>1. UNCHANGED <<mainPc, turn>>
      BY <2>6 DEF RenderFitStart, RenderUnchanged, mainVars
    <3>2. section = None \/ section.page \in Int
      BY SectionRecord DEF Types, SectionInv
    <3>3. section' # None => section'.page >= 0 \/ (section # None /\ section'.page = section.page)
      BY <2>6, <3>2, FitStartEffect DEF SameLayout, SameChapter, Failed, Restarted
    <3>4. QED
      BY <3>1, <3>2, <3>3 DEF Types, TurnBackOK
  <2>7. CASE RenderFitBuild
    <3>1. /\ UNCHANGED <<mainPc, turn>> /\ renderPc = "fit" /\ section.building /\ BuildMore("fit")
      BY <2>7 DEF RenderFitBuild, RenderUnchanged, mainVars
    <3>2. section # None
      BY <3>1 DEF Types, StepsOK
    <3>3. section' # None => section'.page = section.page
      BY <3>1, <3>2, BuildEffect DEF Failed, Continued, SameChapter
    <3>4. QED
      BY <3>1, <3>2, <3>3 DEF Types, TurnBackOK
  <2>8. CASE RenderFit
    <3>1. UNCHANGED <<mainPc, turn>>
      BY <2>8 DEF RenderFit, RenderUnchanged, mainVars
    <3>2. section = None \/ section.page \in Int
      BY SectionRecord DEF Types, SectionInv
    <3>3. section' # None => section'.page >= 0 \/ (section # None /\ section'.page = section.page)
      BY <2>8, <3>2, FitEffect DEF SameLayout, SameChapter, Failed, Restarted
    <3>4. QED
      BY <3>1, <3>2, <3>3 DEF Types, TurnBackOK
  <2>9. CASE RenderShow
    <3>1. UNCHANGED <<mainPc, turn>> /\ (section' = None \/ UNCHANGED section)
      BY <2>9 DEF RenderShow, mainVars
    <3>2. QED
      BY <3>1 DEF Types, TurnBackOK
  <2>10. CASE RenderSave
    BY <2>10 DEF Types, TurnBackOK, RenderSave, place, saving, mainVars, drawVars, history,
      bounds, rest, vars
  <2>11. CASE RenderWrite
    BY <2>11 DEF Types, TurnBackOK, RenderWrite, Write, Fault, place, saving, mainVars,
      drawVars, history, bounds, rest, vars
  <2>12. QED
    BY <1>1, <2>1, <2>2, <2>3, <2>4, <2>5, <2>6, <2>7, <2>8, <2>9, <2>10, <2>11 DEF Render
<1>2. CASE Background
  <2>1. CASE ExtendTest
    <3>1. mainPc' # "turnPage"
      BY <2>1 DEF ExtendTest
    <3>2. QED
      BY <3>1 DEF TurnBackOK
  <2>2. CASE Extend
    <3>1. mainPc' # "turnPage"
      BY <2>2 DEF Extend, Panic
    <3>2. QED
      BY <3>1 DEF TurnBackOK
  <2>3. CASE TickTest
    <3>1. mainPc' # "turnPage"
      BY <2>3 DEF TickTest
    <3>2. QED
      BY <3>1 DEF TurnBackOK
  <2>4. CASE Tick
    <3>1. mainPc' # "turnPage"
      BY <2>4 DEF Tick, Panic
    <3>2. QED
      BY <3>1 DEF TurnBackOK
  <2>5. QED
    BY <1>2, <2>1, <2>2, <2>3, <2>4 DEF Background
<1>3. CASE End
  <2>1. CASE EndTest
    <3>1. mainPc' # "turnPage"
      BY <2>1 DEF EndTest
    <3>2. QED
      BY <3>1 DEF TurnBackOK
  <2>2. CASE EndSave
    <3>1. mainPc' # "turnPage"
      BY <2>2 DEF EndSave
    <3>2. QED
      BY <3>1 DEF TurnBackOK
  <2>3. CASE EndPush
    <3>1. mainPc' # "turnPage"
      BY <2>3 DEF EndPush
    <3>2. QED
      BY <3>1 DEF TurnBackOK
  <2>4. CASE EndReset
    <3>1. mainPc' # "turnPage"
      BY <2>4 DEF EndReset, Idle, mainVars
    <3>2. QED
      BY <3>1 DEF TurnBackOK
  <2>5. CASE ReturnFromEnd
    <3>1. mainPc' # "turnPage"
      BY <2>5 DEF ReturnFromEnd
    <3>2. QED
      BY <3>1 DEF TurnBackOK
  <2>6. QED
    BY <1>3, <2>1, <2>2, <2>3, <2>4, <2>5 DEF End
<1>4. CASE Turns
  <2>1. ASSUME NEW dir \in {-1, 1}, PressTurn(dir) PROVE TurnBackOK'
    <3>1. mainPc' # "turnPage"
      BY <2>1 DEF PressTurn, Ready, Idle, Chosen
    <3>2. QED
      BY <3>1 DEF TurnBackOK
  <2>2. CASE QueuedTurn
    <3>1. mainPc' # "turnPage"
      BY <2>2 DEF QueuedTurn, Ready, Idle, Chosen
    <3>2. QED
      BY <3>1 DEF TurnBackOK
  <2>3. CASE TurnLock
    <3>1. mainPc' # "turnPage"
      BY <2>3 DEF TurnLock
    <3>2. QED
      BY <3>1 DEF TurnBackOK
  <2>4. CASE TurnTest
    <3> SUFFICES ASSUME mainPc' = "turnPage", turn'.dir < 0
                 PROVE  turn'.page > 0 /\ section'.page >= 0
      BY DEF TurnBackOK
    <3>1. /\ UNCHANGED section /\ section # None /\ turn' = [turn EXCEPT !.page = section.page]
      BY <2>4 DEF TurnTest, Panic
    <3>2. turn \in TurnsDue /\ section.page \in Int
      BY <2>4, <3>1, SectionRecord DEF Types, ControlOK, InTurn, SectionInv, TurnTest
    <3>3. turn.dir \in {-1, 1} /\ turn'.dir = turn.dir /\ turn'.page = section.page
      BY <3>1, <3>2 DEF TurnsDue
    <3>4. section.page > 0
      BY <2>4, <3>1, <3>3 DEF TurnTest, Panic
    <3>5. QED
      BY <3>1, <3>2, <3>3, <3>4
  <2>5. CASE TurnPage
    <3>1. mainPc' # "turnPage"
      BY <2>5 DEF TurnPage, Panic
    <3>2. QED
      BY <3>1 DEF TurnBackOK
  <2>6. CASE TurnChapter
    <3>1. mainPc' # "turnPage"
      BY <2>6 DEF TurnChapter, ToChapter
    <3>2. QED
      BY <3>1 DEF TurnBackOK
  <2>7. CASE SkipForward
    <3>1. mainPc' # "turnPage"
      BY <2>7 DEF SkipForward
    <3>2. QED
      BY <3>1 DEF TurnBackOK
  <2>8. CASE SkipNext
    <3>1. mainPc' # "turnPage"
      BY <2>8 DEF SkipNext, ToChapter
    <3>2. QED
      BY <3>1 DEF TurnBackOK
  <2>9. CASE SkipBack
    <3>1. mainPc' # "turnPage"
      BY <2>9 DEF SkipBack
    <3>2. QED
      BY <3>1 DEF TurnBackOK
  <2>10. CASE SkipPage
    <3>1. mainPc' # "turnPage"
      BY <2>10 DEF SkipPage, Panic
    <3>2. QED
      BY <3>1 DEF TurnBackOK
  <2>11. CASE SkipChapter
    <3>1. mainPc' # "turnPage"
      BY <2>11 DEF SkipChapter, ToChapter
    <3>2. QED
      BY <3>1 DEF TurnBackOK
  <2>12. QED
    BY <1>4, <2>1, <2>2, <2>3, <2>4, <2>5, <2>6, <2>7, <2>8, <2>9, <2>10, <2>11 DEF Turns
<1>5. CASE Menus
  <2>1. ASSUME NEW L \in Layouts, Relayout(L) PROVE TurnBackOK'
    <3>1. mainPc' # "turnPage"
      BY <2>1 DEF Relayout, Ready, Idle, mainVars
    <3>2. QED
      BY <3>1 DEF TurnBackOK
  <2>2. CASE OpenChapters
    <3>1. mainPc' # "turnPage"
      BY <2>2 DEF OpenChapters
    <3>2. QED
      BY <3>1 DEF TurnBackOK
  <2>3. CASE CancelChapters
    <3>1. mainPc' # "turnPage"
      BY <2>3 DEF CancelChapters
    <3>2. QED
      BY <3>1 DEF TurnBackOK
  <2>4. ASSUME NEW s \in Chapters, ChooseChapter(s) PROVE TurnBackOK'
    <3>1. mainPc' # "turnPage"
      BY <2>4 DEF ChooseChapter
    <3>2. QED
      BY <3>1 DEF TurnBackOK
  <2>5. ASSUME NEW s \in Chapters, NEW o \in Anchors, JumpToPercent(s, o) PROVE TurnBackOK'
    <3>1. mainPc' # "turnPage"
      BY <2>5 DEF JumpToPercent, Ready, Idle, mainVars
    <3>2. QED
      BY <3>1 DEF TurnBackOK
  <2>6. ASSUME NEW s \in Chapters, NEW o \in Anchors, Footnote(s, o) PROVE TurnBackOK'
    <3>1. mainPc' # "turnPage"
      BY <2>6 DEF Footnote, Ready, Idle, mainVars
    <3>2. QED
      BY <3>1 DEF TurnBackOK
  <2>7. ASSUME NEW s \in Chapters, NEW o \in Anchors, NEW L \in Layouts, GoToBookmark(s, o, L) PROVE TurnBackOK'
    <3>1. mainPc' # "turnPage"
      BY <2>7 DEF GoToBookmark, Ready, Idle, mainVars
    <3>2. QED
      BY <3>1 DEF TurnBackOK
  <2>8. CASE RestoreSavedPosition
    <3>1. mainPc' # "turnPage"
      BY <2>8 DEF RestoreSavedPosition, Ready, Idle, mainVars
    <3>2. QED
      BY <3>1 DEF TurnBackOK
  <2>9. ASSUME NEW st \in ManualStatuses, SetStatus(st) PROVE TurnBackOK'
    <3>1. mainPc' # "turnPage"
      BY <2>9 DEF SetStatus
    <3>2. QED
      BY <3>1 DEF TurnBackOK
  <2>10. CASE Persist
    <3>1. mainPc' # "turnPage"
      BY <2>10 DEF Persist, Panic
    <3>2. QED
      BY <3>1 DEF TurnBackOK
  <2>11. CASE DeleteCache
    <3>1. mainPc' # "turnPage"
      BY <2>11 DEF DeleteCache, Closed
    <3>2. QED
      BY <3>1 DEF TurnBackOK
  <2>12. QED
    BY <1>5, <2>1, <2>2, <2>3, <2>4, <2>5, <2>6, <2>7, <2>8, <2>9, <2>10, <2>11 DEF Menus
<1>6. CASE Sessions
  <2>1. CASE Leave
    <3>1. mainPc' # "turnPage"
      BY <2>1 DEF Leave, Closed
    <3>2. QED
      BY <3>1 DEF TurnBackOK
  <2>2. CASE Reboot
    <3>1. mainPc' # "turnPage"
      BY <2>2 DEF Reboot, Closed
    <3>2. QED
      BY <3>1 DEF TurnBackOK
  <2>3. ASSUME NEW L \in Layouts, Open(L) PROVE TurnBackOK'
    <3>1. mainPc' # "turnPage"
      BY <2>3 DEF Open
    <3>2. QED
      BY <3>1 DEF TurnBackOK
  <2>4. QED
    BY <1>6, <2>1, <2>2, <2>3 DEF Sessions
<1>7. CASE UNCHANGED vars
  BY <1>7 DEF Types, TurnBackOK, place, saving, mainVars, drawVars, history, bounds, rest,
    vars
<1>8. QED
  BY <1>1, <1>2, <1>3, <1>4, <1>5, <1>6, <1>7 DEF Next

LEMMA TypesInit == Init => Types
<1> SUFFICES ASSUME Init PROVE Types
  OBVIOUS
<1>1. Spines \in Nat \ {0} /\ Units \in Nat /\ MaxDepth \in Nat /\ MaxFaults \in Nat
  BY ReaderAssumption
<1>2. layout \in Layouts
  BY ReaderAssumption DEF Init
<1>3. CacheOK
  <2>1. cache = [s \in Chapters |-> [layout |-> layout, pages |-> 0]]
    BY DEF Init
  <2>2. Pages(layout) \in Nat
    BY <1>2, PagesOfLayout
  <2>3. cache \in [Chapters -> [layout : Layouts, pages : Nat]]
    BY <1>2, <2>1
  <2>4. \A s \in Chapters : cache[s].pages <= Pages(cache[s].layout)
    BY <2>1, <2>2
  <2>5. QED
    BY <1>2, <2>3, <2>4 DEF CacheOK
<1>4. SectionInv /\ LocatedOK /\ NotifiedOK
  BY DEF Init, SectionInv, LocatedOK, NotifiedOK
<1>5. PlaceOK
  BY <1>1 DEF Init, PlaceOK, Pends, Deferreds, NoPend, PageNumbers
<1>6. OriginOK
  BY <1>1 DEF Init, OriginOK
<1>7. SavingOK
  BY <1>1 DEF Init, SavingOK, Statuses, PageNumbers
<1>8. ControlOK
  BY <1>1 DEF Init, ControlOK, RenderSteps, MainSteps, InTurn
<1>9. StepsOK /\ TurnBackOK
  BY DEF Init, StepsOK, TurnBackOK
<1>10. QED
  BY <1>3, <1>4, <1>5, <1>6, <1>7, <1>8, <1>9 DEF Types

LEMMA TypesStep == Types /\ [Next]_vars => Types'
BY CacheStep, SectionStep, PlaceStep, OriginStep, SavingStep, ControlStep, StepsStep, LocatedStep,
   TurnBackStep, NotifiedStep DEF Types

LEMMA TypesHold == Spec => []Types
BY TypesInit, TypesStep, PTL DEF Spec

LEMMA TypesGiveTypeOK == Types => TypeOK
<1> SUFFICES ASSUME Types PROVE TypeOK
  OBVIOUS
<1>1. layout \in Layouts /\ spine \in 0 .. Spines /\ status \in Statuses /\ manual \in BOOLEAN
  BY DEF Types, CacheOK, PlaceOK, SavingOK
<1>2. cache \in [Chapters -> [layout : Layouts, pages : 0 .. Units]]
  <2>1. \A s \in Chapters : cache[s] \in [layout : Layouts, pages : Nat] /\ cache[s].pages <= Pages(cache[s].layout)
    BY DEF Types, CacheOK
  <2>2. \A s \in Chapters : cache[s] \in [layout : Layouts, pages : 0 .. Units]
    <3> TAKE s \in Chapters
    <3>1. /\ cache[s] \in [layout : Layouts, pages : Nat] /\ cache[s].layout \in Layouts
          /\ cache[s].pages \in Nat /\ cache[s].pages <= Pages(cache[s].layout)
      BY <2>1
    <3>2. Pages(cache[s].layout) \in Nat /\ Pages(cache[s].layout) <= Units /\ Units \in Nat
      BY <3>1, PagesOfLayout, ReaderAssumption
    <3>3. cache[s].pages \in 0 .. Units
      BY <3>1, <3>2
    <3>4. QED
      BY <3>1, <3>3
  <2>3. QED
    BY <2>2 DEF Types, CacheOK
<1>3. section # None => /\ section.spine \in Chapters /\ section.layout \in Layouts
                        /\ section.count \in 0 .. Pages(section.layout)
                        /\ section.built \in 0 .. Pages(section.layout)
  BY SectionRecord DEF Types, SectionInv, SectionOK
<1>4. pend.last \in BOOLEAN /\ pend.offset \in Maybe(0 .. Units) /\ pend.anchor \in Maybe(Anchors)
  BY DEF Types, PlaceOK, Pends, Maybe
<1>5. origin \in Seq([spine : 0 .. Spines, page : Nat \cup {-1}]) /\ Len(origin) <= MaxDepth
  <2> DEFINE S == [spine : Chapters, page : PageNumbers]
             T == [spine : 0 .. Spines, page : Nat \cup {-1}]
  <2>1. origin \in Seq(S) /\ Len(origin) <= MaxDepth
    BY DEF Types, OriginOK
  <2>2. S \subseteq T
    BY ReaderAssumption DEF Chapters, PageNumbers
  <2> HIDE DEF S, T
  <2>3. origin \in Seq(T)
    BY <2>1, <2>2
  <2>4. QED
    BY <2>1, <2>3 DEF T
<1>6. marks \subseteq {"torn", "turned", "lost", "overlap"}
  BY DEF Types, ControlOK
<1>7. QED
  BY <1>1, <1>2, <1>3, <1>4, <1>5, <1>6 DEF TypeOK

(* TypeOK: a section is of a chapter and a layout, and counts no more pages than that
   layout has, whatever the two tasks do to it and whichever step of them fails. *)
THEOREM ReaderTypeCorrect == Spec => []TypeOK
BY TypesHold, TypesGiveTypeOK, PTL

----------------------------------------------------------------------------
(* The main task never meets a null section. *)

(* The steps that use a section their test, without the lock, has found. *)
Uses == {"extend", "tick", "turnLock", "turnTest", "turnPage", "turnChapter", "skipPage", "persist"}
NullOK ==
    /\ faults = MaxFaults /\ mainPc \in Uses => section # None
    /\ mainPc = "panic" => faults < MaxFaults

LEMMA FaultCounted == ASSUME Types PROVE faults \in Int /\ MaxFaults \in Int /\ faults <= MaxFaults
BY ReaderAssumption DEF Types, ControlOK

(* No step takes away the section under a step that uses it. *)
LEMMA NullStep == Types /\ NullOK /\ [Next]_vars => NullOK'
<1> SUFFICES ASSUME Types, NullOK, [Next]_vars PROVE NullOK'
  OBVIOUS
<1>1. CASE Render
  <2>1. CASE RenderBegin
    <3>1. UNCHANGED <<mainPc, section, faults>>
      BY <2>1 DEF RenderBegin, mainVars, place, bounds
    <3>2. QED
      BY <3>1 DEF NullOK
  <2>2. CASE RenderOpen
    <3>1. UNCHANGED mainPc
      BY <2>2 DEF RenderOpen, RenderUnchanged, mainVars
    <3>2. (section' # None /\ faults' = faults) \/ faults' = faults - 1 \/ UNCHANGED <<section, faults>>
      BY <2>2, OpenEffect, FaultCounted DEF SameLayout, SameChapter, Failed, Restarted, RenderOpen, RenderUnchanged
    <3>3. QED
      BY <3>1, <3>2, FaultCounted DEF NullOK
  <2>3. CASE RenderBuild
    <3>1. /\ UNCHANGED mainPc /\ renderPc = "build" /\ section.building /\ BuildMore("build")
      BY <2>3 DEF RenderBuild, RenderUnchanged, mainVars
    <3>2. section # None
      BY <3>1 DEF Types, StepsOK
    <3>3. (section' # None /\ faults' = faults) \/ faults' = faults - 1
      BY <3>1, <3>2, BuildEffect, FaultCounted DEF Failed, Continued, SameChapter
    <3>4. QED
      BY <3>1, <3>2, <3>3, FaultCounted DEF NullOK
  <2>4. CASE RenderBuilt
    <3>1. UNCHANGED <<mainPc, section, faults>>
      BY <2>4 DEF RenderBuilt, mainVars, place, bounds
    <3>2. QED
      BY <3>1 DEF NullOK
  <2>5. CASE RenderPlace
    <3>1. UNCHANGED mainPc
      BY <2>5 DEF RenderPlace, RenderUnchanged, mainVars
    <3>2. (section' # None /\ faults' = faults) \/ faults' = faults - 1 \/ UNCHANGED <<section, faults>>
      BY <2>5, PlaceEffect, FaultCounted DEF SameLayout, SameChapter, Failed, Restarted, RenderPlace, RenderUnchanged
    <3>3. QED
      BY <3>1, <3>2, FaultCounted DEF NullOK
  <2>6. CASE RenderFitStart
    <3>1. UNCHANGED mainPc
      BY <2>6 DEF RenderFitStart, RenderUnchanged, mainVars
    <3>2. (section' # None /\ faults' = faults) \/ faults' = faults - 1 \/ UNCHANGED <<section, faults>>
      BY <2>6, FitStartEffect, FaultCounted DEF SameLayout, SameChapter, Failed, Restarted, RenderFitStart, RenderUnchanged
    <3>3. QED
      BY <3>1, <3>2, FaultCounted DEF NullOK
  <2>7. CASE RenderFitBuild
    <3>1. /\ UNCHANGED mainPc /\ renderPc = "fit" /\ section.building /\ BuildMore("fit")
      BY <2>7 DEF RenderFitBuild, RenderUnchanged, mainVars
    <3>2. section # None
      BY <3>1 DEF Types, StepsOK
    <3>3. (section' # None /\ faults' = faults) \/ faults' = faults - 1
      BY <3>1, <3>2, BuildEffect, FaultCounted DEF Failed, Continued, SameChapter
    <3>4. QED
      BY <3>1, <3>2, <3>3, FaultCounted DEF NullOK
  <2>8. CASE RenderFit
    <3>1. UNCHANGED mainPc
      BY <2>8 DEF RenderFit, RenderUnchanged, mainVars
    <3>2. (section' # None /\ faults' = faults) \/ faults' = faults - 1 \/ UNCHANGED <<section, faults>>
      BY <2>8, FitEffect, FaultCounted DEF SameLayout, SameChapter, Failed, Restarted, RenderFit, RenderUnchanged
    <3>3. QED
      BY <3>1, <3>2, FaultCounted DEF NullOK
  <2>9. CASE RenderShow
    <3>1. UNCHANGED mainPc
      BY <2>9 DEF RenderShow, RenderUnchanged, mainVars
    <3>2. (section' # None /\ faults' = faults) \/ faults' = faults - 1 \/ UNCHANGED <<section, faults>>
      BY <2>9, ShowEffect, FaultCounted DEF SameLayout, SameChapter, Failed, Restarted, RenderShow, RenderUnchanged
    <3>3. QED
      BY <3>1, <3>2, FaultCounted DEF NullOK
  <2>10. CASE RenderSave
    <3>1. UNCHANGED <<mainPc, section, faults>>
      BY <2>10 DEF RenderSave, mainVars, place, bounds
    <3>2. QED
      BY <3>1 DEF NullOK
  <2>11. CASE RenderWrite
    <3>1. UNCHANGED <<mainPc, section>> /\ (faults' = faults \/ faults' = faults - 1)
      BY <2>11 DEF RenderWrite, mainVars, place, Write, Fault
    <3>2. QED
      BY <3>1, FaultCounted DEF NullOK
  <2>12. QED
    BY <1>1, <2>1, <2>2, <2>3, <2>4, <2>5, <2>6, <2>7, <2>8, <2>9, <2>10, <2>11 DEF Render
<1>2. CASE Background
  <2>1. CASE ExtendTest
    <3>1. (mainPc' \in Uses => section # None) /\ UNCHANGED section /\ mainPc' # "panic"
      BY <2>1 DEF ExtendTest, place, bounds, ExtendDue, Uses
    <3>2. QED
      BY <3>1 DEF NullOK
  <2>2. CASE Extend
    <3>1. /\ mainPc \in Uses
          /\ \/ mainPc' = "loop"
             \/ mainPc' = "panic" /\ section = None /\ UNCHANGED faults
      BY <2>2 DEF Extend, Panic, bounds, Uses
    <3>2. QED
      BY <3>1, FaultCounted DEF NullOK, Uses
  <2>3. CASE TickTest
    <3>1. (mainPc' \in Uses => section # None) /\ UNCHANGED section /\ mainPc' # "panic"
      BY <2>3 DEF TickTest, place, bounds, Uses
    <3>2. QED
      BY <3>1 DEF NullOK
  <2>4. CASE Tick
    <3>1. /\ mainPc \in Uses
          /\ \/ mainPc' = "loop"
             \/ mainPc' = "panic" /\ section = None /\ UNCHANGED faults
      BY <2>4 DEF Tick, Panic, bounds, Uses
    <3>2. QED
      BY <3>1, FaultCounted DEF NullOK, Uses
  <2>5. QED
    BY <1>2, <2>1, <2>2, <2>3, <2>4 DEF Background
<1>3. CASE End
  <2>1. CASE EndTest
    <3>1. mainPc' \notin Uses \cup {"panic"}
      BY <2>1 DEF EndTest, Uses
    <3>2. QED
      BY <3>1 DEF NullOK
  <2>2. CASE EndSave
    <3>1. mainPc' \notin Uses \cup {"panic"}
      BY <2>2 DEF EndSave, Uses
    <3>2. QED
      BY <3>1 DEF NullOK
  <2>3. CASE EndPush
    <3>1. mainPc' \notin Uses \cup {"panic"}
      BY <2>3 DEF EndPush, Uses
    <3>2. QED
      BY <3>1 DEF NullOK
  <2>4. CASE EndReset
    <3>1. mainPc' \notin Uses \cup {"panic"}
      BY <2>4 DEF EndReset, Idle, mainVars, Uses
    <3>2. QED
      BY <3>1 DEF NullOK
  <2>5. CASE ReturnFromEnd
    <3>1. mainPc' \notin Uses \cup {"panic"}
      BY <2>5 DEF ReturnFromEnd, Uses
    <3>2. QED
      BY <3>1 DEF NullOK
  <2>6. QED
    BY <1>3, <2>1, <2>2, <2>3, <2>4, <2>5 DEF End
<1>4. CASE Turns
  <2>1. ASSUME NEW dir \in {-1, 1}, PressTurn(dir) PROVE NullOK'
    <3>1. (mainPc' \in Uses => section # None) /\ UNCHANGED section /\ mainPc' # "panic"
      BY <2>1 DEF PressTurn, place, Ready, Idle, Chosen, Uses
    <3>2. QED
      BY <3>1 DEF NullOK
  <2>2. CASE QueuedTurn
    <3>1. (mainPc' \in Uses => section # None) /\ UNCHANGED section /\ mainPc' # "panic"
      BY <2>2 DEF QueuedTurn, place, Ready, Idle, Chosen, bounds, Uses
    <3>2. QED
      BY <3>1 DEF NullOK
  <2>3. CASE TurnLock
    <3>1. mainPc = "turnLock" /\ mainPc' = "turnTest" /\ UNCHANGED <<section, faults>>
      BY <2>3 DEF TurnLock, bounds
    <3>2. QED
      BY <3>1 DEF NullOK, Uses
  <2>4. CASE TurnTest
    <3>1. /\ mainPc \in Uses /\ UNCHANGED <<section, faults>>
          /\ \/ section # None /\ mainPc' # "panic"
             \/ mainPc' = "panic" /\ section = None
      BY <2>4 DEF TurnTest, Panic, bounds, Uses
    <3>2. QED
      BY <3>1, FaultCounted DEF NullOK, Uses
  <2>5. CASE TurnPage
    <3>1. /\ mainPc \in Uses
          /\ \/ mainPc' = "loop"
             \/ mainPc' = "panic" /\ section = None /\ UNCHANGED faults
      BY <2>5 DEF TurnPage, Panic, bounds, Uses
    <3>2. QED
      BY <3>1, FaultCounted DEF NullOK, Uses
  <2>6. CASE TurnChapter
    <3>1. mainPc' \notin Uses \cup {"panic"}
      BY <2>6 DEF TurnChapter, ToChapter, Uses
    <3>2. QED
      BY <3>1 DEF NullOK
  <2>7. CASE SkipForward
    <3>1. mainPc' \notin Uses \cup {"panic"}
      BY <2>7 DEF SkipForward, Uses
    <3>2. QED
      BY <3>1 DEF NullOK
  <2>8. CASE SkipNext
    <3>1. mainPc' \notin Uses \cup {"panic"}
      BY <2>8 DEF SkipNext, ToChapter, Uses
    <3>2. QED
      BY <3>1 DEF NullOK
  <2>9. CASE SkipBack
    <3>1. (mainPc' \in Uses => section # None) /\ UNCHANGED section /\ mainPc' # "panic"
      BY <2>9 DEF SkipBack, place, Uses
    <3>2. QED
      BY <3>1 DEF NullOK
  <2>10. CASE SkipPage
    <3>1. /\ mainPc \in Uses
          /\ \/ mainPc' = "loop"
             \/ mainPc' = "panic" /\ section = None /\ UNCHANGED faults
      BY <2>10 DEF SkipPage, Panic, bounds, Uses
    <3>2. QED
      BY <3>1, FaultCounted DEF NullOK, Uses
  <2>11. CASE SkipChapter
    <3>1. mainPc' \notin Uses \cup {"panic"}
      BY <2>11 DEF SkipChapter, ToChapter, Uses
    <3>2. QED
      BY <3>1 DEF NullOK
  <2>12. QED
    BY <1>4, <2>1, <2>2, <2>3, <2>4, <2>5, <2>6, <2>7, <2>8, <2>9, <2>10, <2>11 DEF Turns
<1>5. CASE Menus
  <2>1. ASSUME NEW L \in Layouts, Relayout(L) PROVE NullOK'
    <3>1. mainPc' \notin Uses \cup {"panic"}
      BY <2>1 DEF Relayout, Ready, Idle, mainVars, Uses
    <3>2. QED
      BY <3>1 DEF NullOK
  <2>2. CASE OpenChapters
    <3>1. mainPc' \notin Uses \cup {"panic"}
      BY <2>2 DEF OpenChapters, Uses
    <3>2. QED
      BY <3>1 DEF NullOK
  <2>3. CASE CancelChapters
    <3>1. mainPc' \notin Uses \cup {"panic"}
      BY <2>3 DEF CancelChapters, Uses
    <3>2. QED
      BY <3>1 DEF NullOK
  <2>4. ASSUME NEW s \in Chapters, ChooseChapter(s) PROVE NullOK'
    <3>1. mainPc' \notin Uses \cup {"panic"}
      BY <2>4 DEF ChooseChapter, Uses
    <3>2. QED
      BY <3>1 DEF NullOK
  <2>5. ASSUME NEW s \in Chapters, NEW o \in Anchors, JumpToPercent(s, o) PROVE NullOK'
    <3>1. mainPc' \notin Uses \cup {"panic"}
      BY <2>5 DEF JumpToPercent, Ready, Idle, mainVars, Uses
    <3>2. QED
      BY <3>1 DEF NullOK
  <2>6. ASSUME NEW s \in Chapters, NEW o \in Anchors, Footnote(s, o) PROVE NullOK'
    <3>1. mainPc' \notin Uses \cup {"panic"}
      BY <2>6 DEF Footnote, Ready, Idle, mainVars, Uses
    <3>2. QED
      BY <3>1 DEF NullOK
  <2>7. ASSUME NEW s \in Chapters, NEW o \in Anchors, NEW L \in Layouts, GoToBookmark(s, o, L) PROVE NullOK'
    <3>1. mainPc' \notin Uses \cup {"panic"}
      BY <2>7 DEF GoToBookmark, Ready, Idle, mainVars, Uses
    <3>2. QED
      BY <3>1 DEF NullOK
  <2>8. CASE RestoreSavedPosition
    <3>1. mainPc' \notin Uses \cup {"panic"}
      BY <2>8 DEF RestoreSavedPosition, Ready, Idle, mainVars, Uses
    <3>2. QED
      BY <3>1 DEF NullOK
  <2>9. ASSUME NEW st \in ManualStatuses, SetStatus(st) PROVE NullOK'
    <3>1. (mainPc' \in Uses => section # None) /\ UNCHANGED section /\ mainPc' # "panic"
      BY <2>9 DEF SetStatus, place, Uses
    <3>2. QED
      BY <3>1 DEF NullOK
  <2>10. CASE Persist
    <3>1. /\ mainPc \in Uses
          /\ \/ mainPc' = "loop"
             \/ mainPc' = "panic" /\ section = None /\ UNCHANGED faults
      BY <2>10 DEF Persist, Panic, bounds, Uses
    <3>2. QED
      BY <3>1, FaultCounted DEF NullOK, Uses
  <2>11. CASE DeleteCache
    <3>1. mainPc' \notin Uses \cup {"panic"}
      BY <2>11 DEF DeleteCache, Closed, Uses
    <3>2. QED
      BY <3>1 DEF NullOK
  <2>12. QED
    BY <1>5, <2>1, <2>2, <2>3, <2>4, <2>5, <2>6, <2>7, <2>8, <2>9, <2>10, <2>11 DEF Menus
<1>6. CASE Sessions
  <2>1. CASE Leave
    <3>1. mainPc' \notin Uses \cup {"panic"}
      BY <2>1 DEF Leave, Closed, Uses
    <3>2. QED
      BY <3>1 DEF NullOK
  <2>2. CASE Reboot
    <3>1. mainPc' \notin Uses \cup {"panic"}
      BY <2>2 DEF Reboot, Closed, Uses
    <3>2. QED
      BY <3>1 DEF NullOK
  <2>3. ASSUME NEW L \in Layouts, Open(L) PROVE NullOK'
    <3>1. mainPc' \notin Uses \cup {"panic"}
      BY <2>3 DEF Open, Uses
    <3>2. QED
      BY <3>1 DEF NullOK
  <2>4. QED
    BY <1>6, <2>1, <2>2, <2>3 DEF Sessions
<1>7. CASE UNCHANGED vars
  BY <1>7 DEF NullOK, Uses, place, saving, mainVars, drawVars, history, bounds, rest, vars
<1>8. QED
  BY <1>1, <1>2, <1>3, <1>4, <1>5, <1>6, <1>7 DEF Next

(* NoNullSection: the main task tests the section without the lock and uses it later
   without a second test; unless the SD card failed it finds one. *)
THEOREM SectionThere == Spec => []NoNullSection
<1>1. Init => NullOK
  BY DEF Init, NullOK, Uses
<1>2. NullOK => NoNullSection
  BY DEF NullOK, NoNullSection
<1>3. QED
  BY <1>1, <1>2, TypesHold, NullStep, PTL DEF Spec

NoFault == faults = MaxFaults

(* A failure is counted, once. *)
LEMMA FaultsStep == Types /\ [Next]_vars => faults' = faults \/ faults' = faults - 1
<1> SUFFICES ASSUME Types, [Next]_vars PROVE faults' = faults \/ faults' = faults - 1
  OBVIOUS
<1>1. CASE Render
  <2>1. CASE RenderOpen
    BY <2>1 DEF RenderOpen, Fault, bounds
  <2>2. CASE RenderBuild
    BY <2>2 DEF RenderBuild, BuildMore, Fault, bounds
  <2>3. CASE RenderFitStart
    BY <2>3 DEF RenderFitStart, Fault, bounds
  <2>4. CASE RenderFitBuild
    BY <2>4 DEF RenderFitBuild, BuildMore, Fault, bounds
  <2>5. CASE RenderShow
    BY <2>5 DEF RenderShow, Fault, bounds
  <2>6. CASE RenderWrite
    BY <2>6 DEF RenderWrite, Write, Fault, bounds
  <2>7. CASE RenderBegin \/ RenderBuilt \/ RenderPlace \/ RenderFit \/ RenderSave
    BY <2>7 DEF RenderBegin, RenderBuilt, RenderPlace, RenderUnchanged, RenderFit,
      RenderSave, place, saving, mainVars, drawVars, history, bounds, rest, vars
  <2>8. QED
    BY <1>1, <2>1, <2>2, <2>3, <2>4, <2>5, <2>6, <2>7 DEF Render
<1>2. CASE Background
  <2>1. CASE Extend
    BY <2>1 DEF Extend, Fault, bounds
  <2>2. CASE Tick
    BY <2>2 DEF Tick, Fault, bounds
  <2>3. CASE ExtendTest \/ TickTest
    BY <2>3 DEF ExtendTest, TickTest, place, saving, mainVars, drawVars, history, bounds,
      rest, vars
  <2>4. QED
    BY <1>2, <2>1, <2>2, <2>3 DEF Background
<1>3. CASE End
  <2>1. CASE EndSave
    BY <2>1 DEF EndSave, Write, Fault, bounds
  <2>2. CASE EndTest \/ EndPush \/ EndReset \/ ReturnFromEnd
    BY <2>2 DEF EndTest, EndPush, EndReset, ReturnFromEnd, Somewhere, place, saving,
      mainVars, drawVars, history, bounds, rest, vars
  <2>3. QED
    BY <1>3, <2>1, <2>2 DEF End
<1>4. CASE Turns
  <2>1. CASE (\E dir \in {-1, 1} : PressTurn(dir)) \/ QueuedTurn \/ TurnLock \/ TurnTest \/
      TurnPage \/ TurnChapter \/ SkipForward \/ SkipNext \/ SkipBack \/ SkipPage \/
      SkipChapter
    BY <2>1 DEF PressTurn, Chosen, Ready, Idle, QueuedTurn, TurnLock, TurnTest, Panic,
      Somewhere, TurnPage, PageSet, TurnChapter, ToChapter, SkipForward, SkipNext, SkipBack,
      SkipPage, SkipChapter, place, saving, mainVars, drawVars, history, bounds, rest, vars
  <2>2. QED
    BY <1>4, <2>1 DEF Turns
<1>5. CASE Menus
  <2>1. CASE Persist
    BY <2>1 DEF Persist, Write, Fault, bounds
  <2>2. CASE DeleteCache
    BY <2>2 DEF DeleteCache, Write, Fault, bounds
  <2>3. CASE (\E L \in Layouts : Relayout(L)) \/ OpenChapters \/ CancelChapters \/
      (\E s \in Chapters : ChooseChapter(s)) \/
      (\E s \in Chapters, o \in Anchors : JumpToPercent(s, o)) \/
      (\E s \in Chapters, o \in Anchors : Footnote(s, o)) \/
      (\E s \in Chapters, o \in Anchors, L \in Layouts : GoToBookmark(s, o, L)) \/
      RestoreSavedPosition \/ (\E st \in ManualStatuses : SetStatus(st))
    BY <2>3 DEF Relayout, ResetSection, Somewhere, OpenChapters, CancelChapters,
      ChooseChapter, JumpToPercent, Footnote, GoToBookmark, RestoreSavedPosition, SetStatus,
      place, saving, mainVars, drawVars, history, bounds, rest, vars
  <2>4. QED
    BY <1>5, <2>1, <2>2, <2>3 DEF Menus
<1>6. CASE Sessions
  <2>1. CASE Leave
    BY <2>1 DEF Leave, Write, Fault, bounds
  <2>2. CASE Reboot \/ (\E L \in Layouts : Open(L))
    BY <2>2 DEF Reboot, Closed, Somewhere, Open, place, saving, mainVars, drawVars, history,
      bounds, rest, vars
  <2>3. QED
    BY <1>6, <2>1, <2>2 DEF Sessions
<1>7. CASE UNCHANGED vars
  BY <1>7 DEF place, saving, mainVars, drawVars, history, bounds, rest, vars
<1>8. QED
  BY <1>1, <1>2, <1>3, <1>4, <1>5, <1>6, <1>7 DEF Next

LEMMA NoFaultBefore == Types /\ [Next]_vars => (NoFault' => NoFault)
<1> SUFFICES ASSUME Types, [Next]_vars, NoFault' PROVE NoFault
  OBVIOUS
<1>1. faults' = faults \/ faults' = faults - 1
  BY FaultsStep
<1>2. QED
  BY <1>1, FaultCounted DEF NoFault

----------------------------------------------------------------------------
(* Nothing of a chapter is skipped. *)

DeferredUsed == section # None /\ section.partial => deferred.offset = None /\ deferred.total = 0
StartRetried == NoFault /\ startFailed /\ section # None => section.building \/ ~section.partial
TurnAlone    == NoFault /\ mainPc \in InTurn => renderPc \notin {"open", "build", "place"}
TurnDue ==
    NoFault /\ mainPc \in {"turnLock", "turnTest"} /\ section # None =>
        ~(section.partial /\ ~section.building /\ section.page + StartMargin >= section.count)
ExtendInside == NoFault /\ mainPc = "extend" => spine # Spines
WholeLeft ==
    NoFault /\ section # None /\ (spine = Spines \/ (mainPc = "turnChapter" /\ turn.dir > 0)) =>
        Whole(section)
SkipOK == DeferredUsed /\ StartRetried /\ TurnAlone /\ TurnDue /\ ExtendInside /\ WholeLeft
(* The place kept for a chapter is used when a partial layout of it is opened. *)
LEMMA DeferredStep == Types /\ DeferredUsed /\ [Next]_vars => DeferredUsed'
<1> SUFFICES ASSUME Types, DeferredUsed, [Next]_vars PROVE DeferredUsed'
  OBVIOUS
<1>0. /\ NoFault' => NoFault
     /\ faults \in Int /\ MaxFaults \in Int /\ faults <= MaxFaults
     /\ NoDeferred(deferred).offset = None /\ NoDeferred(deferred).total = 0
  BY NoFaultBefore, FaultCounted, NoDeferredOK DEF Types, PlaceOK
<1>1. CASE Render
  <2>1. CASE RenderBegin
    BY <2>1 DEF DeferredUsed, NoFault, RenderBegin, place, saving, mainVars, drawVars,
      history, bounds, rest, vars
  <2>2. CASE RenderOpen
    <3>1. UNCHANGED <<mainPc, turn, spine>> /\ renderPc = "open"
      BY <2>2 DEF RenderOpen, drawVars, mainVars, place, saving, history, bounds, rest
    <3>2. QED
      BY <1>0, <3>1, <2>2, OpenEffect DEF NoFault, DeferredUsed, SameLayout, SameChapter, Failed, Restarted, Continued
  <2>3. CASE RenderBuild
    <3>1. /\ UNCHANGED <<mainPc, turn, spine, deferred, startFailed>> /\ renderPc = "build"
          /\ section.building /\ BuildMore("build") /\ section # None
      BY <2>3 DEF RenderBuild, RenderUnchanged, drawVars, mainVars, place, saving, history, bounds, rest, Types, StepsOK
    <3>2. \/ Failed /\ renderPc' = "idle"
          \/ UNCHANGED faults /\ Continued(section', section) /\ renderPc' = "build"
      BY <3>1, BuildEffect
    <3>3. QED
      BY <1>0, <3>1, <3>2 DEF NoFault, DeferredUsed, SameLayout, SameChapter, Failed, Restarted, Continued
  <2>4. CASE RenderBuilt
    BY <2>4 DEF DeferredUsed, NoFault, RenderBuilt, place, saving, mainVars, drawVars,
      history, bounds, rest, vars
  <2>5. CASE RenderPlace
    <3>1. /\ UNCHANGED <<mainPc, turn, spine, startFailed, faults>> /\ renderPc = "place" /\ renderPc' = "fit"
          /\ deferred' \in {deferred, NoDeferred(deferred)}
      BY <2>5 DEF RenderPlace, RenderUnchanged, drawVars, mainVars, place, saving, history, bounds, rest
    <3>2. QED
      BY <1>0, <3>1, <2>5, PlaceEffect DEF NoFault, DeferredUsed, SameLayout, SameChapter, Failed, Restarted, Continued
  <2>6. CASE RenderFitStart
    <3>1. UNCHANGED <<mainPc, turn, spine, deferred, startFailed>> /\ renderPc = "fit"
      BY <2>6 DEF RenderFitStart, RenderUnchanged, drawVars, mainVars, place, saving, history, bounds, rest
    <3>2. QED
      BY <1>0, <3>1, <2>6, FitStartEffect DEF NoFault, DeferredUsed, SameLayout, SameChapter, Failed, Restarted, Continued
  <2>7. CASE RenderFitBuild
    <3>1. /\ UNCHANGED <<mainPc, turn, spine, deferred, startFailed>> /\ renderPc = "fit"
          /\ section.building /\ BuildMore("fit") /\ section # None
      BY <2>7 DEF RenderFitBuild, RenderUnchanged, drawVars, mainVars, place, saving, history, bounds, rest, Types, StepsOK
    <3>2. \/ Failed /\ renderPc' = "idle"
          \/ UNCHANGED faults /\ Continued(section', section) /\ renderPc' = "fit"
      BY <3>1, BuildEffect
    <3>3. QED
      BY <1>0, <3>1, <3>2 DEF NoFault, DeferredUsed, SameLayout, SameChapter, Failed, Restarted, Continued
  <2>8. CASE RenderFit
    <3>1. UNCHANGED <<mainPc, turn, spine, startFailed, faults>> /\ renderPc = "fit" /\ renderPc' = "show"
      BY <2>8 DEF RenderFit, RenderUnchanged, drawVars, mainVars, place, saving, history, bounds, rest
    <3>2. QED
      BY <1>0, <3>1, <2>8, FitEffect DEF NoFault, DeferredUsed, SameLayout, SameChapter, Failed, Restarted, Continued
  <2>9. CASE RenderShow
    <3>1. UNCHANGED <<mainPc, turn, spine, deferred, startFailed>> /\ renderPc = "show"
      BY <2>9 DEF RenderShow, drawVars, mainVars, place, saving, history, bounds, rest
    <3>2. QED
      BY <1>0, <3>1, <2>9, ShowEffect DEF NoFault, DeferredUsed, SameLayout, SameChapter, Failed, Restarted, Continued
  <2>10. CASE RenderSave
    BY <2>10 DEF DeferredUsed, NoFault, RenderSave, place, saving, mainVars, drawVars,
      history, bounds, rest, vars
  <2>11. CASE RenderWrite
    BY <2>11 DEF DeferredUsed, NoFault, RenderWrite, Write, Fault, place, saving, mainVars,
      drawVars, history, bounds, rest, vars
  <2>12. QED
    BY <1>1, <2>1, <2>2, <2>3, <2>4, <2>5, <2>6, <2>7, <2>8, <2>9, <2>10, <2>11 DEF Render
<1>2. CASE Background
  <2>1. CASE ExtendTest
    BY <2>1 DEF DeferredUsed, NoFault, ExtendTest, place, saving, mainVars, drawVars,
      history, bounds, rest, vars
  <2>2. CASE Extend
    <3>1. UNCHANGED <<spine, deferred, turn, renderPc>> /\ mainPc = "extend" /\ renderPc = "idle"
      BY <2>2 DEF Extend, LockFree, drawVars, mainVars, place, saving, history, bounds, rest
    <3>2. QED
      BY <1>0, <3>1, <2>2, ExtendEffect DEF NoFault, DeferredUsed, SameLayout, SameChapter, Failed, Restarted, Continued
  <2>3. CASE TickTest
    BY <2>3 DEF DeferredUsed, NoFault, TickTest, place, saving, mainVars, drawVars, history,
      bounds, rest, vars
  <2>4. CASE Tick
    <3>1. UNCHANGED <<spine, turn, startFailed, renderPc>> /\ mainPc = "tick" /\ renderPc = "idle"
      BY <2>4 DEF Tick, LockFree, drawVars, mainVars, place, saving, history, bounds, rest
    <3>2. QED
      BY <1>0, <3>1, <2>4, TickEffect DEF NoFault, DeferredUsed, SameLayout, SameChapter, Failed, Restarted, Continued
  <2>5. QED
    BY <1>2, <2>1, <2>2, <2>3, <2>4 DEF Background
<1>3. CASE End
  <2>1. CASE EndTest
    BY <2>1 DEF DeferredUsed, NoFault, EndTest, place, saving, mainVars, drawVars, history,
      bounds, rest, vars
  <2>2. CASE EndSave
    BY <2>2 DEF DeferredUsed, NoFault, EndSave, Write, Fault, place, saving, mainVars,
      drawVars, history, bounds, rest, vars
  <2>3. CASE EndPush
    BY <2>3 DEF DeferredUsed, NoFault, EndPush, place, saving, mainVars, drawVars, history,
      bounds, rest, vars
  <2>4. CASE EndReset
    BY <2>4 DEF DeferredUsed, NoFault, EndReset, place, saving, mainVars, drawVars, history,
      bounds, rest, vars
  <2>5. CASE ReturnFromEnd
    BY <2>5 DEF DeferredUsed, NoFault, ReturnFromEnd, Somewhere, place, saving, mainVars,
      drawVars, history, bounds, rest, vars
  <2>6. QED
    BY <1>3, <2>1, <2>2, <2>3, <2>4, <2>5 DEF End
<1>4. CASE Turns
  <2>1. ASSUME NEW dir \in {-1, 1}, PressTurn(dir) PROVE DeferredUsed'
    BY <2>1 DEF DeferredUsed, NoFault, PressTurn, Chosen, Ready, Idle, place, saving,
      mainVars, drawVars, history, bounds, rest, vars
  <2>2. CASE QueuedTurn
    BY <2>2 DEF DeferredUsed, NoFault, QueuedTurn, Chosen, Ready, Idle, place, saving,
      mainVars, drawVars, history, bounds, rest, vars
  <2>3. CASE TurnLock
    <3>1. deferred' = NoDeferred(deferred)
      BY <2>3 DEF TurnLock
    <3>2. QED
      BY <1>0, <3>1 DEF DeferredUsed
  <2>4. CASE TurnTest
    <3>1. UNCHANGED <<section, deferred>>
      BY <2>4 DEF TurnTest
    <3>2. QED
      BY <3>1 DEF DeferredUsed
  <2>5. CASE TurnPage
    <3>1. UNCHANGED <<spine, deferred, startFailed, renderPc, faults>> /\ mainPc = "turnPage"
      BY <2>5 DEF TurnPage, drawVars, mainVars, place, saving, history, bounds, rest
    <3>2. QED
      BY <1>0, <3>1, <2>5, TurnPageEffect DEF NoFault, DeferredUsed, SameLayout, SameChapter, Failed, Restarted, Continued
  <2>6. CASE TurnChapter
    BY <2>6 DEF DeferredUsed, NoFault, TurnChapter, ToChapter, Somewhere, place, saving,
      mainVars, drawVars, history, bounds, rest, vars
  <2>7. CASE SkipForward
    BY <2>7 DEF DeferredUsed, NoFault, SkipForward, place, saving, mainVars, drawVars,
      history, bounds, rest, vars
  <2>8. CASE SkipNext
    BY <2>8 DEF DeferredUsed, NoFault, SkipNext, ToChapter, Somewhere, place, saving,
      mainVars, drawVars, history, bounds, rest, vars
  <2>9. CASE SkipBack
    BY <2>9 DEF DeferredUsed, NoFault, SkipBack, place, saving, mainVars, drawVars, history,
      bounds, rest, vars
  <2>10. CASE SkipPage
    <3>1. UNCHANGED <<spine, deferred, startFailed, renderPc, faults>> /\ mainPc = "skipPage"
      BY <2>10 DEF SkipPage, drawVars, mainVars, place, saving, history, bounds, rest
    <3>2. QED
      BY <1>0, <3>1, <2>10, SkipPageEffect DEF NoFault, DeferredUsed, SameLayout, SameChapter, Failed, Restarted, Continued
  <2>11. CASE SkipChapter
    BY <2>11 DEF DeferredUsed, NoFault, SkipChapter, ToChapter, Somewhere, place, saving,
      mainVars, drawVars, history, bounds, rest, vars
  <2>12. QED
    BY <1>4, <2>1, <2>2, <2>3, <2>4, <2>5, <2>6, <2>7, <2>8, <2>9, <2>10, <2>11 DEF Turns
<1>5. CASE Menus
  <2>1. ASSUME NEW L \in Layouts, Relayout(L) PROVE DeferredUsed'
    BY <2>1 DEF DeferredUsed, NoFault, Relayout, ResetSection, Somewhere, place, saving,
      mainVars, drawVars, history, bounds, rest, vars
  <2>2. CASE OpenChapters
    BY <2>2 DEF DeferredUsed, NoFault, OpenChapters, ResetSection, place, saving, mainVars,
      drawVars, history, bounds, rest, vars
  <2>3. CASE CancelChapters
    BY <2>3 DEF DeferredUsed, NoFault, CancelChapters, place, saving, mainVars, drawVars,
      history, bounds, rest, vars
  <2>4. ASSUME NEW s \in Chapters, ChooseChapter(s) PROVE DeferredUsed'
    <3>1. section' = None
      BY <2>4 DEF ChooseChapter, Types, StepsOK
    <3>2. QED
      BY <3>1 DEF DeferredUsed
  <2>5. ASSUME NEW s \in Chapters, NEW o \in Anchors, JumpToPercent(s, o) PROVE DeferredUsed'
    BY <2>5 DEF DeferredUsed, NoFault, JumpToPercent, ResetSection, Somewhere, place,
      saving, mainVars, drawVars, history, bounds, rest, vars
  <2>6. ASSUME NEW s \in Chapters, NEW o \in Anchors, Footnote(s, o) PROVE DeferredUsed'
    BY <2>6 DEF DeferredUsed, NoFault, Footnote, ResetSection, Somewhere, place, saving,
      mainVars, drawVars, history, bounds, rest, vars
  <2>7. ASSUME NEW s \in Chapters, NEW o \in Anchors, NEW L \in Layouts, GoToBookmark(s, o, L) PROVE DeferredUsed'
    <3>1. deferred' = NoDeferred(deferred)
      BY <2>7 DEF GoToBookmark
    <3>2. QED
      BY <1>0, <3>1 DEF DeferredUsed
  <2>8. CASE RestoreSavedPosition
    BY <2>8 DEF DeferredUsed, NoFault, RestoreSavedPosition, ResetSection, Somewhere, place,
      saving, mainVars, drawVars, history, bounds, rest, vars
  <2>9. ASSUME NEW st \in ManualStatuses, SetStatus(st) PROVE DeferredUsed'
    BY <2>9 DEF DeferredUsed, NoFault, SetStatus, place, saving, mainVars, drawVars,
      history, bounds, rest, vars
  <2>10. CASE Persist
    BY <2>10 DEF DeferredUsed, NoFault, Persist, Panic, Write, Fault, place, saving,
      mainVars, drawVars, history, bounds, rest, vars
  <2>11. CASE DeleteCache
    BY <2>11 DEF DeferredUsed, NoFault, DeleteCache, Closed, Write, Fault, Somewhere, place,
      saving, mainVars, drawVars, history, bounds, rest, vars
  <2>12. QED
    BY <1>5, <2>1, <2>2, <2>3, <2>4, <2>5, <2>6, <2>7, <2>8, <2>9, <2>10, <2>11 DEF Menus
<1>6. CASE Sessions
  <2>1. CASE Leave
    BY <2>1 DEF DeferredUsed, NoFault, Leave, Closed, Write, Fault, Somewhere, place,
      saving, mainVars, drawVars, history, bounds, rest, vars
  <2>2. CASE Reboot
    BY <2>2 DEF DeferredUsed, NoFault, Reboot, Closed, Somewhere, place, saving, mainVars,
      drawVars, history, bounds, rest, vars
  <2>3. ASSUME NEW L \in Layouts, Open(L) PROVE DeferredUsed'
    <3>1. section' = None
      BY <2>3 DEF Open, Types, StepsOK
    <3>2. QED
      BY <3>1 DEF DeferredUsed
  <2>4. QED
    BY <1>6, <2>1, <2>2, <2>3 DEF Sessions
<1>7. CASE UNCHANGED vars
  BY <1>7 DEF DeferredUsed, NoFault, place, saving, mainVars, drawVars, history, bounds,
    rest, vars
<1>8. QED
  BY <1>1, <1>2, <1>3, <1>4, <1>5, <1>6, <1>7 DEF Next

(* A layout whose extension failed to start goes on, or is whole. *)
LEMMA StartStep == Types /\ StartRetried /\ [Next]_vars => StartRetried'
<1> SUFFICES ASSUME Types, StartRetried, [Next]_vars PROVE StartRetried'
  OBVIOUS
<1>0. /\ NoFault' => NoFault
     /\ faults \in Int /\ MaxFaults \in Int /\ faults <= MaxFaults
     /\ NoDeferred(deferred).offset = None /\ NoDeferred(deferred).total = 0
  BY NoFaultBefore, FaultCounted, NoDeferredOK DEF Types, PlaceOK
<1>1. CASE Render
  <2>1. CASE RenderBegin
    BY <2>1 DEF StartRetried, NoFault, RenderBegin, place, saving, mainVars, drawVars,
      history, bounds, rest, vars
  <2>2. CASE RenderOpen
    <3>1. UNCHANGED <<mainPc, turn, spine>> /\ renderPc = "open"
      BY <2>2 DEF RenderOpen, drawVars, mainVars, place, saving, history, bounds, rest
    <3>2. QED
      BY <1>0, <3>1, <2>2, OpenEffect DEF NoFault, StartRetried, SameLayout, SameChapter, Failed, Restarted, Continued
  <2>3. CASE RenderBuild
    <3>1. /\ UNCHANGED <<mainPc, turn, spine, deferred, startFailed>> /\ renderPc = "build"
          /\ section.building /\ BuildMore("build") /\ section # None
      BY <2>3 DEF RenderBuild, RenderUnchanged, drawVars, mainVars, place, saving, history, bounds, rest, Types, StepsOK
    <3>2. \/ Failed /\ renderPc' = "idle"
          \/ UNCHANGED faults /\ Continued(section', section) /\ renderPc' = "build"
      BY <3>1, BuildEffect
    <3>3. QED
      BY <1>0, <3>1, <3>2 DEF NoFault, StartRetried, SameLayout, SameChapter, Failed, Restarted, Continued
  <2>4. CASE RenderBuilt
    BY <2>4 DEF StartRetried, NoFault, RenderBuilt, place, saving, mainVars, drawVars,
      history, bounds, rest, vars
  <2>5. CASE RenderPlace
    <3>1. /\ UNCHANGED <<mainPc, turn, spine, startFailed, faults>> /\ renderPc = "place" /\ renderPc' = "fit"
          /\ deferred' \in {deferred, NoDeferred(deferred)}
      BY <2>5 DEF RenderPlace, RenderUnchanged, drawVars, mainVars, place, saving, history, bounds, rest
    <3>2. QED
      BY <1>0, <3>1, <2>5, PlaceEffect DEF NoFault, StartRetried, SameLayout, SameChapter, Failed, Restarted, Continued
  <2>6. CASE RenderFitStart
    <3>1. UNCHANGED <<mainPc, turn, spine, deferred, startFailed>> /\ renderPc = "fit"
      BY <2>6 DEF RenderFitStart, RenderUnchanged, drawVars, mainVars, place, saving, history, bounds, rest
    <3>2. QED
      BY <1>0, <3>1, <2>6, FitStartEffect DEF NoFault, StartRetried, SameLayout, SameChapter, Failed, Restarted, Continued
  <2>7. CASE RenderFitBuild
    <3>1. /\ UNCHANGED <<mainPc, turn, spine, deferred, startFailed>> /\ renderPc = "fit"
          /\ section.building /\ BuildMore("fit") /\ section # None
      BY <2>7 DEF RenderFitBuild, RenderUnchanged, drawVars, mainVars, place, saving, history, bounds, rest, Types, StepsOK
    <3>2. \/ Failed /\ renderPc' = "idle"
          \/ UNCHANGED faults /\ Continued(section', section) /\ renderPc' = "fit"
      BY <3>1, BuildEffect
    <3>3. QED
      BY <1>0, <3>1, <3>2 DEF NoFault, StartRetried, SameLayout, SameChapter, Failed, Restarted, Continued
  <2>8. CASE RenderFit
    <3>1. UNCHANGED <<mainPc, turn, spine, startFailed, faults>> /\ renderPc = "fit" /\ renderPc' = "show"
      BY <2>8 DEF RenderFit, RenderUnchanged, drawVars, mainVars, place, saving, history, bounds, rest
    <3>2. QED
      BY <1>0, <3>1, <2>8, FitEffect DEF NoFault, StartRetried, SameLayout, SameChapter, Failed, Restarted, Continued
  <2>9. CASE RenderShow
    <3>1. UNCHANGED <<mainPc, turn, spine, deferred, startFailed>> /\ renderPc = "show"
      BY <2>9 DEF RenderShow, drawVars, mainVars, place, saving, history, bounds, rest
    <3>2. QED
      BY <1>0, <3>1, <2>9, ShowEffect DEF NoFault, StartRetried, SameLayout, SameChapter, Failed, Restarted, Continued
  <2>10. CASE RenderSave
    BY <2>10 DEF StartRetried, NoFault, RenderSave, place, saving, mainVars, drawVars,
      history, bounds, rest, vars
  <2>11. CASE RenderWrite
    <3>1. UNCHANGED <<section, startFailed>>
      BY <2>11 DEF RenderWrite, rest, place
    <3>2. QED
      BY <1>0, <3>1 DEF NoFault, StartRetried
  <2>12. QED
    BY <1>1, <2>1, <2>2, <2>3, <2>4, <2>5, <2>6, <2>7, <2>8, <2>9, <2>10, <2>11 DEF Render
<1>2. CASE Background
  <2>1. CASE ExtendTest
    BY <2>1 DEF StartRetried, NoFault, ExtendTest, place, saving, mainVars, drawVars,
      history, bounds, rest, vars
  <2>2. CASE Extend
    <3>1. CASE section = None /\ UNCHANGED section
      BY <3>1 DEF StartRetried
    <3>2. CASE section # None /\ UNCHANGED <<section, faults>> /\ section.building
      BY <3>2 DEF StartRetried
    <3>3. CASE faults > 0 /\ faults' = faults - 1
      BY <1>0, <3>3 DEF StartRetried, NoFault
    <3>4. CASE Restarted(section', section)
      BY <3>4 DEF StartRetried, Restarted
    <3>5. QED
      BY <2>2, <3>1, <3>2, <3>3, <3>4, ExtendEffect
  <2>3. CASE TickTest
    BY <2>3 DEF StartRetried, NoFault, TickTest, place, saving, mainVars, drawVars, history,
      bounds, rest, vars
  <2>4. CASE Tick
    <3>1. UNCHANGED <<spine, turn, startFailed, renderPc>> /\ mainPc = "tick" /\ renderPc = "idle"
      BY <2>4 DEF Tick, LockFree, drawVars, mainVars, place, saving, history, bounds, rest
    <3>2. QED
      BY <1>0, <3>1, <2>4, TickEffect DEF NoFault, StartRetried, SameLayout, SameChapter, Failed, Restarted, Continued
  <2>5. QED
    BY <1>2, <2>1, <2>2, <2>3, <2>4 DEF Background
<1>3. CASE End
  <2>1. CASE EndTest
    BY <2>1 DEF StartRetried, NoFault, EndTest, place, saving, mainVars, drawVars, history,
      bounds, rest, vars
  <2>2. CASE EndSave
    <3>1. UNCHANGED <<section, startFailed>>
      BY <2>2 DEF EndSave, rest, place
    <3>2. QED
      BY <1>0, <3>1 DEF NoFault, StartRetried
  <2>3. CASE EndPush
    BY <2>3 DEF StartRetried, NoFault, EndPush, place, saving, mainVars, drawVars, history,
      bounds, rest, vars
  <2>4. CASE EndReset
    BY <2>4 DEF StartRetried, NoFault, EndReset, place, saving, mainVars, drawVars, history,
      bounds, rest, vars
  <2>5. CASE ReturnFromEnd
    BY <2>5 DEF StartRetried, NoFault, ReturnFromEnd, Somewhere, place, saving, mainVars,
      drawVars, history, bounds, rest, vars
  <2>6. QED
    BY <1>3, <2>1, <2>2, <2>3, <2>4, <2>5 DEF End
<1>4. CASE Turns
  <2>1. ASSUME NEW dir \in {-1, 1}, PressTurn(dir) PROVE StartRetried'
    BY <2>1 DEF StartRetried, NoFault, PressTurn, Chosen, Ready, Idle, place, saving,
      mainVars, drawVars, history, bounds, rest, vars
  <2>2. CASE QueuedTurn
    BY <2>2 DEF StartRetried, NoFault, QueuedTurn, Chosen, Ready, Idle, place, saving,
      mainVars, drawVars, history, bounds, rest, vars
  <2>3. CASE TurnLock
    BY <2>3 DEF StartRetried, NoFault, TurnLock, place, saving, mainVars, drawVars, history,
      bounds, rest, vars
  <2>4. CASE TurnTest
    <3>1. UNCHANGED <<section, startFailed, faults>>
      BY <2>4 DEF TurnTest, rest, bounds
    <3>2. QED
      BY <1>0, <3>1 DEF NoFault, StartRetried
  <2>5. CASE TurnPage
    <3>1. UNCHANGED <<spine, deferred, startFailed, renderPc, faults>> /\ mainPc = "turnPage"
      BY <2>5 DEF TurnPage, drawVars, mainVars, place, saving, history, bounds, rest
    <3>2. QED
      BY <1>0, <3>1, <2>5, TurnPageEffect DEF NoFault, StartRetried, SameLayout, SameChapter, Failed, Restarted, Continued
  <2>6. CASE TurnChapter
    BY <2>6 DEF StartRetried, NoFault, TurnChapter, ToChapter, Somewhere, place, saving,
      mainVars, drawVars, history, bounds, rest, vars
  <2>7. CASE SkipForward
    BY <2>7 DEF StartRetried, NoFault, SkipForward, place, saving, mainVars, drawVars,
      history, bounds, rest, vars
  <2>8. CASE SkipNext
    BY <2>8 DEF StartRetried, NoFault, SkipNext, ToChapter, Somewhere, place, saving,
      mainVars, drawVars, history, bounds, rest, vars
  <2>9. CASE SkipBack
    BY <2>9 DEF StartRetried, NoFault, SkipBack, place, saving, mainVars, drawVars, history,
      bounds, rest, vars
  <2>10. CASE SkipPage
    <3>1. UNCHANGED <<spine, deferred, startFailed, renderPc, faults>> /\ mainPc = "skipPage"
      BY <2>10 DEF SkipPage, drawVars, mainVars, place, saving, history, bounds, rest
    <3>2. QED
      BY <1>0, <3>1, <2>10, SkipPageEffect DEF NoFault, StartRetried, SameLayout, SameChapter, Failed, Restarted, Continued
  <2>11. CASE SkipChapter
    BY <2>11 DEF StartRetried, NoFault, SkipChapter, ToChapter, Somewhere, place, saving,
      mainVars, drawVars, history, bounds, rest, vars
  <2>12. QED
    BY <1>4, <2>1, <2>2, <2>3, <2>4, <2>5, <2>6, <2>7, <2>8, <2>9, <2>10, <2>11 DEF Turns
<1>5. CASE Menus
  <2>1. ASSUME NEW L \in Layouts, Relayout(L) PROVE StartRetried'
    BY <2>1 DEF StartRetried, NoFault, Relayout, ResetSection, Somewhere, place, saving,
      mainVars, drawVars, history, bounds, rest, vars
  <2>2. CASE OpenChapters
    BY <2>2 DEF StartRetried, NoFault, OpenChapters, ResetSection, place, saving, mainVars,
      drawVars, history, bounds, rest, vars
  <2>3. CASE CancelChapters
    BY <2>3 DEF StartRetried, NoFault, CancelChapters, place, saving, mainVars, drawVars,
      history, bounds, rest, vars
  <2>4. ASSUME NEW s \in Chapters, ChooseChapter(s) PROVE StartRetried'
    <3>1. section' = None
      BY <2>4 DEF ChooseChapter, Types, StepsOK
    <3>2. QED
      BY <3>1 DEF StartRetried
  <2>5. ASSUME NEW s \in Chapters, NEW o \in Anchors, JumpToPercent(s, o) PROVE StartRetried'
    BY <2>5 DEF StartRetried, NoFault, JumpToPercent, ResetSection, Somewhere, place,
      saving, mainVars, drawVars, history, bounds, rest, vars
  <2>6. ASSUME NEW s \in Chapters, NEW o \in Anchors, Footnote(s, o) PROVE StartRetried'
    BY <2>6 DEF StartRetried, NoFault, Footnote, ResetSection, Somewhere, place, saving,
      mainVars, drawVars, history, bounds, rest, vars
  <2>7. ASSUME NEW s \in Chapters, NEW o \in Anchors, NEW L \in Layouts, GoToBookmark(s, o, L) PROVE StartRetried'
    <3>1. UNCHANGED <<startFailed, faults>>
      BY <2>7 DEF GoToBookmark, rest
    <3>2. section' = None \/ (section # None /\ SameLayout(section', section))
      BY <2>7, BookmarkEffect
    <3>3. QED
      BY <1>0, <3>1, <3>2 DEF NoFault, StartRetried, SameLayout
  <2>8. CASE RestoreSavedPosition
    BY <2>8 DEF StartRetried, NoFault, RestoreSavedPosition, ResetSection, Somewhere, place,
      saving, mainVars, drawVars, history, bounds, rest, vars
  <2>9. ASSUME NEW st \in ManualStatuses, SetStatus(st) PROVE StartRetried'
    BY <2>9 DEF StartRetried, NoFault, SetStatus, place, saving, mainVars, drawVars,
      history, bounds, rest, vars
  <2>10. CASE Persist
    <3>1. UNCHANGED <<section, startFailed>>
      BY <2>10 DEF Persist, rest, place
    <3>2. QED
      BY <1>0, <3>1 DEF NoFault, StartRetried
  <2>11. CASE DeleteCache
    BY <2>11 DEF StartRetried, NoFault, DeleteCache, Closed, Write, Fault, Somewhere, place,
      saving, mainVars, drawVars, history, bounds, rest, vars
  <2>12. QED
    BY <1>5, <2>1, <2>2, <2>3, <2>4, <2>5, <2>6, <2>7, <2>8, <2>9, <2>10, <2>11 DEF Menus
<1>6. CASE Sessions
  <2>1. CASE Leave
    BY <2>1 DEF StartRetried, NoFault, Leave, Closed, Write, Fault, Somewhere, place,
      saving, mainVars, drawVars, history, bounds, rest, vars
  <2>2. CASE Reboot
    BY <2>2 DEF StartRetried, NoFault, Reboot, Closed, Somewhere, place, saving, mainVars,
      drawVars, history, bounds, rest, vars
  <2>3. ASSUME NEW L \in Layouts, Open(L) PROVE StartRetried'
    <3>1. section' = None
      BY <2>3 DEF Open, Types, StepsOK
    <3>2. QED
      BY <3>1 DEF StartRetried
  <2>4. QED
    BY <1>6, <2>1, <2>2, <2>3 DEF Sessions
<1>7. CASE UNCHANGED vars
  BY <1>7 DEF StartRetried, NoFault, place, saving, mainVars, drawVars, history, bounds,
    rest, vars
<1>8. QED
  BY <1>1, <1>2, <1>3, <1>4, <1>5, <1>6, <1>7 DEF Next

(* A turn starts when the render task is idle, and finds the section it drew. *)
LEMMA TurnAloneStep == Types /\ NullOK /\ TurnAlone /\ [Next]_vars => TurnAlone'
<1> SUFFICES ASSUME Types, NullOK, TurnAlone, [Next]_vars PROVE TurnAlone'
  OBVIOUS
<1>0. /\ NoFault' => NoFault
     /\ faults \in Int /\ MaxFaults \in Int /\ faults <= MaxFaults
     /\ NoDeferred(deferred).offset = None /\ NoDeferred(deferred).total = 0
  BY NoFaultBefore, FaultCounted, NoDeferredOK DEF Types, PlaceOK
<1>1. CASE Render
  <2>1. CASE RenderBegin
    <3>1. /\ UNCHANGED <<mainPc, section, faults>>
          /\ renderPc' \in {"idle", "fit"} \/ section = None
      BY <2>1 DEF RenderBegin, mainVars, place, bounds
    <3>2. NoFault /\ mainPc \in InTurn => section # None
      BY DEF NoFault, NullOK, Uses, InTurn
    <3>3. QED
      BY <1>0, <3>1, <3>2 DEF TurnAlone
  <2>2. CASE RenderOpen
    <3>1. UNCHANGED <<mainPc, turn, spine>> /\ renderPc = "open"
      BY <2>2 DEF RenderOpen, drawVars, mainVars, place, saving, history, bounds, rest
    <3>2. QED
      BY <1>0, <3>1, <2>2, OpenEffect DEF NoFault, TurnAlone, SameLayout, SameChapter, Failed, Restarted, Continued, InTurn, LockFree
  <2>3. CASE RenderBuild
    <3>1. /\ UNCHANGED <<mainPc, turn, spine, deferred, startFailed>> /\ renderPc = "build"
          /\ section.building /\ BuildMore("build") /\ section # None
      BY <2>3 DEF RenderBuild, RenderUnchanged, drawVars, mainVars, place, saving, history, bounds, rest, Types, StepsOK
    <3>2. \/ Failed /\ renderPc' = "idle"
          \/ UNCHANGED faults /\ Continued(section', section) /\ renderPc' = "build"
      BY <3>1, BuildEffect
    <3>3. QED
      BY <1>0, <3>1, <3>2 DEF NoFault, TurnAlone, SameLayout, SameChapter, Failed, Restarted, Continued, InTurn, LockFree
  <2>4. CASE RenderBuilt
    BY <2>4 DEF TurnAlone, NoFault, InTurn, LockFree, RenderBuilt, place, saving, mainVars,
      drawVars, history, bounds, rest, vars
  <2>5. CASE RenderPlace
    <3>1. /\ UNCHANGED <<mainPc, turn, spine, startFailed, faults>> /\ renderPc = "place" /\ renderPc' = "fit"
          /\ deferred' \in {deferred, NoDeferred(deferred)}
      BY <2>5 DEF RenderPlace, RenderUnchanged, drawVars, mainVars, place, saving, history, bounds, rest
    <3>2. QED
      BY <1>0, <3>1, <2>5, PlaceEffect DEF NoFault, TurnAlone, SameLayout, SameChapter, Failed, Restarted, Continued, InTurn, LockFree
  <2>6. CASE RenderFitStart
    <3>1. UNCHANGED <<mainPc, turn, spine, deferred, startFailed>> /\ renderPc = "fit"
      BY <2>6 DEF RenderFitStart, RenderUnchanged, drawVars, mainVars, place, saving, history, bounds, rest
    <3>2. QED
      BY <1>0, <3>1, <2>6, FitStartEffect DEF NoFault, TurnAlone, SameLayout, SameChapter, Failed, Restarted, Continued, InTurn, LockFree
  <2>7. CASE RenderFitBuild
    <3>1. /\ UNCHANGED <<mainPc, turn, spine, deferred, startFailed>> /\ renderPc = "fit"
          /\ section.building /\ BuildMore("fit") /\ section # None
      BY <2>7 DEF RenderFitBuild, RenderUnchanged, drawVars, mainVars, place, saving, history, bounds, rest, Types, StepsOK
    <3>2. \/ Failed /\ renderPc' = "idle"
          \/ UNCHANGED faults /\ Continued(section', section) /\ renderPc' = "fit"
      BY <3>1, BuildEffect
    <3>3. QED
      BY <1>0, <3>1, <3>2 DEF NoFault, TurnAlone, SameLayout, SameChapter, Failed, Restarted, Continued, InTurn, LockFree
  <2>8. CASE RenderFit
    <3>1. UNCHANGED <<mainPc, turn, spine, startFailed, faults>> /\ renderPc = "fit" /\ renderPc' = "show"
      BY <2>8 DEF RenderFit, RenderUnchanged, drawVars, mainVars, place, saving, history, bounds, rest
    <3>2. QED
      BY <1>0, <3>1, <2>8, FitEffect DEF NoFault, TurnAlone, SameLayout, SameChapter, Failed, Restarted, Continued, InTurn, LockFree
  <2>9. CASE RenderShow
    <3>1. renderPc' \in {"save", "idle"}
      BY <2>9 DEF RenderShow
    <3>2. QED
      BY <3>1 DEF TurnAlone
  <2>10. CASE RenderSave
    BY <2>10 DEF TurnAlone, NoFault, InTurn, LockFree, RenderSave, place, saving, mainVars,
      drawVars, history, bounds, rest, vars
  <2>11. CASE RenderWrite
    BY <2>11 DEF TurnAlone, NoFault, InTurn, LockFree, RenderWrite, Write, Fault, place,
      saving, mainVars, drawVars, history, bounds, rest, vars
  <2>12. QED
    BY <1>1, <2>1, <2>2, <2>3, <2>4, <2>5, <2>6, <2>7, <2>8, <2>9, <2>10, <2>11 DEF Render
<1>2. CASE Background
  <2>1. CASE ExtendTest
    <3>1. mainPc' \notin InTurn
      BY <2>1 DEF ExtendTest, InTurn
    <3>2. QED
      BY <3>1 DEF TurnAlone
  <2>2. CASE Extend
    <3>1. mainPc' \notin InTurn
      BY <2>2 DEF Extend, Panic, InTurn
    <3>2. QED
      BY <3>1 DEF TurnAlone
  <2>3. CASE TickTest
    <3>1. mainPc' \notin InTurn
      BY <2>3 DEF TickTest, InTurn
    <3>2. QED
      BY <3>1 DEF TurnAlone
  <2>4. CASE Tick
    <3>1. mainPc' \notin InTurn
      BY <2>4 DEF Tick, Panic, InTurn
    <3>2. QED
      BY <3>1 DEF TurnAlone
  <2>5. QED
    BY <1>2, <2>1, <2>2, <2>3, <2>4 DEF Background
<1>3. CASE End
  <2>1. CASE EndTest
    <3>1. mainPc' \notin InTurn
      BY <2>1 DEF EndTest, InTurn
    <3>2. QED
      BY <3>1 DEF TurnAlone
  <2>2. CASE EndSave
    <3>1. mainPc' \notin InTurn
      BY <2>2 DEF EndSave, InTurn
    <3>2. QED
      BY <3>1 DEF TurnAlone
  <2>3. CASE EndPush
    <3>1. mainPc' \notin InTurn
      BY <2>3 DEF EndPush, InTurn
    <3>2. QED
      BY <3>1 DEF TurnAlone
  <2>4. CASE EndReset
    <3>1. mainPc' \notin InTurn
      BY <2>4 DEF EndReset, Idle, mainVars, InTurn
    <3>2. QED
      BY <3>1 DEF TurnAlone
  <2>5. CASE ReturnFromEnd
    <3>1. mainPc' \notin InTurn
      BY <2>5 DEF ReturnFromEnd, InTurn
    <3>2. QED
      BY <3>1 DEF TurnAlone
  <2>6. QED
    BY <1>3, <2>1, <2>2, <2>3, <2>4, <2>5 DEF End
<1>4. CASE Turns
  <2>1. ASSUME NEW dir \in {-1, 1}, PressTurn(dir) PROVE TurnAlone'
    BY <2>1 DEF TurnAlone, NoFault, InTurn, LockFree, PressTurn, Chosen, Ready, Idle, place,
      saving, mainVars, drawVars, history, bounds, rest, vars
  <2>2. CASE QueuedTurn
    BY <2>2 DEF TurnAlone, NoFault, InTurn, LockFree, QueuedTurn, Chosen, Ready, Idle,
      place, saving, mainVars, drawVars, history, bounds, rest, vars
  <2>3. CASE TurnLock
    BY <2>3 DEF TurnAlone, NoFault, InTurn, LockFree, TurnLock, place, saving, mainVars,
      drawVars, history, bounds, rest, vars
  <2>4. CASE TurnTest
    <3>1. mainPc = "turnTest" /\ UNCHANGED renderPc
      BY <2>4 DEF TurnTest, drawVars
    <3>2. QED
      BY <1>0, <3>1 DEF TurnAlone, InTurn
  <2>5. CASE TurnPage
    <3>1. mainPc' \notin InTurn
      BY <2>5 DEF TurnPage, Panic, InTurn
    <3>2. QED
      BY <3>1 DEF TurnAlone
  <2>6. CASE TurnChapter
    <3>1. mainPc' \notin InTurn
      BY <2>6 DEF TurnChapter, ToChapter, InTurn
    <3>2. QED
      BY <3>1 DEF TurnAlone
  <2>7. CASE SkipForward
    <3>1. mainPc' \notin InTurn
      BY <2>7 DEF SkipForward, InTurn
    <3>2. QED
      BY <3>1 DEF TurnAlone
  <2>8. CASE SkipNext
    <3>1. mainPc' \notin InTurn
      BY <2>8 DEF SkipNext, ToChapter, InTurn
    <3>2. QED
      BY <3>1 DEF TurnAlone
  <2>9. CASE SkipBack
    <3>1. mainPc' \notin InTurn
      BY <2>9 DEF SkipBack, InTurn
    <3>2. QED
      BY <3>1 DEF TurnAlone
  <2>10. CASE SkipPage
    <3>1. mainPc' \notin InTurn
      BY <2>10 DEF SkipPage, Panic, InTurn
    <3>2. QED
      BY <3>1 DEF TurnAlone
  <2>11. CASE SkipChapter
    <3>1. mainPc' \notin InTurn
      BY <2>11 DEF SkipChapter, ToChapter, InTurn
    <3>2. QED
      BY <3>1 DEF TurnAlone
  <2>12. QED
    BY <1>4, <2>1, <2>2, <2>3, <2>4, <2>5, <2>6, <2>7, <2>8, <2>9, <2>10, <2>11 DEF Turns
<1>5. CASE Menus
  <2>1. ASSUME NEW L \in Layouts, Relayout(L) PROVE TurnAlone'
    <3>1. mainPc' \notin InTurn
      BY <2>1 DEF Relayout, Ready, Idle, mainVars, InTurn
    <3>2. QED
      BY <3>1 DEF TurnAlone
  <2>2. CASE OpenChapters
    <3>1. mainPc' \notin InTurn
      BY <2>2 DEF OpenChapters, InTurn
    <3>2. QED
      BY <3>1 DEF TurnAlone
  <2>3. CASE CancelChapters
    <3>1. mainPc' \notin InTurn
      BY <2>3 DEF CancelChapters, InTurn
    <3>2. QED
      BY <3>1 DEF TurnAlone
  <2>4. ASSUME NEW s \in Chapters, ChooseChapter(s) PROVE TurnAlone'
    <3>1. mainPc' \notin InTurn
      BY <2>4 DEF ChooseChapter, InTurn
    <3>2. QED
      BY <3>1 DEF TurnAlone
  <2>5. ASSUME NEW s \in Chapters, NEW o \in Anchors, JumpToPercent(s, o) PROVE TurnAlone'
    <3>1. mainPc' \notin InTurn
      BY <2>5 DEF JumpToPercent, Ready, Idle, mainVars, InTurn
    <3>2. QED
      BY <3>1 DEF TurnAlone
  <2>6. ASSUME NEW s \in Chapters, NEW o \in Anchors, Footnote(s, o) PROVE TurnAlone'
    <3>1. mainPc' \notin InTurn
      BY <2>6 DEF Footnote, Ready, Idle, mainVars, InTurn
    <3>2. QED
      BY <3>1 DEF TurnAlone
  <2>7. ASSUME NEW s \in Chapters, NEW o \in Anchors, NEW L \in Layouts, GoToBookmark(s, o, L) PROVE TurnAlone'
    <3>1. mainPc' \notin InTurn
      BY <2>7 DEF GoToBookmark, Ready, Idle, mainVars, InTurn
    <3>2. QED
      BY <3>1 DEF TurnAlone
  <2>8. CASE RestoreSavedPosition
    <3>1. mainPc' \notin InTurn
      BY <2>8 DEF RestoreSavedPosition, Ready, Idle, mainVars, InTurn
    <3>2. QED
      BY <3>1 DEF TurnAlone
  <2>9. ASSUME NEW st \in ManualStatuses, SetStatus(st) PROVE TurnAlone'
    <3>1. mainPc' \notin InTurn
      BY <2>9 DEF SetStatus, InTurn
    <3>2. QED
      BY <3>1 DEF TurnAlone
  <2>10. CASE Persist
    <3>1. mainPc' \notin InTurn
      BY <2>10 DEF Persist, Panic, InTurn
    <3>2. QED
      BY <3>1 DEF TurnAlone
  <2>11. CASE DeleteCache
    <3>1. mainPc' \notin InTurn
      BY <2>11 DEF DeleteCache, Closed, InTurn
    <3>2. QED
      BY <3>1 DEF TurnAlone
  <2>12. QED
    BY <1>5, <2>1, <2>2, <2>3, <2>4, <2>5, <2>6, <2>7, <2>8, <2>9, <2>10, <2>11 DEF Menus
<1>6. CASE Sessions
  <2>1. CASE Leave
    <3>1. mainPc' \notin InTurn
      BY <2>1 DEF Leave, Closed, InTurn
    <3>2. QED
      BY <3>1 DEF TurnAlone
  <2>2. CASE Reboot
    <3>1. mainPc' \notin InTurn
      BY <2>2 DEF Reboot, Closed, InTurn
    <3>2. QED
      BY <3>1 DEF TurnAlone
  <2>3. ASSUME NEW L \in Layouts, Open(L) PROVE TurnAlone'
    <3>1. mainPc' \notin InTurn
      BY <2>3 DEF Open, InTurn
    <3>2. QED
      BY <3>1 DEF TurnAlone
  <2>4. QED
    BY <1>6, <2>1, <2>2, <2>3 DEF Sessions
<1>7. CASE UNCHANGED vars
  BY <1>7 DEF TurnAlone, NoFault, InTurn, LockFree, place, saving, mainVars, drawVars,
    history, bounds, rest, vars
<1>8. QED
  BY <1>1, <1>2, <1>3, <1>4, <1>5, <1>6, <1>7 DEF Next

(* No turn is taken while the layout has to be extended. *)
LEMMA TurnDueStep == Types /\ NullOK /\ DeferredUsed /\ StartRetried /\ TurnAlone /\ TurnDue /\ [Next]_vars => TurnDue'
<1> SUFFICES ASSUME Types, NullOK, DeferredUsed, StartRetried, TurnAlone, TurnDue, [Next]_vars PROVE TurnDue'
  OBVIOUS
<1>0. /\ NoFault' => NoFault
     /\ faults \in Int /\ MaxFaults \in Int /\ faults <= MaxFaults
     /\ NoDeferred(deferred).offset = None /\ NoDeferred(deferred).total = 0
  BY NoFaultBefore, FaultCounted, NoDeferredOK DEF Types, PlaceOK
<1>1. CASE Render
  <2>1. CASE RenderBegin
    BY <2>1 DEF TurnDue, NoFault, RenderBegin, place, saving, mainVars, drawVars, history,
      bounds, rest, vars
  <2>2. CASE RenderOpen
    <3>1. UNCHANGED mainPc /\ renderPc = "open"
      BY <2>2 DEF RenderOpen, mainVars
    <3>2. QED
      BY <1>0, <3>1 DEF TurnDue, TurnAlone, InTurn
  <2>3. CASE RenderBuild
    <3>1. /\ UNCHANGED <<mainPc, turn, spine, deferred, startFailed>> /\ renderPc = "build"
          /\ section.building /\ BuildMore("build") /\ section # None
      BY <2>3 DEF RenderBuild, RenderUnchanged, drawVars, mainVars, place, saving, history, bounds, rest, Types, StepsOK
    <3>2. \/ Failed /\ renderPc' = "idle"
          \/ UNCHANGED faults /\ Continued(section', section) /\ renderPc' = "build"
      BY <3>1, BuildEffect
    <3>3. QED
      BY <1>0, <3>1, <3>2 DEF NoFault, TurnDue, SameLayout, SameChapter, Failed, Restarted, Continued
  <2>4. CASE RenderBuilt
    BY <2>4 DEF TurnDue, NoFault, RenderBuilt, place, saving, mainVars, drawVars, history,
      bounds, rest, vars
  <2>5. CASE RenderPlace
    <3>1. UNCHANGED mainPc /\ renderPc = "place"
      BY <2>5 DEF RenderPlace, RenderUnchanged, mainVars
    <3>2. QED
      BY <1>0, <3>1 DEF TurnDue, TurnAlone, InTurn
  <2>6. CASE RenderFitStart
    <3>1. UNCHANGED <<mainPc, turn, spine, deferred, startFailed>> /\ renderPc = "fit"
      BY <2>6 DEF RenderFitStart, RenderUnchanged, drawVars, mainVars, place, saving, history, bounds, rest
    <3>2. QED
      BY <1>0, <3>1, <2>6, FitStartEffect DEF NoFault, TurnDue, SameLayout, SameChapter, Failed, Restarted, Continued
  <2>7. CASE RenderFitBuild
    <3>1. /\ UNCHANGED <<mainPc, turn, spine, deferred, startFailed>> /\ renderPc = "fit"
          /\ section.building /\ BuildMore("fit") /\ section # None
      BY <2>7 DEF RenderFitBuild, RenderUnchanged, drawVars, mainVars, place, saving, history, bounds, rest, Types, StepsOK
    <3>2. \/ Failed /\ renderPc' = "idle"
          \/ UNCHANGED faults /\ Continued(section', section) /\ renderPc' = "fit"
      BY <3>1, BuildEffect
    <3>3. QED
      BY <1>0, <3>1, <3>2 DEF NoFault, TurnDue, SameLayout, SameChapter, Failed, Restarted, Continued
  <2>8. CASE RenderFit
    <3> SUFFICES ASSUME NoFault, mainPc \in {"turnLock", "turnTest"}, section # None,
                        section'.partial, ~section'.building, section'.page + StartMargin >= section'.count
                 PROVE  FALSE
      <4>1. UNCHANGED <<mainPc, faults>> /\ section # None
        BY <2>8, FitEffect DEF RenderFit, RenderUnchanged, mainVars
      <4>2. QED
        BY <4>1 DEF TurnDue, NoFault
    <3>1. section.partial /\ ~section.building /\ section'.count = section.count
      BY <2>8, FitEffect DEF SameLayout
    <3>2. deferred.offset = None /\ deferred.total = 0
      BY <3>1 DEF DeferredUsed
    <3>3. section'.page = section.page
      BY <2>8, <3>1, <3>2, FitEffect
    <3>4. QED
      BY <3>1, <3>3 DEF TurnDue
  <2>9. CASE RenderShow
    <3>1. UNCHANGED <<mainPc, turn, spine, deferred, startFailed>> /\ renderPc = "show"
      BY <2>9 DEF RenderShow, drawVars, mainVars, place, saving, history, bounds, rest
    <3>2. QED
      BY <1>0, <3>1, <2>9, ShowEffect DEF NoFault, TurnDue, SameLayout, SameChapter, Failed, Restarted, Continued
  <2>10. CASE RenderSave
    BY <2>10 DEF TurnDue, NoFault, RenderSave, place, saving, mainVars, drawVars, history,
      bounds, rest, vars
  <2>11. CASE RenderWrite
    <3>1. UNCHANGED <<mainPc, section>>
      BY <2>11 DEF RenderWrite, mainVars, place
    <3>2. QED
      BY <1>0, <3>1 DEF TurnDue
  <2>12. QED
    BY <1>1, <2>1, <2>2, <2>3, <2>4, <2>5, <2>6, <2>7, <2>8, <2>9, <2>10, <2>11 DEF Render
<1>2. CASE Background
  <2>1. CASE ExtendTest
    <3>1. mainPc' \notin {"turnLock", "turnTest"}
      BY <2>1 DEF ExtendTest
    <3>2. QED
      BY <3>1 DEF TurnDue
  <2>2. CASE Extend
    <3>1. mainPc' \notin {"turnLock", "turnTest"}
      BY <2>2 DEF Extend, Panic
    <3>2. QED
      BY <3>1 DEF TurnDue
  <2>3. CASE TickTest
    <3>1. mainPc' \notin {"turnLock", "turnTest"}
      BY <2>3 DEF TickTest
    <3>2. QED
      BY <3>1 DEF TurnDue
  <2>4. CASE Tick
    <3>1. mainPc' \notin {"turnLock", "turnTest"}
      BY <2>4 DEF Tick, Panic
    <3>2. QED
      BY <3>1 DEF TurnDue
  <2>5. QED
    BY <1>2, <2>1, <2>2, <2>3, <2>4 DEF Background
<1>3. CASE End
  <2>1. CASE EndTest
    <3>1. mainPc' \notin {"turnLock", "turnTest"}
      BY <2>1 DEF EndTest
    <3>2. QED
      BY <3>1 DEF TurnDue
  <2>2. CASE EndSave
    <3>1. mainPc' \notin {"turnLock", "turnTest"}
      BY <2>2 DEF EndSave
    <3>2. QED
      BY <3>1 DEF TurnDue
  <2>3. CASE EndPush
    <3>1. mainPc' \notin {"turnLock", "turnTest"}
      BY <2>3 DEF EndPush
    <3>2. QED
      BY <3>1 DEF TurnDue
  <2>4. CASE EndReset
    <3>1. mainPc' \notin {"turnLock", "turnTest"}
      BY <2>4 DEF EndReset, Idle, mainVars
    <3>2. QED
      BY <3>1 DEF TurnDue
  <2>5. CASE ReturnFromEnd
    <3>1. mainPc' \notin {"turnLock", "turnTest"}
      BY <2>5 DEF ReturnFromEnd
    <3>2. QED
      BY <3>1 DEF TurnDue
  <2>6. QED
    BY <1>3, <2>1, <2>2, <2>3, <2>4, <2>5 DEF End
<1>4. CASE Turns
  <2>1. ASSUME NEW dir \in {-1, 1}, PressTurn(dir) PROVE TurnDue'
    <3> SUFFICES ASSUME NoFault', mainPc' \in {"turnLock", "turnTest"}, section' # None
                 PROVE  ~(section'.partial /\ ~section'.building /\ section'.page + StartMargin >= section'.count)
      BY DEF TurnDue
    <3>1. UNCHANGED section /\ section # None /\ ~ExtendDue /\ NoFault
      BY <1>0, <2>1 DEF PressTurn, Ready, Idle, LockFree, place, drawVars, mainVars
    <3>2. startFailed => section.building \/ ~section.partial
      BY <3>1 DEF StartRetried
    <3>3. QED
      BY <3>1, <3>2 DEF ExtendDue
  <2>2. CASE QueuedTurn
    <3> SUFFICES ASSUME NoFault', mainPc' \in {"turnLock", "turnTest"}, section' # None
                 PROVE  ~(section'.partial /\ ~section'.building /\ section'.page + StartMargin >= section'.count)
      BY DEF TurnDue
    <3>1. UNCHANGED section /\ section # None /\ ~ExtendDue /\ NoFault
      BY <1>0, <2>2 DEF QueuedTurn, Ready, Idle, LockFree, place, drawVars, mainVars
    <3>2. startFailed => section.building \/ ~section.partial
      BY <3>1 DEF StartRetried
    <3>3. QED
      BY <3>1, <3>2 DEF ExtendDue
  <2>3. CASE TurnLock
    <3>1. mainPc = "turnLock" /\ UNCHANGED <<section, faults>>
      BY <2>3 DEF TurnLock, bounds
    <3>2. QED
      BY <1>0, <3>1 DEF TurnDue, NoFault
  <2>4. CASE TurnTest
    <3>1. mainPc' \notin {"turnLock", "turnTest"}
      BY <2>4 DEF TurnTest, Panic
    <3>2. QED
      BY <3>1 DEF TurnDue
  <2>5. CASE TurnPage
    <3>1. mainPc' \notin {"turnLock", "turnTest"}
      BY <2>5 DEF TurnPage, Panic
    <3>2. QED
      BY <3>1 DEF TurnDue
  <2>6. CASE TurnChapter
    <3>1. mainPc' \notin {"turnLock", "turnTest"}
      BY <2>6 DEF TurnChapter, ToChapter
    <3>2. QED
      BY <3>1 DEF TurnDue
  <2>7. CASE SkipForward
    <3>1. mainPc' \notin {"turnLock", "turnTest"}
      BY <2>7 DEF SkipForward
    <3>2. QED
      BY <3>1 DEF TurnDue
  <2>8. CASE SkipNext
    <3>1. mainPc' \notin {"turnLock", "turnTest"}
      BY <2>8 DEF SkipNext, ToChapter
    <3>2. QED
      BY <3>1 DEF TurnDue
  <2>9. CASE SkipBack
    <3>1. mainPc' \notin {"turnLock", "turnTest"}
      BY <2>9 DEF SkipBack
    <3>2. QED
      BY <3>1 DEF TurnDue
  <2>10. CASE SkipPage
    <3>1. mainPc' \notin {"turnLock", "turnTest"}
      BY <2>10 DEF SkipPage, Panic
    <3>2. QED
      BY <3>1 DEF TurnDue
  <2>11. CASE SkipChapter
    <3>1. mainPc' \notin {"turnLock", "turnTest"}
      BY <2>11 DEF SkipChapter, ToChapter
    <3>2. QED
      BY <3>1 DEF TurnDue
  <2>12. QED
    BY <1>4, <2>1, <2>2, <2>3, <2>4, <2>5, <2>6, <2>7, <2>8, <2>9, <2>10, <2>11 DEF Turns
<1>5. CASE Menus
  <2>1. ASSUME NEW L \in Layouts, Relayout(L) PROVE TurnDue'
    <3>1. mainPc' \notin {"turnLock", "turnTest"}
      BY <2>1 DEF Relayout, Ready, Idle, mainVars
    <3>2. QED
      BY <3>1 DEF TurnDue
  <2>2. CASE OpenChapters
    <3>1. mainPc' \notin {"turnLock", "turnTest"}
      BY <2>2 DEF OpenChapters
    <3>2. QED
      BY <3>1 DEF TurnDue
  <2>3. CASE CancelChapters
    <3>1. mainPc' \notin {"turnLock", "turnTest"}
      BY <2>3 DEF CancelChapters
    <3>2. QED
      BY <3>1 DEF TurnDue
  <2>4. ASSUME NEW s \in Chapters, ChooseChapter(s) PROVE TurnDue'
    <3>1. mainPc' \notin {"turnLock", "turnTest"}
      BY <2>4 DEF ChooseChapter
    <3>2. QED
      BY <3>1 DEF TurnDue
  <2>5. ASSUME NEW s \in Chapters, NEW o \in Anchors, JumpToPercent(s, o) PROVE TurnDue'
    <3>1. mainPc' \notin {"turnLock", "turnTest"}
      BY <2>5 DEF JumpToPercent, Ready, Idle, mainVars
    <3>2. QED
      BY <3>1 DEF TurnDue
  <2>6. ASSUME NEW s \in Chapters, NEW o \in Anchors, Footnote(s, o) PROVE TurnDue'
    <3>1. mainPc' \notin {"turnLock", "turnTest"}
      BY <2>6 DEF Footnote, Ready, Idle, mainVars
    <3>2. QED
      BY <3>1 DEF TurnDue
  <2>7. ASSUME NEW s \in Chapters, NEW o \in Anchors, NEW L \in Layouts, GoToBookmark(s, o, L) PROVE TurnDue'
    <3>1. mainPc' \notin {"turnLock", "turnTest"}
      BY <2>7 DEF GoToBookmark, Ready, Idle, mainVars
    <3>2. QED
      BY <3>1 DEF TurnDue
  <2>8. CASE RestoreSavedPosition
    <3>1. mainPc' \notin {"turnLock", "turnTest"}
      BY <2>8 DEF RestoreSavedPosition, Ready, Idle, mainVars
    <3>2. QED
      BY <3>1 DEF TurnDue
  <2>9. ASSUME NEW st \in ManualStatuses, SetStatus(st) PROVE TurnDue'
    <3>1. mainPc' \notin {"turnLock", "turnTest"}
      BY <2>9 DEF SetStatus
    <3>2. QED
      BY <3>1 DEF TurnDue
  <2>10. CASE Persist
    <3>1. mainPc' \notin {"turnLock", "turnTest"}
      BY <2>10 DEF Persist, Panic
    <3>2. QED
      BY <3>1 DEF TurnDue
  <2>11. CASE DeleteCache
    <3>1. mainPc' \notin {"turnLock", "turnTest"}
      BY <2>11 DEF DeleteCache, Closed
    <3>2. QED
      BY <3>1 DEF TurnDue
  <2>12. QED
    BY <1>5, <2>1, <2>2, <2>3, <2>4, <2>5, <2>6, <2>7, <2>8, <2>9, <2>10, <2>11 DEF Menus
<1>6. CASE Sessions
  <2>1. CASE Leave
    <3>1. mainPc' \notin {"turnLock", "turnTest"}
      BY <2>1 DEF Leave, Closed
    <3>2. QED
      BY <3>1 DEF TurnDue
  <2>2. CASE Reboot
    <3>1. mainPc' \notin {"turnLock", "turnTest"}
      BY <2>2 DEF Reboot, Closed
    <3>2. QED
      BY <3>1 DEF TurnDue
  <2>3. ASSUME NEW L \in Layouts, Open(L) PROVE TurnDue'
    <3>1. mainPc' \notin {"turnLock", "turnTest"}
      BY <2>3 DEF Open
    <3>2. QED
      BY <3>1 DEF TurnDue
  <2>4. QED
    BY <1>6, <2>1, <2>2, <2>3 DEF Sessions
<1>7. CASE UNCHANGED vars
  BY <1>7 DEF TurnDue, NoFault, place, saving, mainVars, drawVars, history, bounds, rest,
    vars
<1>8. QED
  BY <1>1, <1>2, <1>3, <1>4, <1>5, <1>6, <1>7 DEF Next

(* A layout is not extended once the book is read to its end. *)
LEMMA ExtendInsideStep == Types /\ WholeLeft /\ ExtendInside /\ [Next]_vars => ExtendInside'
<1> SUFFICES ASSUME Types, WholeLeft, ExtendInside, [Next]_vars PROVE ExtendInside'
  OBVIOUS
<1>0. /\ NoFault' => NoFault
     /\ faults \in Int /\ MaxFaults \in Int /\ faults <= MaxFaults
     /\ NoDeferred(deferred).offset = None /\ NoDeferred(deferred).total = 0
  BY NoFaultBefore, FaultCounted, NoDeferredOK DEF Types, PlaceOK
<1>1. CASE Render
  <2>1. CASE RenderBegin
    BY <2>1 DEF ExtendInside, NoFault, RenderBegin, place, saving, mainVars, drawVars,
      history, bounds, rest, vars
  <2>2. CASE RenderOpen
    <3>1. UNCHANGED <<mainPc, spine>>
      BY <2>2 DEF RenderOpen, RenderUnchanged, mainVars, place
    <3>2. QED
      BY <1>0, <3>1 DEF ExtendInside
  <2>3. CASE RenderBuild
    <3>1. UNCHANGED <<mainPc, spine>>
      BY <2>3 DEF RenderBuild, RenderUnchanged, mainVars, place
    <3>2. QED
      BY <1>0, <3>1 DEF ExtendInside
  <2>4. CASE RenderBuilt
    BY <2>4 DEF ExtendInside, NoFault, RenderBuilt, place, saving, mainVars, drawVars,
      history, bounds, rest, vars
  <2>5. CASE RenderPlace
    <3>1. UNCHANGED <<mainPc, spine>>
      BY <2>5 DEF RenderPlace, RenderUnchanged, mainVars, place
    <3>2. QED
      BY <1>0, <3>1 DEF ExtendInside
  <2>6. CASE RenderFitStart
    <3>1. UNCHANGED <<mainPc, spine>>
      BY <2>6 DEF RenderFitStart, RenderUnchanged, mainVars, place
    <3>2. QED
      BY <1>0, <3>1 DEF ExtendInside
  <2>7. CASE RenderFitBuild
    <3>1. UNCHANGED <<mainPc, spine>>
      BY <2>7 DEF RenderFitBuild, RenderUnchanged, mainVars, place
    <3>2. QED
      BY <1>0, <3>1 DEF ExtendInside
  <2>8. CASE RenderFit
    <3>1. UNCHANGED <<mainPc, spine>>
      BY <2>8 DEF RenderFit, RenderUnchanged, mainVars, place
    <3>2. QED
      BY <1>0, <3>1 DEF ExtendInside
  <2>9. CASE RenderShow
    <3>1. UNCHANGED <<mainPc, spine>>
      BY <2>9 DEF RenderShow, RenderUnchanged, mainVars, place
    <3>2. QED
      BY <1>0, <3>1 DEF ExtendInside
  <2>10. CASE RenderSave
    BY <2>10 DEF ExtendInside, NoFault, RenderSave, place, saving, mainVars, drawVars,
      history, bounds, rest, vars
  <2>11. CASE RenderWrite
    <3>1. UNCHANGED <<mainPc, spine>>
      BY <2>11 DEF RenderWrite, mainVars, place
    <3>2. QED
      BY <1>0, <3>1 DEF ExtendInside
  <2>12. QED
    BY <1>1, <2>1, <2>2, <2>3, <2>4, <2>5, <2>6, <2>7, <2>8, <2>9, <2>10, <2>11 DEF Render
<1>2. CASE Background
  <2>1. CASE ExtendTest
    <3>1. section # None /\ section.partial /\ UNCHANGED <<spine, faults>>
      BY <2>1 DEF ExtendTest, ExtendDue, place, bounds
    <3>2. QED
      BY <1>0, <3>1 DEF ExtendInside, WholeLeft, Whole
  <2>2. CASE Extend
    <3>1. mainPc' # "extend"
      BY <2>2 DEF Extend, Panic
    <3>2. QED
      BY <3>1 DEF ExtendInside
  <2>3. CASE TickTest
    <3>1. mainPc' # "extend"
      BY <2>3 DEF TickTest
    <3>2. QED
      BY <3>1 DEF ExtendInside
  <2>4. CASE Tick
    <3>1. mainPc' # "extend"
      BY <2>4 DEF Tick, Panic
    <3>2. QED
      BY <3>1 DEF ExtendInside
  <2>5. QED
    BY <1>2, <2>1, <2>2, <2>3, <2>4 DEF Background
<1>3. CASE End
  <2>1. CASE EndTest
    <3>1. mainPc' # "extend"
      BY <2>1 DEF EndTest
    <3>2. QED
      BY <3>1 DEF ExtendInside
  <2>2. CASE EndSave
    <3>1. mainPc' # "extend"
      BY <2>2 DEF EndSave
    <3>2. QED
      BY <3>1 DEF ExtendInside
  <2>3. CASE EndPush
    <3>1. mainPc' # "extend"
      BY <2>3 DEF EndPush
    <3>2. QED
      BY <3>1 DEF ExtendInside
  <2>4. CASE EndReset
    <3>1. mainPc' # "extend"
      BY <2>4 DEF EndReset, Idle, mainVars
    <3>2. QED
      BY <3>1 DEF ExtendInside
  <2>5. CASE ReturnFromEnd
    <3>1. mainPc' # "extend"
      BY <2>5 DEF ReturnFromEnd
    <3>2. QED
      BY <3>1 DEF ExtendInside
  <2>6. QED
    BY <1>3, <2>1, <2>2, <2>3, <2>4, <2>5 DEF End
<1>4. CASE Turns
  <2>1. ASSUME NEW dir \in {-1, 1}, PressTurn(dir) PROVE ExtendInside'
    <3>1. mainPc' # "extend"
      BY <2>1 DEF PressTurn, Ready, Idle, Chosen
    <3>2. QED
      BY <3>1 DEF ExtendInside
  <2>2. CASE QueuedTurn
    <3>1. mainPc' # "extend"
      BY <2>2 DEF QueuedTurn, Ready, Idle, Chosen
    <3>2. QED
      BY <3>1 DEF ExtendInside
  <2>3. CASE TurnLock
    <3>1. mainPc' # "extend"
      BY <2>3 DEF TurnLock
    <3>2. QED
      BY <3>1 DEF ExtendInside
  <2>4. CASE TurnTest
    <3>1. mainPc' # "extend"
      BY <2>4 DEF TurnTest, Panic
    <3>2. QED
      BY <3>1 DEF ExtendInside
  <2>5. CASE TurnPage
    <3>1. mainPc' # "extend"
      BY <2>5 DEF TurnPage, Panic
    <3>2. QED
      BY <3>1 DEF ExtendInside
  <2>6. CASE TurnChapter
    <3>1. mainPc' # "extend"
      BY <2>6 DEF TurnChapter, ToChapter
    <3>2. QED
      BY <3>1 DEF ExtendInside
  <2>7. CASE SkipForward
    <3>1. mainPc' # "extend"
      BY <2>7 DEF SkipForward
    <3>2. QED
      BY <3>1 DEF ExtendInside
  <2>8. CASE SkipNext
    <3>1. mainPc' # "extend"
      BY <2>8 DEF SkipNext, ToChapter
    <3>2. QED
      BY <3>1 DEF ExtendInside
  <2>9. CASE SkipBack
    <3>1. mainPc' # "extend"
      BY <2>9 DEF SkipBack
    <3>2. QED
      BY <3>1 DEF ExtendInside
  <2>10. CASE SkipPage
    <3>1. mainPc' # "extend"
      BY <2>10 DEF SkipPage, Panic
    <3>2. QED
      BY <3>1 DEF ExtendInside
  <2>11. CASE SkipChapter
    <3>1. mainPc' # "extend"
      BY <2>11 DEF SkipChapter, ToChapter
    <3>2. QED
      BY <3>1 DEF ExtendInside
  <2>12. QED
    BY <1>4, <2>1, <2>2, <2>3, <2>4, <2>5, <2>6, <2>7, <2>8, <2>9, <2>10, <2>11 DEF Turns
<1>5. CASE Menus
  <2>1. ASSUME NEW L \in Layouts, Relayout(L) PROVE ExtendInside'
    <3>1. mainPc' # "extend"
      BY <2>1 DEF Relayout, Ready, Idle, mainVars
    <3>2. QED
      BY <3>1 DEF ExtendInside
  <2>2. CASE OpenChapters
    <3>1. mainPc' # "extend"
      BY <2>2 DEF OpenChapters
    <3>2. QED
      BY <3>1 DEF ExtendInside
  <2>3. CASE CancelChapters
    <3>1. mainPc' # "extend"
      BY <2>3 DEF CancelChapters
    <3>2. QED
      BY <3>1 DEF ExtendInside
  <2>4. ASSUME NEW s \in Chapters, ChooseChapter(s) PROVE ExtendInside'
    <3>1. mainPc' # "extend"
      BY <2>4 DEF ChooseChapter
    <3>2. QED
      BY <3>1 DEF ExtendInside
  <2>5. ASSUME NEW s \in Chapters, NEW o \in Anchors, JumpToPercent(s, o) PROVE ExtendInside'
    <3>1. mainPc' # "extend"
      BY <2>5 DEF JumpToPercent, Ready, Idle, mainVars
    <3>2. QED
      BY <3>1 DEF ExtendInside
  <2>6. ASSUME NEW s \in Chapters, NEW o \in Anchors, Footnote(s, o) PROVE ExtendInside'
    <3>1. mainPc' # "extend"
      BY <2>6 DEF Footnote, Ready, Idle, mainVars
    <3>2. QED
      BY <3>1 DEF ExtendInside
  <2>7. ASSUME NEW s \in Chapters, NEW o \in Anchors, NEW L \in Layouts, GoToBookmark(s, o, L) PROVE ExtendInside'
    <3>1. mainPc' # "extend"
      BY <2>7 DEF GoToBookmark, Ready, Idle, mainVars
    <3>2. QED
      BY <3>1 DEF ExtendInside
  <2>8. CASE RestoreSavedPosition
    <3>1. mainPc' # "extend"
      BY <2>8 DEF RestoreSavedPosition, Ready, Idle, mainVars
    <3>2. QED
      BY <3>1 DEF ExtendInside
  <2>9. ASSUME NEW st \in ManualStatuses, SetStatus(st) PROVE ExtendInside'
    <3>1. mainPc' # "extend"
      BY <2>9 DEF SetStatus
    <3>2. QED
      BY <3>1 DEF ExtendInside
  <2>10. CASE Persist
    <3>1. mainPc' # "extend"
      BY <2>10 DEF Persist, Panic
    <3>2. QED
      BY <3>1 DEF ExtendInside
  <2>11. CASE DeleteCache
    <3>1. mainPc' # "extend"
      BY <2>11 DEF DeleteCache, Closed
    <3>2. QED
      BY <3>1 DEF ExtendInside
  <2>12. QED
    BY <1>5, <2>1, <2>2, <2>3, <2>4, <2>5, <2>6, <2>7, <2>8, <2>9, <2>10, <2>11 DEF Menus
<1>6. CASE Sessions
  <2>1. CASE Leave
    <3>1. mainPc' # "extend"
      BY <2>1 DEF Leave, Closed
    <3>2. QED
      BY <3>1 DEF ExtendInside
  <2>2. CASE Reboot
    <3>1. mainPc' # "extend"
      BY <2>2 DEF Reboot, Closed
    <3>2. QED
      BY <3>1 DEF ExtendInside
  <2>3. ASSUME NEW L \in Layouts, Open(L) PROVE ExtendInside'
    <3>1. mainPc' # "extend"
      BY <2>3 DEF Open
    <3>2. QED
      BY <3>1 DEF ExtendInside
  <2>4. QED
    BY <1>6, <2>1, <2>2, <2>3 DEF Sessions
<1>7. CASE UNCHANGED vars
  BY <1>7 DEF ExtendInside, NoFault, place, saving, mainVars, drawVars, history, bounds,
    rest, vars
<1>8. QED
  BY <1>1, <1>2, <1>3, <1>4, <1>5, <1>6, <1>7 DEF Next

(* A chapter is left, and the book ended, from a layout that is whole. *)
LEMMA WholeLeftStep == Types /\ TurnDue /\ TurnAlone /\ ExtendInside /\ WholeLeft /\ [Next]_vars => WholeLeft'
<1> SUFFICES ASSUME Types, TurnDue, TurnAlone, ExtendInside, WholeLeft, [Next]_vars PROVE WholeLeft'
  OBVIOUS
<1>0. /\ NoFault' => NoFault
     /\ faults \in Int /\ MaxFaults \in Int /\ faults <= MaxFaults
     /\ NoDeferred(deferred).offset = None /\ NoDeferred(deferred).total = 0
  BY NoFaultBefore, FaultCounted, NoDeferredOK DEF Types, PlaceOK
<1>1. CASE Render
  <2>1. CASE RenderBegin
    BY <2>1 DEF WholeLeft, NoFault, Whole, RenderBegin, place, saving, mainVars, drawVars,
      history, bounds, rest, vars
  <2>2. CASE RenderOpen
    <3>1. UNCHANGED <<mainPc, spine>> /\ renderPc = "open" /\ spine # Spines
      BY <2>2, ReaderAssumption DEF RenderOpen, mainVars, Types, StepsOK
    <3>2. QED
      BY <1>0, <3>1 DEF WholeLeft, TurnAlone, InTurn
  <2>3. CASE RenderBuild
    <3>1. /\ UNCHANGED <<mainPc, turn, spine, deferred, startFailed>> /\ renderPc = "build"
          /\ section.building /\ BuildMore("build") /\ section # None
      BY <2>3 DEF RenderBuild, RenderUnchanged, drawVars, mainVars, place, saving, history, bounds, rest, Types, StepsOK
    <3>2. \/ Failed /\ renderPc' = "idle"
          \/ UNCHANGED faults /\ Continued(section', section) /\ renderPc' = "build"
      BY <3>1, BuildEffect
    <3>3. QED
      BY <1>0, <3>1, <3>2 DEF NoFault, WholeLeft, SameLayout, SameChapter, Failed, Restarted, Continued, Whole
  <2>4. CASE RenderBuilt
    BY <2>4 DEF WholeLeft, NoFault, Whole, RenderBuilt, place, saving, mainVars, drawVars,
      history, bounds, rest, vars
  <2>5. CASE RenderPlace
    <3>1. /\ UNCHANGED <<mainPc, turn, spine, startFailed, faults>> /\ renderPc = "place" /\ renderPc' = "fit"
          /\ deferred' \in {deferred, NoDeferred(deferred)}
      BY <2>5 DEF RenderPlace, RenderUnchanged, drawVars, mainVars, place, saving, history, bounds, rest
    <3>2. QED
      BY <1>0, <3>1, <2>5, PlaceEffect DEF NoFault, WholeLeft, SameLayout, SameChapter, Failed, Restarted, Continued, Whole
  <2>6. CASE RenderFitStart
    <3>1. UNCHANGED <<mainPc, turn, spine>>
      BY <2>6 DEF RenderFitStart, RenderUnchanged, mainVars
    <3>2. section # None /\ section.partial /\ ~section.building
      BY <2>6, FitStartEffect
    <3>3. QED
      BY <1>0, <3>1, <3>2 DEF WholeLeft, Whole
  <2>7. CASE RenderFitBuild
    <3>1. /\ UNCHANGED <<mainPc, turn, spine, deferred, startFailed>> /\ renderPc = "fit"
          /\ section.building /\ BuildMore("fit") /\ section # None
      BY <2>7 DEF RenderFitBuild, RenderUnchanged, drawVars, mainVars, place, saving, history, bounds, rest, Types, StepsOK
    <3>2. \/ Failed /\ renderPc' = "idle"
          \/ UNCHANGED faults /\ Continued(section', section) /\ renderPc' = "fit"
      BY <3>1, BuildEffect
    <3>3. QED
      BY <1>0, <3>1, <3>2 DEF NoFault, WholeLeft, SameLayout, SameChapter, Failed, Restarted, Continued, Whole
  <2>8. CASE RenderFit
    <3>1. UNCHANGED <<mainPc, turn, spine, startFailed, faults>> /\ renderPc = "fit" /\ renderPc' = "show"
      BY <2>8 DEF RenderFit, RenderUnchanged, drawVars, mainVars, place, saving, history, bounds, rest
    <3>2. QED
      BY <1>0, <3>1, <2>8, FitEffect DEF NoFault, WholeLeft, SameLayout, SameChapter, Failed, Restarted, Continued, Whole
  <2>9. CASE RenderShow
    <3>1. UNCHANGED <<mainPc, turn, spine, deferred, startFailed>> /\ renderPc = "show"
      BY <2>9 DEF RenderShow, drawVars, mainVars, place, saving, history, bounds, rest
    <3>2. QED
      BY <1>0, <3>1, <2>9, ShowEffect DEF NoFault, WholeLeft, SameLayout, SameChapter, Failed, Restarted, Continued, Whole
  <2>10. CASE RenderSave
    BY <2>10 DEF WholeLeft, NoFault, Whole, RenderSave, place, saving, mainVars, drawVars,
      history, bounds, rest, vars
  <2>11. CASE RenderWrite
    <3>1. UNCHANGED <<mainPc, section, spine, turn>>
      BY <2>11 DEF RenderWrite, mainVars, place
    <3>2. QED
      BY <1>0, <3>1 DEF WholeLeft
  <2>12. QED
    BY <1>1, <2>1, <2>2, <2>3, <2>4, <2>5, <2>6, <2>7, <2>8, <2>9, <2>10, <2>11 DEF Render
<1>2. CASE Background
  <2>1. CASE ExtendTest
    <3>1. UNCHANGED <<section, spine>> /\ mainPc' # "turnChapter"
      BY <2>1 DEF ExtendTest, place
    <3>2. QED
      BY <1>0, <3>1 DEF WholeLeft
  <2>2. CASE Extend
    <3>1. UNCHANGED spine /\ mainPc = "extend" /\ mainPc' # "turnChapter"
      BY <2>2 DEF Extend, Panic
    <3>2. QED
      BY <1>0, <3>1 DEF WholeLeft, ExtendInside
  <2>3. CASE TickTest
    <3>1. UNCHANGED <<section, spine>> /\ mainPc' # "turnChapter"
      BY <2>3 DEF TickTest, place
    <3>2. QED
      BY <1>0, <3>1 DEF WholeLeft
  <2>4. CASE Tick
    <3>1. UNCHANGED <<spine, turn, startFailed, renderPc>> /\ mainPc = "tick" /\ renderPc = "idle"
      BY <2>4 DEF Tick, LockFree, drawVars, mainVars, place, saving, history, bounds, rest
    <3>2. QED
      BY <1>0, <3>1, <2>4, TickEffect DEF NoFault, WholeLeft, SameLayout, SameChapter, Failed, Restarted, Continued, Whole
  <2>5. QED
    BY <1>2, <2>1, <2>2, <2>3, <2>4 DEF Background
<1>3. CASE End
  <2>1. CASE EndTest
    <3>1. UNCHANGED <<section, spine>> /\ mainPc' # "turnChapter"
      BY <2>1 DEF EndTest, place
    <3>2. QED
      BY <1>0, <3>1 DEF WholeLeft
  <2>2. CASE EndSave
    <3>1. UNCHANGED <<section, spine>> /\ mainPc' # "turnChapter"
      BY <2>2 DEF EndSave, place
    <3>2. QED
      BY <1>0, <3>1 DEF WholeLeft
  <2>3. CASE EndPush
    <3>1. UNCHANGED <<section, spine>> /\ mainPc' # "turnChapter"
      BY <2>3 DEF EndPush, place
    <3>2. QED
      BY <1>0, <3>1 DEF WholeLeft
  <2>4. CASE EndReset
    <3>1. UNCHANGED <<section, spine>> /\ mainPc' # "turnChapter"
      BY <2>4 DEF EndReset, Idle, mainVars, place
    <3>2. QED
      BY <1>0, <3>1 DEF WholeLeft
  <2>5. CASE ReturnFromEnd
    <3>1. mainPc' = "loop" /\ spine' = Spines - 1
      BY <2>5 DEF ReturnFromEnd
    <3>2. QED
      BY <3>1, ReaderAssumption DEF WholeLeft
  <2>6. QED
    BY <1>3, <2>1, <2>2, <2>3, <2>4, <2>5 DEF End
<1>4. CASE Turns
  <2>1. ASSUME NEW dir \in {-1, 1}, PressTurn(dir) PROVE WholeLeft'
    <3>1. UNCHANGED <<section, spine>> /\ mainPc' # "turnChapter"
      BY <2>1 DEF PressTurn, Ready, Idle, Chosen, place
    <3>2. QED
      BY <1>0, <3>1 DEF WholeLeft
  <2>2. CASE QueuedTurn
    <3>1. UNCHANGED <<section, spine>> /\ mainPc' # "turnChapter"
      BY <2>2 DEF QueuedTurn, Ready, Idle, Chosen, place
    <3>2. QED
      BY <1>0, <3>1 DEF WholeLeft
  <2>3. CASE TurnLock
    <3>1. UNCHANGED <<section, spine>> /\ mainPc' # "turnChapter"
      BY <2>3 DEF TurnLock, place
    <3>2. QED
      BY <1>0, <3>1 DEF WholeLeft
  <2>4. CASE TurnTest
    <3> SUFFICES ASSUME NoFault', section' # None, spine' = Spines \/ (mainPc' = "turnChapter" /\ turn'.dir > 0)
                 PROVE  Whole(section')
      BY DEF WholeLeft
    <3>1. /\ UNCHANGED section /\ section # None /\ turn' = [turn EXCEPT !.page = section.page]
          /\ mainPc = "turnTest" /\ NoFault
      BY <1>0, <2>4 DEF TurnTest, Panic
    <3>2. /\ turn \in TurnsDue /\ SectionOK(section) /\ section.page \in Int /\ section.count \in Int
          /\ StartMargin \in Int /\ StartMargin > 0
      BY <3>1, SectionRecord, ReaderAssumption DEF Types, ControlOK, InTurn, SectionInv
    <3>3. turn'.dir = turn.dir
      BY <3>1, <3>2 DEF TurnsDue
    <3>4. CASE spine = Spines
      BY <3>1, <3>4 DEF WholeLeft
    <3>5. CASE spine # Spines
      <4>1. ~PagesAhead
        BY <2>4, <3>1, <3>3, <3>5 DEF TurnTest, Panic
      <4>2. ~section.building /\ section.page + StartMargin >= section.count
        BY <4>1, <3>2 DEF PagesAhead
      <4>3. ~section.partial
        BY <3>1, <4>2 DEF TurnDue
      <4>4. QED
        BY <3>1, <4>2, <4>3 DEF Whole
    <3>6. QED
      BY <3>4, <3>5
  <2>5. CASE TurnPage
    <3>1. UNCHANGED <<spine, deferred, startFailed, renderPc, faults>> /\ mainPc = "turnPage"
      BY <2>5 DEF TurnPage, drawVars, mainVars, place, saving, history, bounds, rest
    <3>2. QED
      BY <1>0, <3>1, <2>5, TurnPageEffect DEF NoFault, WholeLeft, SameLayout, SameChapter, Failed, Restarted, Continued, Whole
  <2>6. CASE TurnChapter
    <3>1. section' = None
      BY <2>6 DEF TurnChapter, ToChapter
    <3>2. QED
      BY <3>1 DEF WholeLeft
  <2>7. CASE SkipForward
    <3>1. UNCHANGED <<section, spine>> /\ mainPc' # "turnChapter"
      BY <2>7 DEF SkipForward, place
    <3>2. QED
      BY <1>0, <3>1 DEF WholeLeft
  <2>8. CASE SkipNext
    <3>1. section' = None
      BY <2>8 DEF SkipNext, ToChapter
    <3>2. QED
      BY <3>1 DEF WholeLeft
  <2>9. CASE SkipBack
    <3>1. UNCHANGED <<section, spine>> /\ mainPc' # "turnChapter"
      BY <2>9 DEF SkipBack, place
    <3>2. QED
      BY <1>0, <3>1 DEF WholeLeft
  <2>10. CASE SkipPage
    <3>1. UNCHANGED <<spine, deferred, startFailed, renderPc, faults>> /\ mainPc = "skipPage"
      BY <2>10 DEF SkipPage, drawVars, mainVars, place, saving, history, bounds, rest
    <3>2. QED
      BY <1>0, <3>1, <2>10, SkipPageEffect DEF NoFault, WholeLeft, SameLayout, SameChapter, Failed, Restarted, Continued, Whole
  <2>11. CASE SkipChapter
    <3>1. section' = None
      BY <2>11 DEF SkipChapter, ToChapter
    <3>2. QED
      BY <3>1 DEF WholeLeft
  <2>12. QED
    BY <1>4, <2>1, <2>2, <2>3, <2>4, <2>5, <2>6, <2>7, <2>8, <2>9, <2>10, <2>11 DEF Turns
<1>5. CASE Menus
  <2>1. ASSUME NEW L \in Layouts, Relayout(L) PROVE WholeLeft'
    <3>1. section' = None
      BY <2>1 DEF Relayout, ResetSection
    <3>2. QED
      BY <3>1 DEF WholeLeft
  <2>2. CASE OpenChapters
    <3>1. section' = None
      BY <2>2 DEF OpenChapters, ResetSection
    <3>2. QED
      BY <3>1 DEF WholeLeft
  <2>3. CASE CancelChapters
    <3>1. UNCHANGED <<section, spine>> /\ mainPc' # "turnChapter"
      BY <2>3 DEF CancelChapters, place
    <3>2. QED
      BY <1>0, <3>1 DEF WholeLeft
  <2>4. ASSUME NEW s \in Chapters, ChooseChapter(s) PROVE WholeLeft'
    <3>1. section' = None
      BY <2>4 DEF ChooseChapter, Types, StepsOK
    <3>2. QED
      BY <3>1 DEF WholeLeft
  <2>5. ASSUME NEW s \in Chapters, NEW o \in Anchors, JumpToPercent(s, o) PROVE WholeLeft'
    <3>1. section' = None
      BY <2>5 DEF JumpToPercent, ResetSection
    <3>2. QED
      BY <3>1 DEF WholeLeft
  <2>6. ASSUME NEW s \in Chapters, NEW o \in Anchors, Footnote(s, o) PROVE WholeLeft'
    <3>1. section' = None
      BY <2>6 DEF Footnote, ResetSection
    <3>2. QED
      BY <3>1 DEF WholeLeft
  <2>7. ASSUME NEW s \in Chapters, NEW o \in Anchors, NEW L \in Layouts, GoToBookmark(s, o, L) PROVE WholeLeft'
    <3>1. mainPc' = "loop" /\ UNCHANGED faults
      BY <2>7 DEF GoToBookmark, Ready, Idle
    <3>2. section' = None \/ (section # None /\ SameLayout(section', section) /\ spine' = spine)
      BY <2>7, BookmarkEffect
    <3>3. QED
      BY <1>0, <3>1, <3>2 DEF WholeLeft, SameLayout, Whole
  <2>8. CASE RestoreSavedPosition
    <3>1. section' = None
      BY <2>8 DEF RestoreSavedPosition, ResetSection
    <3>2. QED
      BY <3>1 DEF WholeLeft
  <2>9. ASSUME NEW st \in ManualStatuses, SetStatus(st) PROVE WholeLeft'
    <3>1. UNCHANGED <<section, spine>> /\ mainPc' # "turnChapter"
      BY <2>9 DEF SetStatus, place
    <3>2. QED
      BY <1>0, <3>1 DEF WholeLeft
  <2>10. CASE Persist
    <3>1. UNCHANGED <<section, spine>> /\ mainPc' # "turnChapter"
      BY <2>10 DEF Persist, Panic, place
    <3>2. QED
      BY <1>0, <3>1 DEF WholeLeft
  <2>11. CASE DeleteCache
    <3>1. section' = None
      BY <2>11 DEF DeleteCache, Closed
    <3>2. QED
      BY <3>1 DEF WholeLeft
  <2>12. QED
    BY <1>5, <2>1, <2>2, <2>3, <2>4, <2>5, <2>6, <2>7, <2>8, <2>9, <2>10, <2>11 DEF Menus
<1>6. CASE Sessions
  <2>1. CASE Leave
    <3>1. section' = None
      BY <2>1 DEF Leave, Closed
    <3>2. QED
      BY <3>1 DEF WholeLeft
  <2>2. CASE Reboot
    <3>1. section' = None
      BY <2>2 DEF Reboot, Closed
    <3>2. QED
      BY <3>1 DEF WholeLeft
  <2>3. ASSUME NEW L \in Layouts, Open(L) PROVE WholeLeft'
    <3>1. section' = None
      BY <2>3 DEF Open, Types, StepsOK
    <3>2. QED
      BY <3>1 DEF WholeLeft
  <2>4. QED
    BY <1>6, <2>1, <2>2, <2>3 DEF Sessions
<1>7. CASE UNCHANGED vars
  BY <1>7 DEF WholeLeft, NoFault, Whole, place, saving, mainVars, drawVars, history, bounds,
    rest, vars
<1>8. QED
  BY <1>1, <1>2, <1>3, <1>4, <1>5, <1>6, <1>7 DEF Next

LEMMA SkipInit == Init => SkipOK
BY ReaderAssumption DEF Init, SkipOK, DeferredUsed, StartRetried, TurnAlone, TurnDue, ExtendInside,
   WholeLeft, InTurn

LEMMA SkipStep == Types /\ NullOK /\ SkipOK /\ [Next]_vars => SkipOK'
BY DeferredStep, StartStep, TurnAloneStep, TurnDueStep, ExtendInsideStep, WholeLeftStep DEF SkipOK

LEMMA SkipHolds == Spec => [](Types /\ NullOK /\ SkipOK)
<1>1. Init => NullOK
  BY DEF Init, NullOK, Uses
<1>2. QED
  BY <1>1, TypesHold, NullStep, SkipInit, SkipStep, PTL DEF Spec

(* NothingSkipped: a forward turn leaves a chapter, or ends the book, from the last page
   of its text, never from the last page that happens to be laid out, unless the SD card
   failed: the partial layout it would have been taken from is extended first. *)
THEOREM NoTextSkipped == Spec => []NothingSkipped
<1>1. Types /\ SkipOK => NothingSkipped
  <2>1. Types => faults = MaxFaults \/ faults < MaxFaults
    BY FaultCounted
  <2>2. QED
    BY <2>1 DEF SkipOK, WholeLeft, NothingSkipped, NoFault
<1>2. QED
  BY <1>1, SkipHolds, PTL

=============================================================================
