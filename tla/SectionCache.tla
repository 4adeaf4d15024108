---------------------------- MODULE SectionCache ----------------------------
(***************************************************************************)
(* src/lib/Epub/Epub/Section.{h,cpp}: the cache of the laid-out pages of   *)
(* one chapter on the SD card, as EpubReaderActivity drives it: load it,   *)
(* lay out more pages in the background, suspend the build into a partial  *)
(* file when the chapter is closed, finalize it when all pages are there.  *)
(*                                                                         *)
(*   filePath    sections/<spine>.bin, what the next opening loads         *)
(*   binTmp      sections/<spine>.bin.part, what a build writes            *)
(*   htmlPath    html/<spine>.html, the chapter unzipped                   *)
(*   tmpHtmlPath html/.tmp_<spine>.html, the chapter being unzipped        *)
(*                                                                         *)
(* All of it runs under the RenderLock, so nothing interleaves but a reset *)
(* of the device, which may come between any two file operations. A layout *)
(* is deterministic: page p of the chapter in a layout is always the same. *)
(***************************************************************************)
EXTENDS Naturals

CONSTANTS
    Specs,      \* layouts (ReaderRenderSpec)
    Pages,      \* pages of the chapter in a layout
    NoFile,     \* the file does not exist
    Faults      \* what may go wrong with the card or the heap

(* open: a file cannot be opened for reading; stream: unzipping fails; create: no
   .part file, or no memory for the build; page: writing a page fails where the code
   looks; cut: it comes short where the code does not look (writePod(), writeString()
   of counts, tags, text styles, rules, images and links); tables: so does writing the
   page tables; rename, remove: these fail; parse: the HTML cannot be parsed; read: a page
   cannot be read back. *)
AllFaults ==
    {"open", "stream", "create", "page", "cut", "tables", "rename", "remove", "parse", "read"}

ASSUME PagesAssumption == Pages \in [Specs -> Nat]
ASSUME FaultsAssumption == Faults \subseteq AllFaults

VARIABLES
    filePath, binTmp, htmlPath, tmpHtmlPath,      \* on the card
    pc,                 \* progress of the reader's calls; "closed": no Section object
    spec,               \* layout the object was opened with
    partial_, partialPageCount_, pageCount,
    laid,               \* build_->lut.size()
    bad,                \* pages whose entry in build_->lut is 0
    cut,                \* pages with an entry, of which a part was not written
    builtPageCount_,
    reusedHtml,         \* build_->reusedHtml
    committing,         \* version commitBuildFile() was called with
    crashed             \* history: a reset may have left temporary files behind

diskVars   == <<filePath, binTmp, htmlPath, tmpHtmlPath>>
objectVars == <<spec, partial_, partialPageCount_, pageCount>>
buildVars  == <<laid, bad, cut, builtPageCount_, reusedHtml, committing>>
vars == <<diskVars, pc, objectVars, buildVars, crashed>>

Versions == {"incomplete", "partial", "final"}
PageNumbers == UNION {0..Pages[s] : s \in Specs}

(* A .bin file: its version byte and layout parameters, the pages its tables list,
   those of them that were not written and those written in part, the page count of
   its header, and whether the tables were written in full. *)
Files == [version : Versions, spec : Specs, laid : Nat, bad : SUBSET Nat, cut : SUBSET Nat,
          count : Nat, tables : {"none", "short", "whole"}]

ASSUME NoFileAssumption ==
    NoFile \notin Files \cup [spec : Specs, pages : Nat, complete : BOOLEAN]
                       \cup [spec : Specs, pages : Nat, base : Nat]

BuildPcs  == {"building", "tables", "stamp", "swap", "rename"}
ObjectPcs == BuildPcs \cup {"open", "needsBuild", "inflating", "creating"}

TypeOK ==
    /\ filePath \in Files \cup {NoFile}
    /\ binTmp \in Files \cup {NoFile}
    /\ htmlPath \in {"none", "torn", "whole"}
    /\ tmpHtmlPath \in {"none", "torn", "whole"}
    /\ pc \in ObjectPcs \cup {"closed"}
    /\ spec \in Specs
    /\ partial_ \in BOOLEAN
    /\ partialPageCount_ \in Nat /\ pageCount \in Nat
    /\ laid \in Nat /\ builtPageCount_ \in Nat
    /\ bad \in SUBSET Nat /\ cut \in SUBSET Nat
    /\ reusedHtml \in BOOLEAN
    /\ committing \in {"none", "partial", "final"}
    /\ crashed \in BOOLEAN

Init ==
    /\ filePath = NoFile /\ binTmp = NoFile
    /\ htmlPath = "none" /\ tmpHtmlPath = "none"
    /\ pc = "closed" /\ spec \in Specs
    /\ partial_ = FALSE /\ partialPageCount_ = 0 /\ pageCount = 0
    /\ laid = 0 /\ bad = {} /\ cut = {} /\ builtPageCount_ = 0
    /\ reusedHtml = FALSE /\ committing = "none"
    /\ crashed = FALSE

-----------------------------------------------------------------------------
(* Helpers. *)

Larger(m, n) == IF m > n THEN m ELSE n

(* What a file or path may be after an attempt to remove it; gone says that it is. *)
MayRemain(f, gone) == {gone} \cup (IF "remove" \in Faults THEN {f} ELSE {})

(* Removing filePath. Section's temporary files can always be removed. *)
RemoveFilePath == filePath' \in MayRemain(filePath, NoFile)

(* The temporary HTML is the build's to clean up only when it was not promoted. *)
DropTmpHtml == tmpHtmlPath' = IF reusedHtml THEN tmpHtmlPath ELSE "none"

ResetBuild ==
    /\ laid' = 0 /\ bad' = {} /\ cut' = {} /\ builtPageCount_' = 0
    /\ reusedHtml' = FALSE /\ committing' = "none"

(* section.reset() of a section that builds nothing (any more). *)
Destroyed ==
    /\ pc' = "closed"
    /\ partial_' = FALSE /\ partialPageCount_' = 0 /\ pageCount' = 0
    /\ ResetBuild
    /\ UNCHANGED <<spec, crashed>>

(* build_, of which the .part file is the pages written so far. *)
Building == pc \in BuildPcs

(* loadPageAt() finds page p of the layout in the file at filePath. *)
OnDisk(p) ==
    /\ filePath # NoFile
    /\ filePath.spec = spec /\ filePath.tables = "whole"
    /\ p < filePath.laid /\ p \notin filePath.bad

(* loadPage() finds page p: of the running build once it has come that far, else of
   the file. *)
Found(p) ==
    IF Building /\ p < laid
    THEN p \notin bad
    ELSE /\ p < (IF partial_ THEN partialPageCount_ ELSE IF Building THEN 0 ELSE pageCount)
         /\ OnDisk(p)

(* What it finds lacks a part: Page::deserialize() fails, or makes another page of it. *)
CutShort(p) ==
    Found(p) /\ p \in (IF Building /\ p < laid THEN cut ELSE filePath.cut)

(* loadPage() returns page p as it was laid out. *)
Readable(p) == Found(p) /\ ~CutShort(p)

-----------------------------------------------------------------------------
(* loadSectionFile() of a new Section. *)

Malformed(f) == f.version = "partial" /\ (f.count = 0 \/ f.tables # "whole")

(* Mutant: the trailer of a partial file is not looked at. *)
AnyLoads(f, s) == f.version \in {"partial", "final"} /\ f.spec = s

Loads(f, s) == f.version \in {"partial", "final"} /\ f.spec = s /\ ~Malformed(f)

OpenCached(s) ==
    /\ pc = "closed"
    /\ filePath # NoFile /\ Loads(filePath, s)
    /\ spec' = s
    /\ pageCount' = filePath.count
    /\ partial_' = (filePath.version = "partial")
    /\ partialPageCount_' = IF filePath.version = "partial" THEN filePath.count ELSE 0
    /\ pc' = "open"
    /\ UNCHANGED <<diskVars, buildVars, crashed>>

(* No file, or none that can be opened; a file of another version or layout, and a
   malformed one, is removed with the .part file (clearCache()). *)
OpenUncached(s) ==
    /\ pc = "closed"
    /\ \/ /\ filePath = NoFile \/ "open" \in Faults
          /\ UNCHANGED <<filePath, binTmp>>
       \/ /\ filePath # NoFile /\ ~Loads(filePath, s)
          /\ RemoveFilePath
          /\ binTmp' = NoFile
    /\ spec' = s
    /\ pc' = "needsBuild"
    /\ UNCHANGED <<htmlPath, tmpHtmlPath, partial_, partialPageCount_, pageCount, buildVars, crashed>>

-----------------------------------------------------------------------------
(* startBuild(), which the reader calls for a chapter that is not cached and to
   extend a partial one. *)

StartBuild ==
    /\ pc = "needsBuild" \/ (pc = "open" /\ partial_)
    /\ binTmp' = NoFile
    /\ pageCount' = IF partial_ THEN partialPageCount_ ELSE 0
    /\ laid' = 0 /\ bad' = {} /\ cut' = {} /\ builtPageCount_' = 0
    /\ reusedHtml' = (htmlPath # "none")
    /\ IF htmlPath # "none"
       THEN pc' = "creating" /\ UNCHANGED tmpHtmlPath
       ELSE pc' = "inflating" /\ tmpHtmlPath' = "torn"
    /\ UNCHANGED <<filePath, htmlPath, spec, partial_, partialPageCount_, committing, crashed>>

(* The chapter is unzipped and the file promoted at once; when that fails the build
   parses the temporary file. *)
Inflate ==
    /\ pc = "inflating"
    /\ \/ /\ htmlPath' = "whole" /\ tmpHtmlPath' = "none"
          /\ reusedHtml' = TRUE
       \/ /\ "rename" \in Faults
          /\ tmpHtmlPath' = "whole"
          /\ UNCHANGED <<htmlPath, reusedHtml>>
    /\ pc' = "creating"
    /\ UNCHANGED <<filePath, binTmp, objectVars, laid, bad, cut, builtPageCount_, committing, crashed>>

(* startBuild() returns false: the reader gives the section up, unless it has the
   pages of a partial file to go on with. *)
StartFails ==
    IF partial_
    THEN /\ pc' = "open"
         /\ ResetBuild
         /\ UNCHANGED <<objectVars, crashed>>
    ELSE Destroyed

(* Mutant: what three attempts have streamed is taken for the chapter. *)
InflateFailsUnnoticed ==
    /\ pc = "inflating" /\ "stream" \in Faults
    /\ htmlPath' = "torn" /\ tmpHtmlPath' = "none"
    /\ reusedHtml' = TRUE
    /\ pc' = "creating"
    /\ UNCHANGED <<filePath, binTmp, objectVars, laid, bad, cut, builtPageCount_, committing, crashed>>

(* Three attempts have failed. *)
InflateFails ==
    /\ pc = "inflating" /\ "stream" \in Faults
    /\ tmpHtmlPath' = "none"
    /\ StartFails
    /\ UNCHANGED <<filePath, binTmp, htmlPath>>

(* The .part file is opened and its header written, with the sentinel version. *)
CreateBuild ==
    /\ pc = "creating"
    /\ binTmp' = [version |-> "incomplete", spec |-> spec, laid |-> 0, bad |-> {}, cut |-> {},
                  count |-> 0, tables |-> "none"]
    /\ pc' = "building"
    /\ crashed' = FALSE
    /\ UNCHANGED <<filePath, htmlPath, tmpHtmlPath, objectVars, buildVars>>

(* Mutant: the temporary HTML is forgotten on this path. *)
CreateFailsLeavingHtml ==
    /\ pc = "creating" /\ "create" \in Faults
    /\ StartFails
    /\ UNCHANGED diskVars

CreateFails ==
    /\ pc = "creating" /\ "create" \in Faults
    /\ DropTmpHtml
    /\ StartFails
    /\ UNCHANGED <<filePath, binTmp, htmlPath>>

(* beginParse() fails: abandonBuild() removes the partial file too, and a reader
   that was extending it stays with an empty section. *)
BeginParseFails ==
    /\ pc = "creating" /\ "parse" \in Faults
    /\ RemoveFilePath
    /\ binTmp' = NoFile
    /\ DropTmpHtml
    /\ pc' = IF partial_ THEN "open" ELSE "closed"
    /\ partial_' = FALSE /\ partialPageCount_' = 0 /\ pageCount' = 0
    /\ ResetBuild
    /\ crashed' = FALSE
    /\ UNCHANGED <<htmlPath, spec>>

-----------------------------------------------------------------------------
(* buildSomeMore(). *)

(* onPageComplete() writes a page. Its entry in lut is 0 when Page::serialize() returns
   FALSE, and the page does not count; it does when a write came short unnoticed. *)
LayPage ==
    /\ pc = "building" /\ laid < Pages[spec]
    /\ laid' = laid + 1
    /\ \/ /\ builtPageCount_' = builtPageCount_ + 1
          /\ pageCount' = Larger(pageCount, builtPageCount_ + 1)
          /\ cut' \in {cut} \cup (IF "cut" \in Faults THEN {cut \cup {laid}} ELSE {})
          /\ UNCHANGED bad
       \/ /\ "page" \in Faults
          /\ bad' = bad \cup {laid}
          /\ UNCHANGED <<cut, builtPageCount_, pageCount>>
    /\ UNCHANGED <<diskVars, pc, spec, partial_, partialPageCount_, reusedHtml, committing, crashed>>

(* A parse error: abandonBuild(), and the reader drops the section. *)
ParseFails ==
    /\ pc = "building" /\ "parse" \in Faults
    /\ RemoveFilePath
    /\ binTmp' = NoFile
    /\ DropTmpHtml
    /\ Destroyed
    /\ UNCHANGED htmlPath

(* The parser is done: finalizeBuild() promotes the HTML that startBuild() could
   not, and commits. *)
Finalize ==
    /\ pc = "building" /\ laid = Pages[spec]
    /\ IF reusedHtml
       THEN UNCHANGED <<htmlPath, tmpHtmlPath>>
       ELSE /\ tmpHtmlPath' = "none"
            /\ \/ htmlPath' = "whole"
               \/ "rename" \in Faults /\ UNCHANGED htmlPath
    /\ committing' = "final"
    /\ pc' = "tables"
    /\ UNCHANGED <<filePath, binTmp, objectVars, laid, bad, cut, builtPageCount_, reusedHtml, crashed>>

-----------------------------------------------------------------------------
(* ~Section(), suspendBuild(). *)

CloseIdle ==
    /\ pc = "open"
    /\ Destroyed
    /\ UNCHANGED diskVars

(* Mutant: any build with a page is kept. *)
KeepsAnyPage == builtPageCount_ > 0

WorthKeeping == builtPageCount_ > 0 /\ (~partial_ \/ builtPageCount_ > partialPageCount_)

(* Mutant: the version to commit as is not passed on. *)
CloseKeepingUnversioned ==
    /\ pc = "building" /\ WorthKeeping
    /\ pc' = "tables"
    /\ UNCHANGED <<diskVars, objectVars, buildVars, crashed>>

CloseKeeping ==
    /\ pc = "building" /\ WorthKeeping
    /\ committing' = "partial"
    /\ pc' = "tables"
    /\ UNCHANGED <<diskVars, objectVars, laid, bad, cut, builtPageCount_, reusedHtml, crashed>>

CloseDropping ==
    /\ pc = "building" /\ ~WorthKeeping
    /\ binTmp' = NoFile
    /\ DropTmpHtml
    /\ Destroyed
    /\ UNCHANGED <<filePath, htmlPath>>

-----------------------------------------------------------------------------
(* commitBuildFile(). *)

(* It fails: finalizeBuild() returns false and the reader drops the section, or the
   destructor goes on. *)
CommitFails ==
    /\ binTmp' = NoFile
    /\ DropTmpHtml
    /\ Destroyed
    /\ UNCHANGED htmlPath

(* Mutant: entries of the page table are not checked. *)
WriteAnyTables ==
    /\ pc = "tables"
    /\ binTmp' = [binTmp EXCEPT !.laid = laid, !.bad = bad, !.cut = cut,
                                !.count = builtPageCount_, !.tables = "whole"]
    /\ pc' = "stamp"
    /\ UNCHANGED <<filePath, htmlPath, tmpHtmlPath, objectVars, buildVars, crashed>>

(* The tables and the header; a page that failed has no position, and is refused. *)
WriteTables ==
    /\ pc = "tables" /\ bad = {}
    /\ \E written \in {"whole"} \cup (IF "tables" \in Faults THEN {"short"} ELSE {}) :
         binTmp' = [binTmp EXCEPT !.laid = laid, !.bad = bad, !.cut = cut,
                                  !.count = builtPageCount_, !.tables = written]
    /\ pc' = "stamp"
    /\ UNCHANGED <<filePath, htmlPath, tmpHtmlPath, objectVars, buildVars, crashed>>

(* failCommit *)
RefuseTables ==
    /\ pc = "tables" /\ bad # {}
    /\ CommitFails
    /\ UNCHANGED filePath

(* The version byte, last of all. *)
StampVersion ==
    /\ pc = "stamp"
    /\ binTmp' = [binTmp EXCEPT !.version = committing]
    /\ pc' = "swap"
    /\ UNCHANGED <<filePath, htmlPath, tmpHtmlPath, objectVars, buildVars, crashed>>

RemoveOld ==
    /\ pc = "swap"
    /\ RemoveFilePath
    /\ pc' = "rename"
    /\ UNCHANGED <<binTmp, htmlPath, tmpHtmlPath, objectVars, buildVars, crashed>>

(* A rename does not overwrite. *)
Renamed ==
    /\ pc = "rename" /\ filePath = NoFile
    /\ filePath' = binTmp /\ binTmp' = NoFile

(* Mutant: the finalized section is still taken for a partial one. *)
FinalizeSucceedsAsPartial ==
    /\ Renamed /\ committing = "final"
    /\ pageCount' = builtPageCount_
    /\ ResetBuild
    /\ pc' = "open"
    /\ UNCHANGED <<htmlPath, tmpHtmlPath, spec, partial_, partialPageCount_, crashed>>

FinalizeSucceeds ==
    /\ Renamed /\ committing = "final"
    /\ partial_' = FALSE /\ partialPageCount_' = 0
    /\ pageCount' = builtPageCount_
    /\ ResetBuild
    /\ pc' = "open"
    /\ UNCHANGED <<htmlPath, tmpHtmlPath, spec, crashed>>

SuspendSucceeds ==
    /\ Renamed /\ committing = "partial"
    /\ DropTmpHtml
    /\ Destroyed
    /\ UNCHANGED htmlPath

RenameFails ==
    /\ pc = "rename" /\ (filePath # NoFile \/ "rename" \in Faults)
    /\ CommitFails
    /\ UNCHANGED filePath

-----------------------------------------------------------------------------
(* The reader cannot show a page: abandonBuild(), clearCache() and reset(). *)
PageUnreadable ==
    /\ pc \in {"open", "building"}
    /\ \E p \in PageNumbers : p < pageCount /\ (~Readable(p) \/ "read" \in Faults)
    /\ RemoveFilePath
    /\ binTmp' = NoFile
    /\ DropTmpHtml
    /\ Destroyed
    /\ UNCHANGED htmlPath

(* Epub::clearCache(), when the user deletes the cache of a book that is not open, or
   of the open one, whose section the reader has dropped first; removeDir() may stop
   half way, and nobody asks. *)
ClearBook ==
    /\ pc = "closed"
    /\ RemoveFilePath
    /\ binTmp' \in MayRemain(binTmp, NoFile)
    /\ htmlPath' \in MayRemain(htmlPath, "none")
    /\ tmpHtmlPath' \in MayRemain(tmpHtmlPath, "none")
    /\ UNCHANGED <<pc, objectVars, buildVars, crashed>>

(* The device is reset or loses power, and keeps its files. *)
Crash ==
    /\ pc # "closed"
    /\ pc' = "closed"
    /\ partial_' = FALSE /\ partialPageCount_' = 0 /\ pageCount' = 0
    /\ ResetBuild
    /\ crashed' = TRUE
    /\ UNCHANGED <<diskVars, spec>>

-----------------------------------------------------------------------------
Build ==
    \/ StartBuild \/ Inflate \/ InflateFails \/ CreateBuild \/ CreateFails \/ BeginParseFails
    \/ LayPage \/ ParseFails \/ Finalize

Commit ==
    \/ WriteTables \/ RefuseTables \/ StampVersion \/ RemoveOld
    \/ FinalizeSucceeds \/ SuspendSucceeds \/ RenameFails

Next ==
    \/ \E s \in Specs : OpenCached(s) \/ OpenUncached(s)
    \/ Build \/ Commit
    \/ CloseIdle \/ CloseKeeping \/ CloseDropping
    \/ PageUnreadable \/ ClearBook \/ Crash

Spec == Init /\ [][Next]_vars

-----------------------------------------------------------------------------
(* Safety. *)

(* Whatever is interrupted or fails, what the next opening finds at filePath was
   committed: it lists no page that the code saw fail, its count is the count of its
   pages, and a finalized file has all pages of the chapter. It does not say that each
   of them is whole: a page of which a write came short unnoticed (cut) is listed and
   counted like any other. *)
CommittedOnly ==
    filePath # NoFile =>
        /\ filePath.version # "incomplete"
        /\ filePath.bad = {} /\ filePath.count = filePath.laid
        /\ filePath.version = "final" => filePath.laid = Pages[filePath.spec]

(* Every page the section counts can be read, through all of load, rebuild over a
   partial file and commit: but for a page this build failed to write, and for what
   the code cannot tell until it reads, a page of which a write came short, in the
   build or in the file, and a finalized file whose tables a full card cut short. *)
Available ==
    pc \in {"open", "building"} =>
        \A p \in PageNumbers : p < pageCount =>
            \/ Readable(p) \/ CutShort(p)
            \/ pc = "building" /\ p \in bad
            \/ pc = "open" /\ filePath # NoFile /\ filePath.version = "final"
                           /\ filePath.spec = spec /\ filePath.tables = "short"

(* "If htmlPath exists it is known-complete" (startBuild()): a reset while unzipping
   never leaves part of a chapter to be laid out as if it were all. *)
HtmlWhole ==
    /\ htmlPath # "torn"
    /\ pc = "creating" \/ Building => (IF reusedHtml THEN htmlPath ELSE tmpHtmlPath) = "whole" \/ committing = "final"

(* No path but a reset leaves a temporary file behind. *)
NoLeftovers ==
    pc \in {"closed", "open", "needsBuild"} /\ ~crashed => binTmp = NoFile /\ tmpHtmlPath = "none"

(* Closing a chapter keeps what it had laid out, and the partial file it was opened
   with if that has more, unless the code saw a page fail; it counts pages, whole or
   cut short. *)
ClosingKeepsPages ==
    [][ (CloseIdle \/ CloseDropping \/ SuspendSucceeds) /\ bad = {} /\ pageCount > 0 =>
            /\ filePath' # NoFile /\ filePath'.spec = spec
            /\ filePath'.count >= pageCount ]_vars

-----------------------------------------------------------------------------
(* The inductive invariant behind them (proved in SectionCacheProofs). *)

(* What has been committed has no more pages than the chapter, and tables. *)
FileFits ==
    filePath # NoFile => filePath.laid <= Pages[filePath.spec] /\ filePath.tables # "none"

(* A partial section has its file, until the swap removes it. *)
PartialOnDisk ==
    /\ ~partial_ => partialPageCount_ = 0
    /\ partial_ =>
         /\ pc \notin {"closed", "needsBuild"}
         /\ partialPageCount_ > 0 /\ partialPageCount_ <= Pages[spec]
         /\ pc = "rename" \/ filePath # NoFile
         /\ filePath # NoFile =>
              /\ filePath.version = "partial" /\ filePath.tables = "whole"
              /\ filePath.spec = spec /\ filePath.count = partialPageCount_

(* So has a complete one. *)
FinalOnDisk ==
    (pc = "open" /\ ~partial_ /\ pageCount > 0) =>
        /\ filePath # NoFile /\ filePath.version = "final"
        /\ filePath.spec = spec /\ filePath.count = pageCount

(* How the page counts go together. *)
Counts ==
    /\ pc \in {"closed", "needsBuild"} => pageCount = 0
    /\ pc = "open" /\ partial_ => pageCount = partialPageCount_
    /\ pc \in {"inflating", "creating"} => pageCount = partialPageCount_
    /\ ~Building => laid = 0 /\ bad = {} /\ cut = {} /\ builtPageCount_ = 0 /\ committing = "none"
    /\ Building =>
         /\ laid <= Pages[spec] /\ builtPageCount_ <= laid /\ bad \subseteq 0..(laid - 1)
         /\ bad = {} => builtPageCount_ = laid
         /\ pageCount = Larger(partialPageCount_, builtPageCount_)

(* The .part file at each step of the commit. *)
PartFile ==
    /\ pc = "building" => committing = "none"
    /\ pc \in BuildPcs \ {"building"} =>
         \/ committing = "final" /\ laid = Pages[spec]
         \/ committing = "partial" /\ WorthKeeping
    /\ Building => binTmp # NoFile /\ binTmp.spec = spec
    /\ pc \in {"stamp", "swap", "rename"} =>
         /\ bad = {} /\ binTmp.bad = {}
         /\ binTmp.laid = laid /\ binTmp.count = laid
         /\ binTmp.tables # "none"
    /\ pc \in {"swap", "rename"} => binTmp.version = committing

(* Where temporary files are, and what is in the HTML files. *)
TempFiles ==
    /\ htmlPath # "none" => tmpHtmlPath = "none"
    /\ pc = "inflating" => ~reusedHtml /\ tmpHtmlPath = "torn"
    /\ pc \notin {"inflating", "creating"} \cup BuildPcs => ~reusedHtml
    /\ reusedHtml => htmlPath # "none"
    /\ committing = "final" => tmpHtmlPath = "none"
    /\ binTmp # NoFile => Building \/ crashed
    /\ tmpHtmlPath # "none" => crashed \/ (pc \in {"inflating", "creating"} \cup BuildPcs /\ ~reusedHtml)
    /\ Building => ~crashed

IInv ==
    /\ TypeOK
    /\ CommittedOnly /\ FileFits /\ PartialOnDisk /\ FinalOnDisk
    /\ Counts /\ PartFile /\ TempFiles /\ HtmlWhole

-----------------------------------------------------------------------------
(* The files behind PageCache: a committed .part file counts from the moment the old
   file is gone, for nothing but a reset or a failing rename comes between. *)
Kept(f) == [spec |-> f.spec, pages |-> f.count, complete |-> f.version = "final"]

cachedPages ==
    IF filePath # NoFile THEN Kept(filePath)
    ELSE IF pc = "rename" THEN Kept(binTmp) ELSE NoFile

offeredPages ==
    IF pc = "closed" THEN NoFile
    ELSE [spec |-> spec, pages |-> pageCount,
          base |-> IF partial_ THEN partialPageCount_
                   ELSE IF pc = "open" THEN pageCount ELSE 0]

Cache == INSTANCE PageCache WITH cached <- cachedPages, reader <- offeredPages, NoPages <- NoFile

(* Section keeps the promise of PageCache. *)
KeepsPromise == Cache!Spec

-----------------------------------------------------------------------------
(* What comments say, and the code does not do; each is refuted by a run. *)

(* Section.cpp:265, "Pages from a loaded partial stay readable (from filePath) while
   this build writes to the tmp .bin, so availability never drops below the partial's
   watermark." *)
WatermarkReadable ==
    pc = "building" /\ partial_ => \A p \in PageNumbers : p < partialPageCount_ => Readable(p)

(* Section.cpp:542, "On failure the tmp is removed and any pre-existing file at
   filePath is left intact." The old file is the one before the swap. *)
FailureLeavesFile ==
    [][ RenameFails /\ partial_ => filePath' # NoFile ]_vars

=============================================================================
