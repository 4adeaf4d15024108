------------------------ MODULE SectionCacheProofs ------------------------
(***************************************************************************)
(* Proofs about SectionCache, for any layouts, any number of pages in each *)
(* and any of the faults: IInv is inductive, the safety properties follow  *)
(* from it, and with it every step of Section is one of PageCache, or none.*)
(*                                                                         *)
(* One lemma per conjunct of IInv has a step for every action that writes  *)
(* a variable of that conjunct, and one for the actions that write none.   *)
(***************************************************************************)
EXTENDS SectionCache, TLAPS

USE PagesAssumption, FaultsAssumption, NoFileAssumption

(* The initial state satisfies the inductive invariant. *)
LEMMA InitIInv == Init => IInv
<1> SUFFICES ASSUME Init PROVE IInv
  OBVIOUS
<1>1. partial_ \in BOOLEAN /\ reusedHtml \in BOOLEAN /\ crashed \in BOOLEAN
  BY Zenon DEF Init
<1>2. TypeOK
  BY <1>1 DEF Init, TypeOK
<1>3. CommittedOnly /\ FileFits /\ PartialOnDisk /\ FinalOnDisk /\ HtmlWhole
  BY DEF Init, CommittedOnly, FileFits, PartialOnDisk, FinalOnDisk, HtmlWhole, Building, BuildPcs
<1>4. Counts /\ PartFile /\ TempFiles
  BY DEF Init, Counts, PartFile, TempFiles, Building, BuildPcs
<1> QED
  BY <1>2, <1>3, <1>4 DEF IInv

(* Every step keeps every variable in its type. *)
LEMMA TypeOKStep == IInv /\ [Next]_vars => TypeOK'
<1> SUFFICES ASSUME IInv, [Next]_vars PROVE TypeOK'
  OBVIOUS
<1>0. TypeOK /\ PartFile
  BY DEF IInv
<1>1. CASE \E s \in Specs : OpenCached(s)
  BY <1>0, <1>1 DEF OpenCached, Loads, Malformed, diskVars, buildVars, TypeOK, Files,
      Versions, ObjectPcs, BuildPcs, PartFile, WorthKeeping, Building
<1>2. CASE \E s \in Specs : OpenUncached(s)
  BY <1>0, <1>2 DEF OpenUncached, Loads, Malformed, RemoveFilePath, MayRemain, buildVars,
      TypeOK, Files, Versions, ObjectPcs, BuildPcs, PartFile, WorthKeeping, Building
<1>3. CASE StartBuild
  BY <1>0, <1>3 DEF StartBuild, TypeOK, Files, Versions, ObjectPcs, BuildPcs, PartFile,
      WorthKeeping, Building
<1>4. CASE Inflate
  <2>1. partial_' \in BOOLEAN /\ reusedHtml' \in BOOLEAN /\ crashed' \in BOOLEAN
    BY <1>0, <1>4, Zenon DEF Inflate, objectVars, TypeOK, Files, Versions, ObjectPcs,
        BuildPcs
  <2> QED
    BY <1>0, <1>4, <2>1 DEF Inflate, objectVars, TypeOK, Files, Versions, ObjectPcs,
        BuildPcs, PartFile, WorthKeeping, Building
<1>5. CASE InflateFails
  <2>1. partial_' \in BOOLEAN /\ reusedHtml' \in BOOLEAN /\ crashed' \in BOOLEAN
    BY <1>0, <1>5, Zenon DEF InflateFails, StartFails, ResetBuild, objectVars, Destroyed,
        TypeOK, Files, Versions, ObjectPcs, BuildPcs
  <2> QED
    BY <1>0, <1>5, <2>1 DEF InflateFails, StartFails, ResetBuild, objectVars, Destroyed,
        TypeOK, Files, Versions, ObjectPcs, BuildPcs, PartFile, WorthKeeping, Building
<1>6. CASE CreateBuild
  <2>1. binTmp' \in Files
    BY <1>0, <1>6 DEF CreateBuild, TypeOK, Files, Versions
  <2>2. crashed' \in BOOLEAN
    BY <1>6, Zenon DEF CreateBuild
  <2> QED
    BY <1>0, <1>6, <2>1, <2>2 DEF CreateBuild, objectVars, buildVars, TypeOK, ObjectPcs, BuildPcs
<1>7. CASE CreateFails
  <2>1. partial_' \in BOOLEAN /\ reusedHtml' \in BOOLEAN /\ crashed' \in BOOLEAN
    BY <1>0, <1>7, Zenon DEF CreateFails, DropTmpHtml, StartFails, ResetBuild, objectVars,
        Destroyed, TypeOK, Files, Versions, ObjectPcs, BuildPcs
  <2> QED
    BY <1>0, <1>7, <2>1 DEF CreateFails, DropTmpHtml, StartFails, ResetBuild, objectVars,
        Destroyed, TypeOK, Files, Versions, ObjectPcs, BuildPcs, PartFile, WorthKeeping,
        Building
<1>8. CASE BeginParseFails
  BY <1>0, <1>8 DEF BeginParseFails, RemoveFilePath, MayRemain, DropTmpHtml, ResetBuild,
      TypeOK, Files, Versions, ObjectPcs, BuildPcs, PartFile, WorthKeeping, Building
<1>9. CASE LayPage
  <2>1. laid' \in Nat /\ builtPageCount_' \in Nat /\ pageCount' \in Nat
    BY <1>0, <1>9 DEF LayPage, Larger, TypeOK
  <2>2. bad' \in SUBSET Nat /\ cut' \in SUBSET Nat
    BY <1>0, <1>9 DEF LayPage, TypeOK
  <2> QED
    BY <1>0, <1>9, <2>1, <2>2 DEF LayPage, diskVars, TypeOK, ObjectPcs, BuildPcs
<1>10. CASE ParseFails
  BY <1>0, <1>10 DEF ParseFails, RemoveFilePath, MayRemain, DropTmpHtml, Destroyed,
      ResetBuild, TypeOK, Files, Versions, ObjectPcs, BuildPcs, PartFile, WorthKeeping,
      Building
<1>11. CASE Finalize
  BY <1>0, <1>11 DEF Finalize, objectVars, TypeOK, Files, Versions, ObjectPcs, BuildPcs,
      PartFile, WorthKeeping, Building
<1>12. CASE CloseIdle
  <2>1. partial_' \in BOOLEAN /\ reusedHtml' \in BOOLEAN /\ crashed' \in BOOLEAN
    BY <1>0, <1>12, Zenon DEF CloseIdle, Destroyed, ResetBuild, TypeOK, Files, Versions,
        ObjectPcs, BuildPcs
  <2> QED
    BY <1>0, <1>12, <2>1 DEF CloseIdle, Destroyed, ResetBuild, diskVars, TypeOK, Files,
        Versions, ObjectPcs, BuildPcs, PartFile, WorthKeeping, Building
<1>13. CASE CloseKeeping
  BY <1>0, <1>13 DEF CloseKeeping, WorthKeeping, diskVars, objectVars, TypeOK, Files,
      Versions, ObjectPcs, BuildPcs, PartFile, Building
<1>14. CASE CloseDropping
  BY <1>0, <1>14 DEF CloseDropping, WorthKeeping, DropTmpHtml, Destroyed, ResetBuild,
      TypeOK, Files, Versions, ObjectPcs, BuildPcs, PartFile, Building
<1>15. CASE WriteTables
  <2>1. PICK written \in {"whole", "short"} :
          binTmp' = [binTmp EXCEPT !.laid = laid, !.bad = bad, !.cut = cut,
                                   !.count = builtPageCount_, !.tables = written]
    BY <1>15 DEF WriteTables
  <2>2. binTmp \in Files
    BY <1>0, <1>15 DEF WriteTables, TypeOK, PartFile, Building, BuildPcs
  <2>3. binTmp' \in Files
    BY <1>0, <2>1, <2>2 DEF TypeOK, Files
  <2> QED
    BY <1>0, <1>15, <2>3 DEF WriteTables, objectVars, buildVars, TypeOK, ObjectPcs, BuildPcs
<1>16. CASE RefuseTables
  BY <1>0, <1>16 DEF RefuseTables, CommitFails, DropTmpHtml, Destroyed, ResetBuild, TypeOK,
      Files, Versions, ObjectPcs, BuildPcs, PartFile, WorthKeeping, Building
<1>17. CASE StampVersion
  BY <1>0, <1>17 DEF StampVersion, objectVars, buildVars, TypeOK, Files, Versions,
      ObjectPcs, BuildPcs, PartFile, WorthKeeping, Building
<1>18. CASE RemoveOld
  BY <1>0, <1>18 DEF RemoveOld, RemoveFilePath, MayRemain, objectVars, buildVars, TypeOK,
      Files, Versions, ObjectPcs, BuildPcs, PartFile, WorthKeeping, Building
<1>19. CASE FinalizeSucceeds
  BY <1>0, <1>19 DEF FinalizeSucceeds, Renamed, ResetBuild, TypeOK, Files, Versions,
      ObjectPcs, BuildPcs, PartFile, WorthKeeping, Building
<1>20. CASE SuspendSucceeds
  BY <1>0, <1>20 DEF SuspendSucceeds, Renamed, DropTmpHtml, Destroyed, ResetBuild, TypeOK,
      Files, Versions, ObjectPcs, BuildPcs, PartFile, WorthKeeping, Building
<1>21. CASE RenameFails
  BY <1>0, <1>21 DEF RenameFails, CommitFails, DropTmpHtml, Destroyed, ResetBuild, TypeOK,
      Files, Versions, ObjectPcs, BuildPcs, PartFile, WorthKeeping, Building
<1>22. CASE PageUnreadable
  BY <1>0, <1>22 DEF PageUnreadable, PageNumbers, Readable, Building, BuildPcs, OnDisk,
      RemoveFilePath, MayRemain, DropTmpHtml, Destroyed, ResetBuild, TypeOK, Files,
      Versions, ObjectPcs, PartFile, WorthKeeping
<1>23. CASE ClearBook
  BY <1>0, <1>23 DEF ClearBook, RemoveFilePath, MayRemain, objectVars, buildVars, TypeOK,
      Files, Versions, ObjectPcs, BuildPcs, PartFile, WorthKeeping, Building
<1>24. CASE Crash
  BY <1>0, <1>24 DEF Crash, ResetBuild, diskVars, TypeOK, Files, Versions, ObjectPcs,
      BuildPcs, PartFile, WorthKeeping, Building
<1>25. CASE UNCHANGED vars
  BY <1>0, <1>25 DEF vars, diskVars, objectVars, buildVars, TypeOK, Files, Versions,
      ObjectPcs, BuildPcs
<1> QED
  BY <1>1, <1>2, <1>3, <1>4, <1>5, <1>6, <1>7, <1>8, <1>9, <1>10, <1>11, <1>12, <1>13,
      <1>14, <1>15, <1>16, <1>17, <1>18, <1>19, <1>20, <1>21, <1>22, <1>23, <1>24, <1>25 DEF
      Next, Build, Commit

(* A .part file is renamed to filePath only when its tables list no failed page. *)
LEMMA CommittedOnlyStep == IInv /\ [Next]_vars => CommittedOnly'
<1> SUFFICES ASSUME IInv, [Next]_vars PROVE CommittedOnly'
  OBVIOUS
<1>0. TypeOK /\ CommittedOnly /\ PartFile /\ Counts
  BY DEF IInv
<1>1. CASE \E s \in Specs : OpenCached(s)
  BY <1>0, <1>1 DEF OpenCached, Loads, Malformed, diskVars, buildVars, TypeOK, Files,
      Versions, ObjectPcs, BuildPcs, CommittedOnly, PartFile, WorthKeeping, Building,
      Counts, Larger
<1>2. CASE \E s \in Specs : OpenUncached(s)
  BY <1>0, <1>2 DEF OpenUncached, Loads, Malformed, RemoveFilePath, MayRemain, buildVars,
      TypeOK, Files, Versions, ObjectPcs, BuildPcs, CommittedOnly, PartFile, WorthKeeping,
      Building, Counts, Larger
<1>3. CASE StartBuild
  BY <1>0, <1>3 DEF StartBuild, TypeOK, Files, Versions, ObjectPcs, BuildPcs, CommittedOnly,
      PartFile, WorthKeeping, Building, Counts, Larger
<1>4. CASE InflateFails
  BY <1>0, <1>4 DEF InflateFails, StartFails, ResetBuild, objectVars, Destroyed, TypeOK,
      Files, Versions, ObjectPcs, BuildPcs, CommittedOnly, PartFile, WorthKeeping, Building,
      Counts, Larger
<1>5. CASE CreateFails
  BY <1>0, <1>5 DEF CreateFails, DropTmpHtml, StartFails, ResetBuild, objectVars, Destroyed,
      TypeOK, Files, Versions, ObjectPcs, BuildPcs, CommittedOnly, PartFile, WorthKeeping,
      Building, Counts, Larger
<1>6. CASE BeginParseFails
  BY <1>0, <1>6 DEF BeginParseFails, RemoveFilePath, MayRemain, DropTmpHtml, ResetBuild,
      TypeOK, Files, Versions, ObjectPcs, BuildPcs, CommittedOnly, PartFile, WorthKeeping,
      Building, Counts, Larger
<1>7. CASE LayPage
  BY <1>0, <1>7 DEF LayPage, Larger, diskVars, TypeOK, Files, Versions, ObjectPcs, BuildPcs,
      CommittedOnly, PartFile, WorthKeeping, Building, Counts
<1>8. CASE ParseFails
  BY <1>0, <1>8 DEF ParseFails, RemoveFilePath, MayRemain, DropTmpHtml, Destroyed,
      ResetBuild, TypeOK, Files, Versions, ObjectPcs, BuildPcs, CommittedOnly, PartFile,
      WorthKeeping, Building, Counts, Larger
<1>9. CASE CloseIdle
  BY <1>0, <1>9 DEF CloseIdle, Destroyed, ResetBuild, diskVars, TypeOK, Files, Versions,
      ObjectPcs, BuildPcs, CommittedOnly, PartFile, WorthKeeping, Building, Counts, Larger
<1>10. CASE CloseDropping
  BY <1>0, <1>10 DEF CloseDropping, WorthKeeping, DropTmpHtml, Destroyed, ResetBuild,
      TypeOK, Files, Versions, ObjectPcs, BuildPcs, CommittedOnly, PartFile, Building,
      Counts, Larger
<1>11. CASE RefuseTables
  BY <1>0, <1>11 DEF RefuseTables, CommitFails, DropTmpHtml, Destroyed, ResetBuild, TypeOK,
      Files, Versions, ObjectPcs, BuildPcs, CommittedOnly, PartFile, WorthKeeping, Building,
      Counts, Larger
<1>12. CASE RemoveOld
  BY <1>0, <1>12 DEF RemoveOld, RemoveFilePath, MayRemain, objectVars, buildVars, TypeOK,
      Files, Versions, ObjectPcs, BuildPcs, CommittedOnly, PartFile, WorthKeeping, Building,
      Counts, Larger
<1>13. CASE FinalizeSucceeds
  BY <1>0, <1>13 DEF FinalizeSucceeds, Renamed, ResetBuild, TypeOK, Files, Versions,
      ObjectPcs, BuildPcs, CommittedOnly, PartFile, WorthKeeping, Building, Counts, Larger
<1>14. CASE SuspendSucceeds
  BY <1>0, <1>14 DEF SuspendSucceeds, Renamed, DropTmpHtml, Destroyed, ResetBuild, TypeOK,
      Files, Versions, ObjectPcs, BuildPcs, CommittedOnly, PartFile, WorthKeeping, Building,
      Counts, Larger
<1>15. CASE RenameFails
  BY <1>0, <1>15 DEF RenameFails, CommitFails, DropTmpHtml, Destroyed, ResetBuild, TypeOK,
      Files, Versions, ObjectPcs, BuildPcs, CommittedOnly, PartFile, WorthKeeping, Building,
      Counts, Larger
<1>16. CASE PageUnreadable
  BY <1>0, <1>16 DEF PageUnreadable, PageNumbers, Readable, Building, BuildPcs, OnDisk,
      RemoveFilePath, MayRemain, DropTmpHtml, Destroyed, ResetBuild, TypeOK, Files,
      Versions, ObjectPcs, CommittedOnly, PartFile, WorthKeeping, Counts, Larger
<1>17. CASE ClearBook
  BY <1>0, <1>17 DEF ClearBook, RemoveFilePath, MayRemain, objectVars, buildVars, TypeOK,
      Files, Versions, ObjectPcs, BuildPcs, CommittedOnly, PartFile, WorthKeeping, Building,
      Counts, Larger
<1>18. CASE Crash
  BY <1>0, <1>18 DEF Crash, ResetBuild, diskVars, TypeOK, Files, Versions, ObjectPcs,
      BuildPcs, CommittedOnly, PartFile, WorthKeeping, Building, Counts, Larger
<1>19. CASE Inflate \/ CreateBuild \/ Finalize \/ CloseKeeping \/ WriteTables \/
    StampVersion
  BY <1>0, <1>19 DEF Inflate, objectVars, CreateBuild, buildVars, Finalize, CloseKeeping,
      WorthKeeping, diskVars, WriteTables, StampVersion, CommittedOnly
<1>20. CASE UNCHANGED vars
  BY <1>0, <1>20 DEF vars, diskVars, objectVars, buildVars, CommittedOnly
<1> QED
  BY <1>1, <1>2, <1>3, <1>4, <1>5, <1>6, <1>7, <1>8, <1>9, <1>10, <1>11, <1>12, <1>13,
      <1>14, <1>15, <1>16, <1>17, <1>18, <1>19, <1>20 DEF Next, Build, Commit

(* Nothing is committed beyond the last page of the chapter, or without tables. *)
LEMMA FileFitsStep == IInv /\ [Next]_vars => FileFits'
<1> SUFFICES ASSUME IInv, [Next]_vars PROVE FileFits'
  OBVIOUS
<1>0. TypeOK /\ FileFits /\ PartFile /\ Counts
  BY DEF IInv
<1>1. CASE \E s \in Specs : OpenCached(s)
  BY <1>0, <1>1 DEF OpenCached, Loads, Malformed, diskVars, buildVars, TypeOK, Files,
      Versions, ObjectPcs, BuildPcs, FileFits, PartFile, WorthKeeping, Building, Counts,
      Larger
<1>2. CASE \E s \in Specs : OpenUncached(s)
  BY <1>0, <1>2 DEF OpenUncached, Loads, Malformed, RemoveFilePath, MayRemain, buildVars,
      TypeOK, Files, Versions, ObjectPcs, BuildPcs, FileFits, PartFile, WorthKeeping,
      Building, Counts, Larger
<1>3. CASE StartBuild
  BY <1>0, <1>3 DEF StartBuild, TypeOK, Files, Versions, ObjectPcs, BuildPcs, FileFits,
      PartFile, WorthKeeping, Building, Counts, Larger
<1>4. CASE InflateFails
  BY <1>0, <1>4 DEF InflateFails, StartFails, ResetBuild, objectVars, Destroyed, TypeOK,
      Files, Versions, ObjectPcs, BuildPcs, FileFits, PartFile, WorthKeeping, Building,
      Counts, Larger
<1>5. CASE CreateFails
  BY <1>0, <1>5 DEF CreateFails, DropTmpHtml, StartFails, ResetBuild, objectVars, Destroyed,
      TypeOK, Files, Versions, ObjectPcs, BuildPcs, FileFits, PartFile, WorthKeeping,
      Building, Counts, Larger
<1>6. CASE BeginParseFails
  BY <1>0, <1>6 DEF BeginParseFails, RemoveFilePath, MayRemain, DropTmpHtml, ResetBuild,
      TypeOK, Files, Versions, ObjectPcs, BuildPcs, FileFits, PartFile, WorthKeeping,
      Building, Counts, Larger
<1>7. CASE LayPage
  BY <1>0, <1>7 DEF LayPage, Larger, diskVars, TypeOK, Files, Versions, ObjectPcs, BuildPcs,
      FileFits, PartFile, WorthKeeping, Building, Counts
<1>8. CASE ParseFails
  BY <1>0, <1>8 DEF ParseFails, RemoveFilePath, MayRemain, DropTmpHtml, Destroyed,
      ResetBuild, TypeOK, Files, Versions, ObjectPcs, BuildPcs, FileFits, PartFile,
      WorthKeeping, Building, Counts, Larger
<1>9. CASE CloseIdle
  BY <1>0, <1>9 DEF CloseIdle, Destroyed, ResetBuild, diskVars, TypeOK, Files, Versions,
      ObjectPcs, BuildPcs, FileFits, PartFile, WorthKeeping, Building, Counts, Larger
<1>10. CASE CloseDropping
  BY <1>0, <1>10 DEF CloseDropping, WorthKeeping, DropTmpHtml, Destroyed, ResetBuild,
      TypeOK, Files, Versions, ObjectPcs, BuildPcs, FileFits, PartFile, Building, Counts,
      Larger
<1>11. CASE RefuseTables
  BY <1>0, <1>11 DEF RefuseTables, CommitFails, DropTmpHtml, Destroyed, ResetBuild, TypeOK,
      Files, Versions, ObjectPcs, BuildPcs, FileFits, PartFile, WorthKeeping, Building,
      Counts, Larger
<1>12. CASE RemoveOld
  BY <1>0, <1>12 DEF RemoveOld, RemoveFilePath, MayRemain, objectVars, buildVars, TypeOK,
      Files, Versions, ObjectPcs, BuildPcs, FileFits, PartFile, WorthKeeping, Building,
      Counts, Larger
<1>13. CASE FinalizeSucceeds
  BY <1>0, <1>13 DEF FinalizeSucceeds, Renamed, ResetBuild, TypeOK, Files, Versions,
      ObjectPcs, BuildPcs, FileFits, PartFile, WorthKeeping, Building, Counts, Larger
<1>14. CASE SuspendSucceeds
  BY <1>0, <1>14 DEF SuspendSucceeds, Renamed, DropTmpHtml, Destroyed, ResetBuild, TypeOK,
      Files, Versions, ObjectPcs, BuildPcs, FileFits, PartFile, WorthKeeping, Building,
      Counts, Larger
<1>15. CASE RenameFails
  BY <1>0, <1>15 DEF RenameFails, CommitFails, DropTmpHtml, Destroyed, ResetBuild, TypeOK,
      Files, Versions, ObjectPcs, BuildPcs, FileFits, PartFile, WorthKeeping, Building,
      Counts, Larger
<1>16. CASE PageUnreadable
  BY <1>0, <1>16 DEF PageUnreadable, PageNumbers, Readable, Building, BuildPcs, OnDisk,
      RemoveFilePath, MayRemain, DropTmpHtml, Destroyed, ResetBuild, TypeOK, Files,
      Versions, ObjectPcs, FileFits, PartFile, WorthKeeping, Counts, Larger
<1>17. CASE ClearBook
  BY <1>0, <1>17 DEF ClearBook, RemoveFilePath, MayRemain, objectVars, buildVars, TypeOK,
      Files, Versions, ObjectPcs, BuildPcs, FileFits, PartFile, WorthKeeping, Building,
      Counts, Larger
<1>18. CASE Crash
  BY <1>0, <1>18 DEF Crash, ResetBuild, diskVars, TypeOK, Files, Versions, ObjectPcs,
      BuildPcs, FileFits, PartFile, WorthKeeping, Building, Counts, Larger
<1>19. CASE Inflate \/ CreateBuild \/ Finalize \/ CloseKeeping \/ WriteTables \/
    StampVersion
  BY <1>0, <1>19 DEF Inflate, objectVars, CreateBuild, buildVars, Finalize, CloseKeeping,
      WorthKeeping, diskVars, WriteTables, StampVersion, FileFits
<1>20. CASE UNCHANGED vars
  BY <1>0, <1>20 DEF vars, diskVars, objectVars, buildVars, FileFits
<1> QED
  BY <1>1, <1>2, <1>3, <1>4, <1>5, <1>6, <1>7, <1>8, <1>9, <1>10, <1>11, <1>12, <1>13,
      <1>14, <1>15, <1>16, <1>17, <1>18, <1>19, <1>20 DEF Next, Build, Commit

(* The partial file is replaced only at the end of a commit, or the section ends. *)
LEMMA PartialOnDiskStep == IInv /\ [Next]_vars => PartialOnDisk'
<1> SUFFICES ASSUME IInv, [Next]_vars PROVE PartialOnDisk'
  OBVIOUS
<1>0. TypeOK /\ CommittedOnly /\ FileFits /\ PartialOnDisk /\ Counts
  BY DEF IInv
<1>1. CASE \E s \in Specs : OpenCached(s)
  <2> PICK s \in Specs : OpenCached(s)
    BY <1>1
  <2>1. /\ filePath \in Files /\ filePath.spec = s
        /\ filePath.count = filePath.laid /\ filePath.laid <= Pages[s]
    BY <1>0 DEF OpenCached, Loads, TypeOK, CommittedOnly, FileFits
  <2>2. filePath.count \in Nat /\ filePath.version \in {"partial", "final"}
    BY <2>1 DEF OpenCached, Loads, Files
  <2>3. filePath.version = "partial" => filePath.count # 0 /\ filePath.tables = "whole"
    BY DEF OpenCached, Loads, Malformed
  <2>4. pc' = "open" /\ spec' = s /\ filePath' = filePath
    BY DEF OpenCached, diskVars
  <2>5. CASE filePath.version = "partial"
    <3>1. partialPageCount_' = filePath.count
      BY <2>5 DEF OpenCached
    <3>2. filePath.count > 0 /\ filePath.count <= Pages[s]
      BY <2>1, <2>2, <2>3, <2>5
    <3>3. filePath # NoFile /\ partial_' = TRUE
      BY <2>5 DEF OpenCached
    <3> QED
      BY <2>1, <2>3, <2>4, <2>5, <3>1, <3>2, <3>3 DEF PartialOnDisk
  <2>6. CASE filePath.version # "partial"
    BY <2>4, <2>6 DEF OpenCached, PartialOnDisk
  <2> QED
    BY <2>5, <2>6
<1>2. CASE \E s \in Specs : OpenUncached(s)
  BY <1>0, <1>2 DEF OpenUncached, Loads, Malformed, RemoveFilePath, MayRemain, buildVars,
      TypeOK, Files, Versions, ObjectPcs, BuildPcs, CommittedOnly, FileFits, PartialOnDisk,
      Counts, Building, Larger
<1>3. CASE StartBuild
  BY <1>0, <1>3 DEF StartBuild, TypeOK, Files, Versions, ObjectPcs, BuildPcs, CommittedOnly,
      FileFits, PartialOnDisk, Counts, Building, Larger
<1>4. CASE Inflate
  BY <1>0, <1>4 DEF Inflate, objectVars, TypeOK, Files, Versions, ObjectPcs, BuildPcs,
      CommittedOnly, FileFits, PartialOnDisk, Counts, Building, Larger
<1>5. CASE InflateFails
  BY <1>0, <1>5 DEF InflateFails, StartFails, ResetBuild, objectVars, Destroyed, TypeOK,
      Files, Versions, ObjectPcs, BuildPcs, CommittedOnly, FileFits, PartialOnDisk, Counts,
      Building, Larger
<1>6. CASE CreateBuild
  BY <1>0, <1>6 DEF CreateBuild, objectVars, buildVars, TypeOK, Files, Versions, ObjectPcs,
      BuildPcs, CommittedOnly, FileFits, PartialOnDisk, Counts, Building, Larger
<1>7. CASE CreateFails
  BY <1>0, <1>7 DEF CreateFails, DropTmpHtml, StartFails, ResetBuild, objectVars, Destroyed,
      TypeOK, Files, Versions, ObjectPcs, BuildPcs, CommittedOnly, FileFits, PartialOnDisk,
      Counts, Building, Larger
<1>8. CASE BeginParseFails
  BY <1>0, <1>8 DEF BeginParseFails, RemoveFilePath, MayRemain, DropTmpHtml, ResetBuild,
      TypeOK, Files, Versions, ObjectPcs, BuildPcs, CommittedOnly, FileFits, PartialOnDisk,
      Counts, Building, Larger
<1>9. CASE ParseFails
  BY <1>0, <1>9 DEF ParseFails, RemoveFilePath, MayRemain, DropTmpHtml, Destroyed,
      ResetBuild, TypeOK, Files, Versions, ObjectPcs, BuildPcs, CommittedOnly, FileFits,
      PartialOnDisk, Counts, Building, Larger
<1>10. CASE Finalize
  BY <1>0, <1>10 DEF Finalize, objectVars, TypeOK, Files, Versions, ObjectPcs, BuildPcs,
      CommittedOnly, FileFits, PartialOnDisk, Counts, Building, Larger
<1>11. CASE CloseIdle
  BY <1>0, <1>11 DEF CloseIdle, Destroyed, ResetBuild, diskVars, TypeOK, Files, Versions,
      ObjectPcs, BuildPcs, CommittedOnly, FileFits, PartialOnDisk, Counts, Building, Larger
<1>12. CASE CloseKeeping
  BY <1>0, <1>12 DEF CloseKeeping, WorthKeeping, diskVars, objectVars, TypeOK, Files,
      Versions, ObjectPcs, BuildPcs, CommittedOnly, FileFits, PartialOnDisk, Counts,
      Building, Larger
<1>13. CASE CloseDropping
  BY <1>0, <1>13 DEF CloseDropping, WorthKeeping, DropTmpHtml, Destroyed, ResetBuild,
      TypeOK, Files, Versions, ObjectPcs, BuildPcs, CommittedOnly, FileFits, PartialOnDisk,
      Counts, Building, Larger
<1>14. CASE WriteTables
  BY <1>0, <1>14 DEF WriteTables, objectVars, buildVars, TypeOK, Files, Versions, ObjectPcs,
      BuildPcs, CommittedOnly, FileFits, PartialOnDisk, Counts, Building, Larger
<1>15. CASE RefuseTables
  BY <1>0, <1>15 DEF RefuseTables, CommitFails, DropTmpHtml, Destroyed, ResetBuild, TypeOK,
      Files, Versions, ObjectPcs, BuildPcs, CommittedOnly, FileFits, PartialOnDisk, Counts,
      Building, Larger
<1>16. CASE StampVersion
  BY <1>0, <1>16 DEF StampVersion, objectVars, buildVars, TypeOK, Files, Versions,
      ObjectPcs, BuildPcs, CommittedOnly, FileFits, PartialOnDisk, Counts, Building, Larger
<1>17. CASE RemoveOld
  BY <1>0, <1>17 DEF RemoveOld, RemoveFilePath, MayRemain, objectVars, buildVars, TypeOK,
      Files, Versions, ObjectPcs, BuildPcs, CommittedOnly, FileFits, PartialOnDisk, Counts,
      Building, Larger
<1>18. CASE FinalizeSucceeds
  BY <1>0, <1>18 DEF FinalizeSucceeds, Renamed, ResetBuild, TypeOK, Files, Versions,
      ObjectPcs, BuildPcs, CommittedOnly, FileFits, PartialOnDisk, Counts, Building, Larger
<1>19. CASE SuspendSucceeds
  BY <1>0, <1>19 DEF SuspendSucceeds, Renamed, DropTmpHtml, Destroyed, ResetBuild, TypeOK,
      Files, Versions, ObjectPcs, BuildPcs, CommittedOnly, FileFits, PartialOnDisk, Counts,
      Building, Larger
<1>20. CASE RenameFails
  BY <1>0, <1>20 DEF RenameFails, CommitFails, DropTmpHtml, Destroyed, ResetBuild, TypeOK,
      Files, Versions, ObjectPcs, BuildPcs, CommittedOnly, FileFits, PartialOnDisk, Counts,
      Building, Larger
<1>21. CASE PageUnreadable
  BY <1>0, <1>21 DEF PageUnreadable, PageNumbers, Readable, Building, BuildPcs, OnDisk,
      RemoveFilePath, MayRemain, DropTmpHtml, Destroyed, ResetBuild, TypeOK, Files,
      Versions, ObjectPcs, CommittedOnly, FileFits, PartialOnDisk, Counts, Larger
<1>22. CASE ClearBook
  BY <1>0, <1>22 DEF ClearBook, RemoveFilePath, MayRemain, objectVars, buildVars, TypeOK,
      Files, Versions, ObjectPcs, BuildPcs, CommittedOnly, FileFits, PartialOnDisk, Counts,
      Building, Larger
<1>23. CASE Crash
  BY <1>0, <1>23 DEF Crash, ResetBuild, diskVars, TypeOK, Files, Versions, ObjectPcs,
      BuildPcs, CommittedOnly, FileFits, PartialOnDisk, Counts, Building, Larger
<1>24. CASE LayPage
  BY <1>0, <1>24 DEF LayPage, Larger, diskVars, PartialOnDisk
<1>25. CASE UNCHANGED vars
  BY <1>0, <1>25 DEF vars, diskVars, objectVars, buildVars, PartialOnDisk
<1> QED
  BY <1>1, <1>2, <1>3, <1>4, <1>5, <1>6, <1>7, <1>8, <1>9, <1>10, <1>11, <1>12, <1>13,
      <1>14, <1>15, <1>16, <1>17, <1>18, <1>19, <1>20, <1>21, <1>22, <1>23, <1>24, <1>25 DEF
      Next, Build, Commit

(* A section is open and complete only with its finalized file on the card. *)
LEMMA FinalOnDiskStep == IInv /\ [Next]_vars => FinalOnDisk'
<1> SUFFICES ASSUME IInv, [Next]_vars PROVE FinalOnDisk'
  OBVIOUS
<1>0. TypeOK /\ CommittedOnly /\ PartialOnDisk /\ FinalOnDisk /\ Counts /\ PartFile
  BY DEF IInv
<1>1. CASE \E s \in Specs : OpenCached(s)
  BY <1>0, <1>1 DEF OpenCached, Loads, Malformed, diskVars, buildVars, TypeOK, Files,
      Versions, ObjectPcs, BuildPcs, CommittedOnly, PartialOnDisk, FinalOnDisk, Counts,
      Building, Larger, PartFile, WorthKeeping
<1>2. CASE \E s \in Specs : OpenUncached(s)
  BY <1>0, <1>2 DEF OpenUncached, Loads, Malformed, RemoveFilePath, MayRemain, buildVars,
      TypeOK, Files, Versions, ObjectPcs, BuildPcs, CommittedOnly, PartialOnDisk,
      FinalOnDisk, Counts, Building, Larger, PartFile, WorthKeeping
<1>3. CASE StartBuild
  BY <1>0, <1>3 DEF StartBuild, TypeOK, Files, Versions, ObjectPcs, BuildPcs, CommittedOnly,
      PartialOnDisk, FinalOnDisk, Counts, Building, Larger, PartFile, WorthKeeping
<1>4. CASE Inflate
  BY <1>0, <1>4 DEF Inflate, objectVars, TypeOK, Files, Versions, ObjectPcs, BuildPcs,
      CommittedOnly, PartialOnDisk, FinalOnDisk, Counts, Building, Larger, PartFile,
      WorthKeeping
<1>5. CASE InflateFails
  BY <1>0, <1>5 DEF InflateFails, StartFails, ResetBuild, objectVars, Destroyed, TypeOK,
      Files, Versions, ObjectPcs, BuildPcs, CommittedOnly, PartialOnDisk, FinalOnDisk,
      Counts, Building, Larger, PartFile, WorthKeeping
<1>6. CASE CreateBuild
  BY <1>0, <1>6 DEF CreateBuild, objectVars, buildVars, TypeOK, Files, Versions, ObjectPcs,
      BuildPcs, CommittedOnly, PartialOnDisk, FinalOnDisk, Counts, Building, Larger,
      PartFile, WorthKeeping
<1>7. CASE CreateFails
  BY <1>0, <1>7 DEF CreateFails, DropTmpHtml, StartFails, ResetBuild, objectVars, Destroyed,
      TypeOK, Files, Versions, ObjectPcs, BuildPcs, CommittedOnly, PartialOnDisk,
      FinalOnDisk, Counts, Building, Larger, PartFile, WorthKeeping
<1>8. CASE BeginParseFails
  BY <1>0, <1>8 DEF BeginParseFails, RemoveFilePath, MayRemain, DropTmpHtml, ResetBuild,
      TypeOK, Files, Versions, ObjectPcs, BuildPcs, CommittedOnly, PartialOnDisk,
      FinalOnDisk, Counts, Building, Larger, PartFile, WorthKeeping
<1>9. CASE LayPage
  BY <1>0, <1>9 DEF LayPage, Larger, diskVars, TypeOK, Files, Versions, ObjectPcs, BuildPcs,
      CommittedOnly, PartialOnDisk, FinalOnDisk, Counts, Building, PartFile, WorthKeeping
<1>10. CASE ParseFails
  BY <1>0, <1>10 DEF ParseFails, RemoveFilePath, MayRemain, DropTmpHtml, Destroyed,
      ResetBuild, TypeOK, Files, Versions, ObjectPcs, BuildPcs, CommittedOnly,
      PartialOnDisk, FinalOnDisk, Counts, Building, Larger, PartFile, WorthKeeping
<1>11. CASE Finalize
  BY <1>0, <1>11 DEF Finalize, objectVars, TypeOK, Files, Versions, ObjectPcs, BuildPcs,
      CommittedOnly, PartialOnDisk, FinalOnDisk, Counts, Building, Larger, PartFile,
      WorthKeeping
<1>12. CASE CloseIdle
  BY <1>0, <1>12 DEF CloseIdle, Destroyed, ResetBuild, diskVars, TypeOK, Files, Versions,
      ObjectPcs, BuildPcs, CommittedOnly, PartialOnDisk, FinalOnDisk, Counts, Building,
      Larger, PartFile, WorthKeeping
<1>13. CASE CloseKeeping
  BY <1>0, <1>13 DEF CloseKeeping, WorthKeeping, diskVars, objectVars, TypeOK, Files,
      Versions, ObjectPcs, BuildPcs, CommittedOnly, PartialOnDisk, FinalOnDisk, Counts,
      Building, Larger, PartFile
<1>14. CASE CloseDropping
  BY <1>0, <1>14 DEF CloseDropping, WorthKeeping, DropTmpHtml, Destroyed, ResetBuild,
      TypeOK, Files, Versions, ObjectPcs, BuildPcs, CommittedOnly, PartialOnDisk,
      FinalOnDisk, Counts, Building, Larger, PartFile
<1>15. CASE WriteTables
  BY <1>0, <1>15 DEF WriteTables, objectVars, buildVars, TypeOK, Files, Versions, ObjectPcs,
      BuildPcs, CommittedOnly, PartialOnDisk, FinalOnDisk, Counts, Building, Larger,
      PartFile, WorthKeeping
<1>16. CASE RefuseTables
  BY <1>0, <1>16 DEF RefuseTables, CommitFails, DropTmpHtml, Destroyed, ResetBuild, TypeOK,
      Files, Versions, ObjectPcs, BuildPcs, CommittedOnly, PartialOnDisk, FinalOnDisk,
      Counts, Building, Larger, PartFile, WorthKeeping
<1>17. CASE StampVersion
  BY <1>0, <1>17 DEF StampVersion, objectVars, buildVars, TypeOK, Files, Versions,
      ObjectPcs, BuildPcs, CommittedOnly, PartialOnDisk, FinalOnDisk, Counts, Building,
      Larger, PartFile, WorthKeeping
<1>18. CASE RemoveOld
  BY <1>0, <1>18 DEF RemoveOld, RemoveFilePath, MayRemain, objectVars, buildVars, TypeOK,
      Files, Versions, ObjectPcs, BuildPcs, CommittedOnly, PartialOnDisk, FinalOnDisk,
      Counts, Building, Larger, PartFile, WorthKeeping
<1>19. CASE FinalizeSucceeds
  BY <1>0, <1>19 DEF FinalizeSucceeds, Renamed, ResetBuild, TypeOK, Files, Versions,
      ObjectPcs, BuildPcs, CommittedOnly, PartialOnDisk, FinalOnDisk, Counts, Building,
      Larger, PartFile, WorthKeeping
<1>20. CASE SuspendSucceeds
  BY <1>0, <1>20 DEF SuspendSucceeds, Renamed, DropTmpHtml, Destroyed, ResetBuild, TypeOK,
      Files, Versions, ObjectPcs, BuildPcs, CommittedOnly, PartialOnDisk, FinalOnDisk,
      Counts, Building, Larger, PartFile, WorthKeeping
<1>21. CASE RenameFails
  BY <1>0, <1>21 DEF RenameFails, CommitFails, DropTmpHtml, Destroyed, ResetBuild, TypeOK,
      Files, Versions, ObjectPcs, BuildPcs, CommittedOnly, PartialOnDisk, FinalOnDisk,
      Counts, Building, Larger, PartFile, WorthKeeping
<1>22. CASE PageUnreadable
  BY <1>0, <1>22 DEF PageUnreadable, PageNumbers, Readable, Building, BuildPcs, OnDisk,
      RemoveFilePath, MayRemain, DropTmpHtml, Destroyed, ResetBuild, TypeOK, Files,
      Versions, ObjectPcs, CommittedOnly, PartialOnDisk, FinalOnDisk, Counts, Larger,
      PartFile, WorthKeeping
<1>23. CASE ClearBook
  BY <1>0, <1>23 DEF ClearBook, RemoveFilePath, MayRemain, objectVars, buildVars, TypeOK,
      Files, Versions, ObjectPcs, BuildPcs, CommittedOnly, PartialOnDisk, FinalOnDisk,
      Counts, Building, Larger, PartFile, WorthKeeping
<1>24. CASE Crash
  BY <1>0, <1>24 DEF Crash, ResetBuild, diskVars, TypeOK, Files, Versions, ObjectPcs,
      BuildPcs, CommittedOnly, PartialOnDisk, FinalOnDisk, Counts, Building, Larger,
      PartFile, WorthKeeping
<1>25. CASE UNCHANGED vars
  BY <1>0, <1>25 DEF vars, diskVars, objectVars, buildVars, FinalOnDisk
<1> QED
  BY <1>1, <1>2, <1>3, <1>4, <1>5, <1>6, <1>7, <1>8, <1>9, <1>10, <1>11, <1>12, <1>13,
      <1>14, <1>15, <1>16, <1>17, <1>18, <1>19, <1>20, <1>21, <1>22, <1>23, <1>24, <1>25 DEF
      Next, Build, Commit

(* The counters follow the page table: each page adds to both, or to the bad ones. *)
LEMMA CountsStep == IInv /\ [Next]_vars => Counts'
<1> SUFFICES ASSUME IInv, [Next]_vars PROVE Counts'
  OBVIOUS
<1>0. TypeOK /\ PartialOnDisk /\ Counts /\ PartFile
  BY DEF IInv
<1>1. CASE \E s \in Specs : OpenCached(s)
  BY <1>0, <1>1 DEF OpenCached, Loads, Malformed, diskVars, buildVars, TypeOK, Files,
      Versions, ObjectPcs, BuildPcs, PartialOnDisk, Counts, Building, Larger, PartFile,
      WorthKeeping
<1>2. CASE \E s \in Specs : OpenUncached(s)
  BY <1>0, <1>2 DEF OpenUncached, Loads, Malformed, RemoveFilePath, MayRemain, buildVars,
      TypeOK, Files, Versions, ObjectPcs, BuildPcs, PartialOnDisk, Counts, Building, Larger,
      PartFile, WorthKeeping
<1>3. CASE StartBuild
  BY <1>0, <1>3 DEF StartBuild, TypeOK, Files, Versions, ObjectPcs, BuildPcs, PartialOnDisk,
      Counts, Building, Larger, PartFile, WorthKeeping
<1>4. CASE Inflate
  BY <1>0, <1>4 DEF Inflate, objectVars, TypeOK, Files, Versions, ObjectPcs, BuildPcs,
      PartialOnDisk, Counts, Building, Larger, PartFile, WorthKeeping
<1>5. CASE InflateFails
  BY <1>0, <1>5 DEF InflateFails, StartFails, ResetBuild, objectVars, Destroyed, TypeOK,
      Files, Versions, ObjectPcs, BuildPcs, PartialOnDisk, Counts, Building, Larger,
      PartFile, WorthKeeping
<1>6. CASE CreateBuild
  BY <1>0, <1>6 DEF CreateBuild, objectVars, buildVars, TypeOK, Files, Versions, ObjectPcs,
      BuildPcs, PartialOnDisk, Counts, Building, Larger, PartFile, WorthKeeping
<1>7. CASE CreateFails
  BY <1>0, <1>7 DEF CreateFails, DropTmpHtml, StartFails, ResetBuild, objectVars, Destroyed,
      TypeOK, Files, Versions, ObjectPcs, BuildPcs, PartialOnDisk, Counts, Building, Larger,
      PartFile, WorthKeeping
<1>8. CASE BeginParseFails
  BY <1>0, <1>8 DEF BeginParseFails, RemoveFilePath, MayRemain, DropTmpHtml, ResetBuild,
      TypeOK, Files, Versions, ObjectPcs, BuildPcs, PartialOnDisk, Counts, Building, Larger,
      PartFile, WorthKeeping
<1>9. CASE LayPage
  <2>1. laid \in Nat /\ builtPageCount_ \in Nat /\ partialPageCount_ \in Nat /\ Pages[spec] \in Nat
    BY <1>0 DEF TypeOK
  <2>2. /\ Building /\ Building' /\ laid' = laid + 1 /\ laid' <= Pages[spec]'
        /\ pc' = "building" /\ partialPageCount_' = partialPageCount_
    BY <1>9, <2>1 DEF LayPage, Building, BuildPcs
  <2>3. /\ builtPageCount_ <= laid /\ bad \subseteq 0..(laid - 1)
        /\ bad = {} => builtPageCount_ = laid
        /\ pageCount = Larger(partialPageCount_, builtPageCount_)
    BY <1>0, <2>2 DEF Counts
  <2>4. CASE builtPageCount_' = builtPageCount_ + 1 /\ bad' = bad /\ pageCount' = Larger(pageCount, builtPageCount_ + 1)
    <3>1. pageCount' = Larger(partialPageCount_', builtPageCount_')
      BY <2>1, <2>2, <2>3, <2>4 DEF Larger
    <3> QED
      BY <2>1, <2>2, <2>3, <2>4, <3>1 DEF Counts
  <2>5. CASE bad' = bad \cup {laid} /\ builtPageCount_' = builtPageCount_ /\ pageCount' = pageCount
    <3>1. bad' # {} /\ bad' \subseteq 0..(laid' - 1)
      BY <2>1, <2>2, <2>3, <2>5
    <3> QED
      BY <2>1, <2>2, <2>3, <2>5, <3>1 DEF Counts
  <2> QED
    BY <1>9, <2>4, <2>5 DEF LayPage
<1>10. CASE ParseFails
  BY <1>0, <1>10 DEF ParseFails, RemoveFilePath, MayRemain, DropTmpHtml, Destroyed,
      ResetBuild, TypeOK, Files, Versions, ObjectPcs, BuildPcs, PartialOnDisk, Counts,
      Building, Larger, PartFile, WorthKeeping
<1>11. CASE Finalize
  BY <1>0, <1>11 DEF Finalize, objectVars, TypeOK, Files, Versions, ObjectPcs, BuildPcs,
      PartialOnDisk, Counts, Building, Larger, PartFile, WorthKeeping
<1>12. CASE CloseIdle
  BY <1>0, <1>12 DEF CloseIdle, Destroyed, ResetBuild, diskVars, TypeOK, Files, Versions,
      ObjectPcs, BuildPcs, PartialOnDisk, Counts, Building, Larger, PartFile, WorthKeeping
<1>13. CASE CloseKeeping
  BY <1>0, <1>13 DEF CloseKeeping, WorthKeeping, diskVars, objectVars, TypeOK, Files,
      Versions, ObjectPcs, BuildPcs, PartialOnDisk, Counts, Building, Larger, PartFile
<1>14. CASE CloseDropping
  BY <1>0, <1>14 DEF CloseDropping, WorthKeeping, DropTmpHtml, Destroyed, ResetBuild,
      TypeOK, Files, Versions, ObjectPcs, BuildPcs, PartialOnDisk, Counts, Building, Larger,
      PartFile
<1>15. CASE WriteTables
  BY <1>0, <1>15 DEF WriteTables, objectVars, buildVars, TypeOK, Files, Versions, ObjectPcs,
      BuildPcs, PartialOnDisk, Counts, Building, Larger, PartFile, WorthKeeping
<1>16. CASE RefuseTables
  BY <1>0, <1>16 DEF RefuseTables, CommitFails, DropTmpHtml, Destroyed, ResetBuild, TypeOK,
      Files, Versions, ObjectPcs, BuildPcs, PartialOnDisk, Counts, Building, Larger,
      PartFile, WorthKeeping
<1>17. CASE StampVersion
  BY <1>0, <1>17 DEF StampVersion, objectVars, buildVars, TypeOK, Files, Versions,
      ObjectPcs, BuildPcs, PartialOnDisk, Counts, Building, Larger, PartFile, WorthKeeping
<1>18. CASE RemoveOld
  BY <1>0, <1>18 DEF RemoveOld, RemoveFilePath, MayRemain, objectVars, buildVars, TypeOK,
      Files, Versions, ObjectPcs, BuildPcs, PartialOnDisk, Counts, Building, Larger,
      PartFile, WorthKeeping
<1>19. CASE FinalizeSucceeds
  BY <1>0, <1>19 DEF FinalizeSucceeds, Renamed, ResetBuild, TypeOK, Files, Versions,
      ObjectPcs, BuildPcs, PartialOnDisk, Counts, Building, Larger, PartFile, WorthKeeping
<1>20. CASE SuspendSucceeds
  BY <1>0, <1>20 DEF SuspendSucceeds, Renamed, DropTmpHtml, Destroyed, ResetBuild, TypeOK,
      Files, Versions, ObjectPcs, BuildPcs, PartialOnDisk, Counts, Building, Larger,
      PartFile, WorthKeeping
<1>21. CASE RenameFails
  BY <1>0, <1>21 DEF RenameFails, CommitFails, DropTmpHtml, Destroyed, ResetBuild, TypeOK,
      Files, Versions, ObjectPcs, BuildPcs, PartialOnDisk, Counts, Building, Larger,
      PartFile, WorthKeeping
<1>22. CASE PageUnreadable
  BY <1>0, <1>22 DEF PageUnreadable, PageNumbers, Readable, Building, BuildPcs, OnDisk,
      RemoveFilePath, MayRemain, DropTmpHtml, Destroyed, ResetBuild, TypeOK, Files,
      Versions, ObjectPcs, PartialOnDisk, Counts, Larger, PartFile, WorthKeeping
<1>23. CASE Crash
  BY <1>0, <1>23 DEF Crash, ResetBuild, diskVars, TypeOK, Files, Versions, ObjectPcs,
      BuildPcs, PartialOnDisk, Counts, Building, Larger, PartFile, WorthKeeping
<1>24. CASE ClearBook
  BY <1>0, <1>24 DEF ClearBook, RemoveFilePath, MayRemain, objectVars, buildVars, Counts,
      Building, BuildPcs, Larger
<1>25. CASE UNCHANGED vars
  BY <1>0, <1>25 DEF vars, diskVars, objectVars, buildVars, Counts, Building, BuildPcs,
      Larger
<1> QED
  BY <1>1, <1>2, <1>3, <1>4, <1>5, <1>6, <1>7, <1>8, <1>9, <1>10, <1>11, <1>12, <1>13,
      <1>14, <1>15, <1>16, <1>17, <1>18, <1>19, <1>20, <1>21, <1>22, <1>23, <1>24, <1>25 DEF
      Next, Build, Commit

(* Each step of the commit adds its part to the .part file. *)
LEMMA PartFileStep == IInv /\ [Next]_vars => PartFile'
<1> SUFFICES ASSUME IInv, [Next]_vars PROVE PartFile'
  OBVIOUS
<1>0. TypeOK /\ Counts /\ PartFile /\ PartialOnDisk
  BY DEF IInv
<1>1. CASE \E s \in Specs : OpenCached(s)
  BY <1>0, <1>1 DEF OpenCached, Loads, Malformed, diskVars, buildVars, TypeOK, Files,
      Versions, ObjectPcs, BuildPcs, Counts, Building, Larger, PartFile, WorthKeeping,
      PartialOnDisk
<1>2. CASE \E s \in Specs : OpenUncached(s)
  BY <1>0, <1>2 DEF OpenUncached, Loads, Malformed, RemoveFilePath, MayRemain, buildVars,
      TypeOK, Files, Versions, ObjectPcs, BuildPcs, Counts, Building, Larger, PartFile,
      WorthKeeping, PartialOnDisk
<1>3. CASE StartBuild
  BY <1>0, <1>3 DEF StartBuild, TypeOK, Files, Versions, ObjectPcs, BuildPcs, Counts,
      Building, Larger, PartFile, WorthKeeping, PartialOnDisk
<1>4. CASE Inflate
  BY <1>0, <1>4 DEF Inflate, objectVars, TypeOK, Files, Versions, ObjectPcs, BuildPcs,
      Counts, Building, Larger, PartFile, WorthKeeping, PartialOnDisk
<1>5. CASE InflateFails
  BY <1>0, <1>5 DEF InflateFails, StartFails, ResetBuild, objectVars, Destroyed, TypeOK,
      Files, Versions, ObjectPcs, BuildPcs, Counts, Building, Larger, PartFile,
      WorthKeeping, PartialOnDisk
<1>6. CASE CreateBuild
  BY <1>0, <1>6 DEF CreateBuild, objectVars, buildVars, TypeOK, Files, Versions, ObjectPcs,
      BuildPcs, Counts, Building, Larger, PartFile, WorthKeeping, PartialOnDisk
<1>7. CASE CreateFails
  BY <1>0, <1>7 DEF CreateFails, DropTmpHtml, StartFails, ResetBuild, objectVars, Destroyed,
      TypeOK, Files, Versions, ObjectPcs, BuildPcs, Counts, Building, Larger, PartFile,
      WorthKeeping, PartialOnDisk
<1>8. CASE BeginParseFails
  BY <1>0, <1>8 DEF BeginParseFails, RemoveFilePath, MayRemain, DropTmpHtml, ResetBuild,
      TypeOK, Files, Versions, ObjectPcs, BuildPcs, Counts, Building, Larger, PartFile,
      WorthKeeping, PartialOnDisk
<1>9. CASE LayPage
  BY <1>0, <1>9 DEF LayPage, Larger, diskVars, TypeOK, Files, Versions, ObjectPcs, BuildPcs,
      Counts, Building, PartFile, WorthKeeping, PartialOnDisk
<1>10. CASE ParseFails
  BY <1>0, <1>10 DEF ParseFails, RemoveFilePath, MayRemain, DropTmpHtml, Destroyed,
      ResetBuild, TypeOK, Files, Versions, ObjectPcs, BuildPcs, Counts, Building, Larger,
      PartFile, WorthKeeping, PartialOnDisk
<1>11. CASE Finalize
  BY <1>0, <1>11 DEF Finalize, objectVars, TypeOK, Files, Versions, ObjectPcs, BuildPcs,
      Counts, Building, Larger, PartFile, WorthKeeping, PartialOnDisk
<1>12. CASE CloseIdle
  BY <1>0, <1>12 DEF CloseIdle, Destroyed, ResetBuild, diskVars, TypeOK, Files, Versions,
      ObjectPcs, BuildPcs, Counts, Building, Larger, PartFile, WorthKeeping, PartialOnDisk
<1>13. CASE CloseKeeping
  BY <1>0, <1>13 DEF CloseKeeping, WorthKeeping, diskVars, objectVars, TypeOK, Files,
      Versions, ObjectPcs, BuildPcs, Counts, Building, Larger, PartFile, PartialOnDisk
<1>14. CASE CloseDropping
  BY <1>0, <1>14 DEF CloseDropping, WorthKeeping, DropTmpHtml, Destroyed, ResetBuild,
      TypeOK, Files, Versions, ObjectPcs, BuildPcs, Counts, Building, Larger, PartFile,
      PartialOnDisk
<1>15. CASE WriteTables
  <2>1. PICK written \in {"whole", "short"} :
          binTmp' = [binTmp EXCEPT !.laid = laid, !.bad = bad, !.cut = cut,
                                   !.count = builtPageCount_, !.tables = written]
    BY <1>15 DEF WriteTables
  <2>2. binTmp \in Files /\ binTmp.spec = spec /\ builtPageCount_ = laid
    BY <1>0, <1>15 DEF WriteTables, TypeOK, PartFile, Counts, Building, BuildPcs
  <2>3. /\ binTmp' \in Files /\ binTmp'.spec = spec /\ binTmp'.bad = {}
        /\ binTmp'.laid = laid /\ binTmp'.count = laid /\ binTmp'.tables # "none"
    BY <1>0, <1>15, <2>1, <2>2 DEF WriteTables, TypeOK, Files
  <2>4. binTmp' # NoFile
    BY <2>3, NoFileAssumption
  <2> QED
    BY <1>0, <1>15, <2>3, <2>4 DEF WriteTables, objectVars, buildVars, PartFile, WorthKeeping,
        Building, BuildPcs
<1>16. CASE RefuseTables
  BY <1>0, <1>16 DEF RefuseTables, CommitFails, DropTmpHtml, Destroyed, ResetBuild, TypeOK,
      Files, Versions, ObjectPcs, BuildPcs, Counts, Building, Larger, PartFile,
      WorthKeeping, PartialOnDisk
<1>17. CASE StampVersion
  BY <1>0, <1>17 DEF StampVersion, objectVars, buildVars, TypeOK, Files, Versions,
      ObjectPcs, BuildPcs, Counts, Building, Larger, PartFile, WorthKeeping, PartialOnDisk
<1>18. CASE RemoveOld
  BY <1>0, <1>18 DEF RemoveOld, RemoveFilePath, MayRemain, objectVars, buildVars, TypeOK,
      Files, Versions, ObjectPcs, BuildPcs, Counts, Building, Larger, PartFile,
      WorthKeeping, PartialOnDisk
<1>19. CASE FinalizeSucceeds
  BY <1>0, <1>19 DEF FinalizeSucceeds, Renamed, ResetBuild, TypeOK, Files, Versions,
      ObjectPcs, BuildPcs, Counts, Building, Larger, PartFile, WorthKeeping, PartialOnDisk
<1>20. CASE SuspendSucceeds
  BY <1>0, <1>20 DEF SuspendSucceeds, Renamed, DropTmpHtml, Destroyed, ResetBuild, TypeOK,
      Files, Versions, ObjectPcs, BuildPcs, Counts, Building, Larger, PartFile,
      WorthKeeping, PartialOnDisk
<1>21. CASE RenameFails
  BY <1>0, <1>21 DEF RenameFails, CommitFails, DropTmpHtml, Destroyed, ResetBuild, TypeOK,
      Files, Versions, ObjectPcs, BuildPcs, Counts, Building, Larger, PartFile,
      WorthKeeping, PartialOnDisk
<1>22. CASE PageUnreadable
  BY <1>0, <1>22 DEF PageUnreadable, PageNumbers, Readable, Building, BuildPcs, OnDisk,
      RemoveFilePath, MayRemain, DropTmpHtml, Destroyed, ResetBuild, TypeOK, Files,
      Versions, ObjectPcs, Counts, Larger, PartFile, WorthKeeping, PartialOnDisk
<1>23. CASE ClearBook
  BY <1>0, <1>23 DEF ClearBook, RemoveFilePath, MayRemain, objectVars, buildVars, TypeOK,
      Files, Versions, ObjectPcs, BuildPcs, Counts, Building, Larger, PartFile,
      WorthKeeping, PartialOnDisk
<1>24. CASE Crash
  BY <1>0, <1>24 DEF Crash, ResetBuild, diskVars, TypeOK, Files, Versions, ObjectPcs,
      BuildPcs, Counts, Building, Larger, PartFile, WorthKeeping, PartialOnDisk
<1>25. CASE UNCHANGED vars
  BY <1>0, <1>25 DEF vars, diskVars, objectVars, buildVars, PartFile, BuildPcs,
      WorthKeeping, Building
<1> QED
  BY <1>1, <1>2, <1>3, <1>4, <1>5, <1>6, <1>7, <1>8, <1>9, <1>10, <1>11, <1>12, <1>13,
      <1>14, <1>15, <1>16, <1>17, <1>18, <1>19, <1>20, <1>21, <1>22, <1>23, <1>24, <1>25 DEF
      Next, Build, Commit

(* Every exit cleans up the temporary files that the build owns. *)
LEMMA TempFilesStep == IInv /\ [Next]_vars => TempFiles'
<1> SUFFICES ASSUME IInv, [Next]_vars PROVE TempFiles'
  OBVIOUS
<1>0. Counts /\ TempFiles /\ HtmlWhole
  BY DEF IInv
<1>1. CASE \E s \in Specs : OpenCached(s)
  BY <1>0, <1>1 DEF OpenCached, Loads, Malformed, diskVars, buildVars, Counts, Building,
      BuildPcs, Larger, TempFiles, HtmlWhole
<1>2. CASE \E s \in Specs : OpenUncached(s)
  BY <1>0, <1>2 DEF OpenUncached, Loads, Malformed, RemoveFilePath, MayRemain, buildVars,
      Counts, Building, BuildPcs, Larger, TempFiles, HtmlWhole
<1>3. CASE StartBuild
  BY <1>0, <1>3 DEF StartBuild, Counts, Building, BuildPcs, Larger, TempFiles, HtmlWhole
<1>4. CASE Inflate
  BY <1>0, <1>4 DEF Inflate, objectVars, Counts, Building, BuildPcs, Larger, TempFiles,
      HtmlWhole
<1>5. CASE InflateFails
  BY <1>0, <1>5 DEF InflateFails, StartFails, ResetBuild, objectVars, Destroyed, Counts,
      Building, BuildPcs, Larger, TempFiles, HtmlWhole
<1>6. CASE CreateBuild
  BY <1>0, <1>6 DEF CreateBuild, objectVars, buildVars, Counts, Building, BuildPcs, Larger,
      TempFiles, HtmlWhole
<1>7. CASE CreateFails
  BY <1>0, <1>7 DEF CreateFails, DropTmpHtml, StartFails, ResetBuild, objectVars, Destroyed,
      Counts, Building, BuildPcs, Larger, TempFiles, HtmlWhole
<1>8. CASE BeginParseFails
  BY <1>0, <1>8 DEF BeginParseFails, RemoveFilePath, MayRemain, DropTmpHtml, ResetBuild,
      Counts, Building, BuildPcs, Larger, TempFiles, HtmlWhole
<1>9. CASE ParseFails
  BY <1>0, <1>9 DEF ParseFails, RemoveFilePath, MayRemain, DropTmpHtml, Destroyed,
      ResetBuild, Counts, Building, BuildPcs, Larger, TempFiles, HtmlWhole
<1>10. CASE Finalize
  BY <1>0, <1>10 DEF Finalize, objectVars, Counts, Building, BuildPcs, Larger, TempFiles,
      HtmlWhole
<1>11. CASE CloseIdle
  BY <1>0, <1>11 DEF CloseIdle, Destroyed, ResetBuild, diskVars, Counts, Building, BuildPcs,
      Larger, TempFiles, HtmlWhole
<1>12. CASE CloseKeeping
  BY <1>0, <1>12 DEF CloseKeeping, WorthKeeping, diskVars, objectVars, Counts, Building,
      BuildPcs, Larger, TempFiles, HtmlWhole
<1>13. CASE CloseDropping
  BY <1>0, <1>13 DEF CloseDropping, WorthKeeping, DropTmpHtml, Destroyed, ResetBuild,
      Counts, Building, BuildPcs, Larger, TempFiles, HtmlWhole
<1>14. CASE WriteTables
  BY <1>0, <1>14 DEF WriteTables, objectVars, buildVars, Counts, Building, BuildPcs, Larger,
      TempFiles, HtmlWhole
<1>15. CASE RefuseTables
  BY <1>0, <1>15 DEF RefuseTables, CommitFails, DropTmpHtml, Destroyed, ResetBuild, Counts,
      Building, BuildPcs, Larger, TempFiles, HtmlWhole
<1>16. CASE StampVersion
  BY <1>0, <1>16 DEF StampVersion, objectVars, buildVars, Counts, Building, BuildPcs,
      Larger, TempFiles, HtmlWhole
<1>17. CASE RemoveOld
  BY <1>0, <1>17 DEF RemoveOld, RemoveFilePath, MayRemain, objectVars, buildVars, Counts,
      Building, BuildPcs, Larger, TempFiles, HtmlWhole
<1>18. CASE FinalizeSucceeds
  BY <1>0, <1>18 DEF FinalizeSucceeds, Renamed, ResetBuild, Counts, Building, BuildPcs,
      Larger, TempFiles, HtmlWhole
<1>19. CASE SuspendSucceeds
  BY <1>0, <1>19 DEF SuspendSucceeds, Renamed, DropTmpHtml, Destroyed, ResetBuild, Counts,
      Building, BuildPcs, Larger, TempFiles, HtmlWhole
<1>20. CASE RenameFails
  BY <1>0, <1>20 DEF RenameFails, CommitFails, DropTmpHtml, Destroyed, ResetBuild, Counts,
      Building, BuildPcs, Larger, TempFiles, HtmlWhole
<1>21. CASE PageUnreadable
  BY <1>0, <1>21 DEF PageUnreadable, PageNumbers, Readable, Building, BuildPcs, OnDisk,
      RemoveFilePath, MayRemain, DropTmpHtml, Destroyed, ResetBuild, Counts, Larger,
      TempFiles, HtmlWhole
<1>22. CASE ClearBook
  BY <1>0, <1>22 DEF ClearBook, RemoveFilePath, MayRemain, objectVars, buildVars, Counts,
      Building, BuildPcs, Larger, TempFiles, HtmlWhole
<1>23. CASE Crash
  BY <1>0, <1>23 DEF Crash, ResetBuild, diskVars, Counts, Building, BuildPcs, Larger,
      TempFiles, HtmlWhole
<1>24. CASE LayPage
  BY <1>0, <1>24 DEF LayPage, Larger, diskVars, TempFiles, BuildPcs, Building
<1>25. CASE UNCHANGED vars
  BY <1>0, <1>25 DEF vars, diskVars, objectVars, buildVars, TempFiles, BuildPcs, Building
<1> QED
  BY <1>1, <1>2, <1>3, <1>4, <1>5, <1>6, <1>7, <1>8, <1>9, <1>10, <1>11, <1>12, <1>13,
      <1>14, <1>15, <1>16, <1>17, <1>18, <1>19, <1>20, <1>21, <1>22, <1>23, <1>24, <1>25 DEF
      Next, Build, Commit

(* Only a whole chapter is renamed to htmlPath. *)
LEMMA HtmlWholeStep == IInv /\ [Next]_vars => HtmlWhole'
<1> SUFFICES ASSUME IInv, [Next]_vars PROVE HtmlWhole'
  OBVIOUS
<1>0. TypeOK /\ TempFiles /\ HtmlWhole /\ PartFile
  BY DEF IInv
<1>1. CASE \E s \in Specs : OpenCached(s)
  BY <1>0, <1>1 DEF OpenCached, Loads, Malformed, diskVars, buildVars, TypeOK, Files,
      Versions, ObjectPcs, BuildPcs, TempFiles, Building, HtmlWhole, PartFile, WorthKeeping
<1>2. CASE \E s \in Specs : OpenUncached(s)
  BY <1>0, <1>2 DEF OpenUncached, Loads, Malformed, RemoveFilePath, MayRemain, buildVars,
      TypeOK, Files, Versions, ObjectPcs, BuildPcs, TempFiles, Building, HtmlWhole,
      PartFile, WorthKeeping
<1>3. CASE StartBuild
  BY <1>0, <1>3 DEF StartBuild, TypeOK, Files, Versions, ObjectPcs, BuildPcs, TempFiles,
      Building, HtmlWhole, PartFile, WorthKeeping
<1>4. CASE Inflate
  BY <1>0, <1>4 DEF Inflate, objectVars, TypeOK, Files, Versions, ObjectPcs, BuildPcs,
      TempFiles, Building, HtmlWhole, PartFile, WorthKeeping
<1>5. CASE InflateFails
  BY <1>0, <1>5 DEF InflateFails, StartFails, ResetBuild, objectVars, Destroyed, TypeOK,
      Files, Versions, ObjectPcs, BuildPcs, TempFiles, Building, HtmlWhole, PartFile,
      WorthKeeping
<1>6. CASE CreateBuild
  BY <1>0, <1>6 DEF CreateBuild, objectVars, buildVars, TypeOK, Files, Versions, ObjectPcs,
      BuildPcs, TempFiles, Building, HtmlWhole, PartFile, WorthKeeping
<1>7. CASE CreateFails
  BY <1>0, <1>7 DEF CreateFails, DropTmpHtml, StartFails, ResetBuild, objectVars, Destroyed,
      TypeOK, Files, Versions, ObjectPcs, BuildPcs, TempFiles, Building, HtmlWhole,
      PartFile, WorthKeeping
<1>8. CASE BeginParseFails
  BY <1>0, <1>8 DEF BeginParseFails, RemoveFilePath, MayRemain, DropTmpHtml, ResetBuild,
      TypeOK, Files, Versions, ObjectPcs, BuildPcs, TempFiles, Building, HtmlWhole,
      PartFile, WorthKeeping
<1>9. CASE ParseFails
  BY <1>0, <1>9 DEF ParseFails, RemoveFilePath, MayRemain, DropTmpHtml, Destroyed,
      ResetBuild, TypeOK, Files, Versions, ObjectPcs, BuildPcs, TempFiles, Building,
      HtmlWhole, PartFile, WorthKeeping
<1>10. CASE Finalize
  BY <1>0, <1>10 DEF Finalize, objectVars, TypeOK, Files, Versions, ObjectPcs, BuildPcs,
      TempFiles, Building, HtmlWhole, PartFile, WorthKeeping
<1>11. CASE CloseIdle
  BY <1>0, <1>11 DEF CloseIdle, Destroyed, ResetBuild, diskVars, TypeOK, Files, Versions,
      ObjectPcs, BuildPcs, TempFiles, Building, HtmlWhole, PartFile, WorthKeeping
<1>12. CASE CloseKeeping
  BY <1>0, <1>12 DEF CloseKeeping, WorthKeeping, diskVars, objectVars, TypeOK, Files,
      Versions, ObjectPcs, BuildPcs, TempFiles, Building, HtmlWhole, PartFile
<1>13. CASE CloseDropping
  BY <1>0, <1>13 DEF CloseDropping, WorthKeeping, DropTmpHtml, Destroyed, ResetBuild,
      TypeOK, Files, Versions, ObjectPcs, BuildPcs, TempFiles, Building, HtmlWhole, PartFile
<1>14. CASE WriteTables
  BY <1>0, <1>14 DEF WriteTables, objectVars, buildVars, TypeOK, Files, Versions, ObjectPcs,
      BuildPcs, TempFiles, Building, HtmlWhole, PartFile, WorthKeeping
<1>15. CASE RefuseTables
  BY <1>0, <1>15 DEF RefuseTables, CommitFails, DropTmpHtml, Destroyed, ResetBuild, TypeOK,
      Files, Versions, ObjectPcs, BuildPcs, TempFiles, Building, HtmlWhole, PartFile,
      WorthKeeping
<1>16. CASE StampVersion
  BY <1>0, <1>16 DEF StampVersion, objectVars, buildVars, TypeOK, Files, Versions,
      ObjectPcs, BuildPcs, TempFiles, Building, HtmlWhole, PartFile, WorthKeeping
<1>17. CASE RemoveOld
  BY <1>0, <1>17 DEF RemoveOld, RemoveFilePath, MayRemain, objectVars, buildVars, TypeOK,
      Files, Versions, ObjectPcs, BuildPcs, TempFiles, Building, HtmlWhole, PartFile,
      WorthKeeping
<1>18. CASE FinalizeSucceeds
  BY <1>0, <1>18 DEF FinalizeSucceeds, Renamed, ResetBuild, TypeOK, Files, Versions,
      ObjectPcs, BuildPcs, TempFiles, Building, HtmlWhole, PartFile, WorthKeeping
<1>19. CASE SuspendSucceeds
  BY <1>0, <1>19 DEF SuspendSucceeds, Renamed, DropTmpHtml, Destroyed, ResetBuild, TypeOK,
      Files, Versions, ObjectPcs, BuildPcs, TempFiles, Building, HtmlWhole, PartFile,
      WorthKeeping
<1>20. CASE RenameFails
  BY <1>0, <1>20 DEF RenameFails, CommitFails, DropTmpHtml, Destroyed, ResetBuild, TypeOK,
      Files, Versions, ObjectPcs, BuildPcs, TempFiles, Building, HtmlWhole, PartFile,
      WorthKeeping
<1>21. CASE PageUnreadable
  BY <1>0, <1>21 DEF PageUnreadable, PageNumbers, Readable, Building, BuildPcs, OnDisk,
      RemoveFilePath, MayRemain, DropTmpHtml, Destroyed, ResetBuild, TypeOK, Files,
      Versions, ObjectPcs, TempFiles, HtmlWhole, PartFile, WorthKeeping
<1>22. CASE ClearBook
  BY <1>0, <1>22 DEF ClearBook, RemoveFilePath, MayRemain, objectVars, buildVars, TypeOK,
      Files, Versions, ObjectPcs, BuildPcs, TempFiles, Building, HtmlWhole, PartFile,
      WorthKeeping
<1>23. CASE Crash
  BY <1>0, <1>23 DEF Crash, ResetBuild, diskVars, TypeOK, Files, Versions, ObjectPcs,
      BuildPcs, TempFiles, Building, HtmlWhole, PartFile, WorthKeeping
<1>24. CASE LayPage
  BY <1>0, <1>24 DEF LayPage, Larger, diskVars, HtmlWhole, Building, BuildPcs
<1>25. CASE UNCHANGED vars
  BY <1>0, <1>25 DEF vars, diskVars, objectVars, buildVars, HtmlWhole, Building, BuildPcs
<1> QED
  BY <1>1, <1>2, <1>3, <1>4, <1>5, <1>6, <1>7, <1>8, <1>9, <1>10, <1>11, <1>12, <1>13,
      <1>14, <1>15, <1>16, <1>17, <1>18, <1>19, <1>20, <1>21, <1>22, <1>23, <1>24, <1>25 DEF
      Next, Build, Commit

(* The inductive invariant holds in every reachable state. *)
THEOREM Invariance == Spec => []IInv
<1>1. Init => IInv
  BY InitIInv
<1>2. IInv /\ [Next]_vars => IInv'
  BY TypeOKStep, CommittedOnlyStep, FileFitsStep, PartialOnDiskStep, FinalOnDiskStep,
      CountsStep, PartFileStep, TempFilesStep, HtmlWholeStep DEF IInv
<1> QED
  BY <1>1, <1>2, PTL DEF Spec

(* What the section counts it finds, and can show unless a part of it is missing. *)
LEMMA CountedIsFound == IInv => Available
<1> SUFFICES ASSUME IInv, pc \in {"open", "building"},
                    NEW p \in PageNumbers, p < pageCount
             PROVE  \/ Found(p)
                    \/ pc = "building" /\ p \in bad
                    \/ /\ pc = "open" /\ filePath # NoFile /\ filePath.version = "final"
                       /\ filePath.spec = spec /\ filePath.tables = "short"
  BY DEF Available, Readable
<1>1. /\ p \in Nat /\ pageCount \in Nat /\ partialPageCount_ \in Nat
      /\ laid \in Nat /\ builtPageCount_ \in Nat
      /\ filePath # NoFile => filePath \in Files
  BY DEF PageNumbers, IInv, TypeOK
<1>2. CommittedOnly /\ FileFits /\ PartialOnDisk /\ FinalOnDisk /\ Counts
  BY DEF IInv
<1>3. CASE partial_ /\ p < partialPageCount_
  <2>1. OnDisk(p)
    BY <1>1, <1>2, <1>3 DEF OnDisk, PartialOnDisk, CommittedOnly
  <2> QED
    BY <1>3, <2>1 DEF Found, Building, BuildPcs
<1>4. CASE pc = "open" /\ ~partial_
  <2>1. /\ filePath # NoFile /\ filePath.version = "final" /\ filePath.spec = spec
        /\ filePath.tables \in {"short", "whole"} /\ filePath.bad = {} /\ p < filePath.laid
    BY <1>1, <1>2, <1>4 DEF FinalOnDisk, CommittedOnly, FileFits, Files
  <2> QED
    BY <1>4, <2>1 DEF Found, OnDisk, Building, BuildPcs
<1>5. CASE pc = "building" /\ p < laid
  BY <1>5 DEF Found, Building, BuildPcs
<1>6. CASE pc = "building" /\ ~(p < laid)
  BY <1>1, <1>2, <1>3, <1>6 DEF Counts, Larger, PartialOnDisk, Building, BuildPcs
<1> QED
  BY <1>1, <1>2, <1>3, <1>4, <1>5, <1>6 DEF Counts

(* Nothing in the build, in its .part file or at filePath was cut short. *)
NothingCut ==
    /\ cut = {}
    /\ filePath # NoFile => filePath.cut = {}
    /\ Building => binTmp.cut = {}

(* Only an unchecked write that comes short cuts a page. *)
LEMMA NothingCutStep ==
    "cut" \notin Faults /\ IInv /\ NothingCut /\ [Next]_vars => NothingCut'
<1> SUFFICES ASSUME "cut" \notin Faults, IInv, NothingCut, [Next]_vars PROVE NothingCut'
  OBVIOUS
<1>0. TypeOK /\ PartFile
  BY DEF IInv
<1>1. CASE \/ \E s \in Specs : OpenCached(s) \/ OpenUncached(s)
           \/ StartBuild \/ Inflate \/ ClearBook \/ Crash \/ UNCHANGED vars
  BY <1>1 DEF OpenCached, OpenUncached, StartBuild, Inflate, ClearBook, Crash, ResetBuild,
      RemoveFilePath, MayRemain, vars, diskVars, objectVars, buildVars, NothingCut, Building,
      BuildPcs
<1>2. CASE InflateFails \/ CreateFails \/ BeginParseFails
  BY <1>2 DEF InflateFails, CreateFails, BeginParseFails, StartFails, Destroyed, ResetBuild,
      RemoveFilePath, MayRemain, NothingCut, Building, BuildPcs
<1>3. CASE CreateBuild
  BY <1>3 DEF CreateBuild, buildVars, NothingCut, Building, BuildPcs
<1>4. CASE LayPage
  BY <1>4 DEF LayPage, diskVars, NothingCut, Building, BuildPcs
<1>5. CASE ParseFails \/ RefuseTables \/ RenameFails \/ PageUnreadable
  BY <1>5 DEF ParseFails, RefuseTables, RenameFails, PageUnreadable, CommitFails, Destroyed,
      ResetBuild, RemoveFilePath, MayRemain, NothingCut, Building, BuildPcs
<1>6. CASE Finalize \/ CloseKeeping \/ RemoveOld
  BY <1>6 DEF Finalize, CloseKeeping, RemoveOld, RemoveFilePath, MayRemain, diskVars,
      buildVars, NothingCut, Building, BuildPcs
<1>7. CASE CloseIdle \/ CloseDropping
  BY <1>7 DEF CloseIdle, CloseDropping, Destroyed, ResetBuild, diskVars, NothingCut, Building,
      BuildPcs
<1>8. CASE WriteTables
  <2>1. binTmp \in Files
    BY <1>0, <1>8 DEF WriteTables, TypeOK, PartFile, Building, BuildPcs
  <2> QED
    BY <1>8, <2>1 DEF WriteTables, Files, buildVars, NothingCut, Building, BuildPcs
<1>9. CASE StampVersion
  <2>1. binTmp \in Files
    BY <1>0, <1>9 DEF StampVersion, TypeOK, PartFile, Building, BuildPcs
  <2> QED
    BY <1>9, <2>1 DEF StampVersion, Files, buildVars, NothingCut, Building, BuildPcs
<1>10. CASE FinalizeSucceeds \/ SuspendSucceeds
  BY <1>10 DEF FinalizeSucceeds, SuspendSucceeds, Renamed, Destroyed, ResetBuild, NothingCut,
      Building, BuildPcs
<1> QED
  BY <1>1, <1>2, <1>3, <1>4, <1>5, <1>6, <1>7, <1>8, <1>9, <1>10 DEF Next, Build, Commit

(* A section that ends leaves on the card what it offered. *)
LEMMA ClosingStep ==
    IInv => [ (CloseIdle \/ CloseDropping \/ SuspendSucceeds) /\ bad = {} /\ pageCount > 0 =>
                /\ filePath' # NoFile /\ filePath'.spec = spec
                /\ filePath'.count >= pageCount ]_vars
<1> SUFFICES ASSUME IInv, bad = {}, pageCount > 0, CloseIdle \/ CloseDropping \/ SuspendSucceeds
             PROVE  filePath' # NoFile /\ filePath'.spec = spec /\ filePath'.count >= pageCount
  OBVIOUS
<1>1. /\ pageCount \in Nat /\ partialPageCount_ \in Nat /\ laid \in Nat /\ builtPageCount_ \in Nat
  BY DEF IInv, TypeOK
<1>2. PartialOnDisk /\ FinalOnDisk /\ Counts /\ PartFile
  BY DEF IInv
<1>3. CASE CloseIdle
  BY <1>1, <1>2, <1>3 DEF CloseIdle, diskVars, PartialOnDisk, FinalOnDisk, Counts
<1>4. CASE CloseDropping
  BY <1>1, <1>2, <1>4 DEF CloseDropping, WorthKeeping, PartialOnDisk, Counts, Larger, Building, BuildPcs
<1>5. CASE SuspendSucceeds
  BY <1>1, <1>2, <1>5
     DEF SuspendSucceeds, Renamed, WorthKeeping, PartFile, PartialOnDisk, Counts, Larger,
         Building, BuildPcs
<1> QED
  BY <1>3, <1>4, <1>5

(* A file is kept as a value that is not NoFile. *)
LEMMA KeptIsKept == \A f \in Files : Kept(f) \in [spec : Specs, pages : Nat, complete : BOOLEAN] /\ Kept(f) # NoFile
<1> SUFFICES ASSUME NEW f \in Files PROVE Kept(f) \in [spec : Specs, pages : Nat, complete : BOOLEAN]
  BY NoFileAssumption
<1>1. (f.version = "final") \in BOOLEAN
  BY Zenon
<1>2. f.spec \in Specs /\ f.count \in Nat
  BY DEF Files
<1> QED
  BY <1>1, <1>2 DEF Kept

(* So is what a section offers. *)
LEMMA OfferedIsOffered ==
    \A s \in Specs, n, m \in Nat : [spec |-> s, pages |-> n, base |-> m] # NoFile
  BY NoFileAssumption

(* Each step of Section is a step of PageCache, or none. *)
LEMMA RefinementStep == IInv /\ [Next]_vars => [Cache!Next]_<<cachedPages, offeredPages>>
<1> SUFFICES ASSUME IInv, [Next]_vars PROVE [Cache!Next]_<<cachedPages, offeredPages>>
  OBVIOUS
<1>0. TypeOK /\ CommittedOnly /\ PartialOnDisk /\ FinalOnDisk /\ Counts /\ PartFile
  BY DEF IInv
<1> DEFINE Stutter == UNCHANGED <<cachedPages, offeredPages>>
<1>1. ASSUME \E s \in Specs : OpenCached(s)
      PROVE  \E s \in Specs : Cache!Open(s)
  BY <1>0, <1>1, KeptIsKept, OfferedIsOffered DEF OpenCached, Loads, Malformed, diskVars,
      buildVars, cachedPages, Kept, offeredPages, TypeOK, Files, Versions, ObjectPcs,
      BuildPcs, PartialOnDisk, Cache!Open
<1>2. ASSUME \E s \in Specs : OpenUncached(s)
      PROVE  \E s \in Specs : Cache!Open(s)
  BY <1>0, <1>2, KeptIsKept, OfferedIsOffered DEF OpenUncached, Loads, Malformed,
      RemoveFilePath, MayRemain, buildVars, cachedPages, Kept, offeredPages, TypeOK, Files,
      Versions, ObjectPcs, BuildPcs, PartialOnDisk, Counts, Building, Larger, Cache!Open
<1>3. ASSUME StartBuild
      PROVE  Stutter
  BY <1>0, <1>3, KeptIsKept, OfferedIsOffered DEF StartBuild, cachedPages, Kept,
      offeredPages, PartialOnDisk, Counts, Building, BuildPcs, Larger
<1>4. ASSUME Inflate
      PROVE  Stutter
  BY <1>4, KeptIsKept, OfferedIsOffered DEF Inflate, objectVars, cachedPages, Kept,
      offeredPages
<1>5. ASSUME InflateFails
      PROVE  Stutter \/ Cache!Close
  BY <1>0, <1>5, KeptIsKept, OfferedIsOffered DEF InflateFails, StartFails, ResetBuild,
      objectVars, Destroyed, cachedPages, Kept, offeredPages, PartialOnDisk, Counts,
      Building, BuildPcs, Larger, Cache!Close
<1>6. ASSUME CreateBuild
      PROVE  Stutter
  BY <1>6, KeptIsKept, OfferedIsOffered DEF CreateBuild, objectVars, buildVars, cachedPages,
      Kept, offeredPages
<1>7. ASSUME CreateFails
      PROVE  Stutter \/ Cache!Close
  BY <1>0, <1>7, KeptIsKept, OfferedIsOffered DEF CreateFails, DropTmpHtml, StartFails,
      ResetBuild, objectVars, Destroyed, cachedPages, Kept, offeredPages, PartialOnDisk,
      Counts, Building, BuildPcs, Larger, Cache!Close
<1>8. ASSUME BeginParseFails
      PROVE  Cache!GiveUp \/ Cache!Close
  <2>1. cachedPages' \in {cachedPages, NoFile}
    BY <1>8 DEF BeginParseFails, RemoveFilePath, MayRemain, cachedPages
  <2>2. CASE partial_
    <3>1. offeredPages = [spec |-> spec, pages |-> pageCount, base |-> partialPageCount_]
      BY <1>8, <2>2 DEF BeginParseFails, offeredPages
    <3>2. offeredPages' = [spec |-> spec, pages |-> 0, base |-> 0]
      BY <1>8, <2>2 DEF BeginParseFails, offeredPages
    <3>3. offeredPages # NoFile
      BY <1>0, <3>1, OfferedIsOffered DEF TypeOK
    <3> QED
      BY <2>1, <3>1, <3>2, <3>3 DEF Cache!GiveUp
  <2>3. CASE ~partial_
    BY <1>8, <2>1, <2>3 DEF BeginParseFails, offeredPages, Cache!Close
  <2> QED
    BY <2>2, <2>3
<1>9. ASSUME LayPage
      PROVE  Stutter \/ Cache!Extend
  BY <1>0, <1>9, KeptIsKept, OfferedIsOffered DEF LayPage, Larger, diskVars, cachedPages,
      Kept, offeredPages, TypeOK, Files, Versions, ObjectPcs, BuildPcs, Counts, Building,
      Cache!Extend
<1>10. ASSUME ParseFails
      PROVE  Cache!Close
  BY <1>10, KeptIsKept, OfferedIsOffered DEF ParseFails, RemoveFilePath, MayRemain,
      DropTmpHtml, Destroyed, ResetBuild, cachedPages, Kept, offeredPages, Cache!Close
<1>11. ASSUME Finalize
      PROVE  Stutter
  BY <1>11, KeptIsKept, OfferedIsOffered DEF Finalize, objectVars, cachedPages, Kept,
      offeredPages
<1>12. ASSUME CloseIdle
      PROVE  Cache!Close
  BY <1>12, KeptIsKept, OfferedIsOffered DEF CloseIdle, Destroyed, ResetBuild, diskVars,
      cachedPages, Kept, offeredPages, Cache!Close
<1>13. ASSUME CloseKeeping
      PROVE  Stutter
  BY <1>13, KeptIsKept, OfferedIsOffered DEF CloseKeeping, WorthKeeping, diskVars,
      objectVars, cachedPages, Kept, offeredPages
<1>14. ASSUME CloseDropping
      PROVE  Cache!Close
  BY <1>14, KeptIsKept, OfferedIsOffered DEF CloseDropping, WorthKeeping, DropTmpHtml,
      Destroyed, ResetBuild, cachedPages, Kept, offeredPages, Cache!Close
<1>15. ASSUME WriteTables
      PROVE  Stutter
  BY <1>15, KeptIsKept, OfferedIsOffered DEF WriteTables, objectVars, buildVars,
      cachedPages, Kept, offeredPages
<1>16. ASSUME RefuseTables
      PROVE  Cache!Close
  BY <1>16, KeptIsKept, OfferedIsOffered DEF RefuseTables, CommitFails, DropTmpHtml,
      Destroyed, ResetBuild, cachedPages, Kept, offeredPages, Cache!Close
<1>17. ASSUME StampVersion
      PROVE  Stutter
  BY <1>17, KeptIsKept, OfferedIsOffered DEF StampVersion, objectVars, buildVars,
      cachedPages, Kept, offeredPages
<1>18. ASSUME RemoveOld
      PROVE  Stutter \/ Cache!Publish
  <2>1. /\ pageCount \in Nat /\ partialPageCount_ \in Nat /\ laid \in Nat
        /\ builtPageCount_ = laid /\ pageCount = Larger(partialPageCount_, laid)
        /\ Pages[spec] \in Nat /\ spec \in Specs
    BY <1>0, <1>18 DEF RemoveOld, TypeOK, Counts, PartFile, Building, BuildPcs
  <2>2. /\ binTmp.spec = spec /\ binTmp.count = laid /\ binTmp.version = committing
        /\ \/ committing = "final" /\ laid = Pages[spec]
           \/ committing = "partial" /\ laid > 0 /\ (~partial_ \/ laid > partialPageCount_)
    BY <1>0, <1>18, <2>1 DEF RemoveOld, PartFile, WorthKeeping, Building, BuildPcs
  <2>3. /\ pageCount = laid
        /\ committing = "partial" => pageCount > (IF partial_ THEN partialPageCount_ ELSE 0)
    <3>1. /\ ~partial_ => partialPageCount_ = 0
          /\ partial_ => partialPageCount_ <= Pages[spec]
      BY <1>0 DEF PartialOnDisk
    <3>2. CASE committing = "final"
      BY <2>1, <2>2, <3>1, <3>2 DEF Larger
    <3>3. CASE committing = "partial"
      BY <2>1, <2>2, <3>1, <3>3 DEF Larger
    <3> QED
      BY <2>2, <3>2, <3>3
  <2>4. /\ offeredPages = [spec |-> spec, pages |-> laid,
                            base |-> IF partial_ THEN partialPageCount_ ELSE 0]
        /\ offeredPages' = offeredPages /\ offeredPages # NoFile
    BY <1>0, <1>18, <2>1, <2>3, OfferedIsOffered DEF RemoveOld, objectVars, offeredPages, TypeOK
  <2>5. CASE filePath' = NoFile
    <3> DEFINE complete == (committing = "final")
    <3>1. cachedPages' = [spec |-> spec, pages |-> laid, complete |-> complete]
      BY <1>18, <2>2, <2>5 DEF RemoveOld, cachedPages, Kept
    <3>2. complete \in BOOLEAN
      BY Zenon
    <3>3. IF complete THEN offeredPages.pages = Pages[offeredPages.spec]
                      ELSE offeredPages.pages > offeredPages.base
      BY <2>2, <2>3, <2>4
    <3>4. cachedPages' = [spec |-> offeredPages.spec, pages |-> offeredPages.pages,
                          complete |-> complete]
      BY <2>4, <3>1
    <3>5. Cache!Publish
      <4> HIDE DEF complete
      <4> QED
        BY <2>4, <3>2, <3>3, <3>4 DEF Cache!Publish
    <3> QED
      BY <3>5
  <2>6. CASE filePath' = filePath /\ filePath # NoFile
    BY <2>4, <2>6 DEF cachedPages
  <2> QED
    BY <1>18, <2>5, <2>6 DEF RemoveOld, RemoveFilePath, MayRemain
<1>19. ASSUME FinalizeSucceeds
      PROVE  Cache!Adopt
  <2>1. /\ pageCount \in Nat /\ partialPageCount_ \in Nat /\ laid \in Nat
        /\ builtPageCount_ = laid /\ pageCount = Larger(partialPageCount_, laid)
        /\ laid = Pages[spec] /\ spec \in Specs
        /\ binTmp # NoFile /\ binTmp.spec = spec /\ binTmp.count = laid /\ binTmp.version = "final"
    BY <1>0, <1>19
       DEF FinalizeSucceeds, Renamed, TypeOK, Counts, PartFile, Building, BuildPcs
  <2>2. pageCount = laid
    BY <1>0, <2>1 DEF PartialOnDisk, Larger
  <2>3. /\ offeredPages = [spec |-> spec, pages |-> laid,
                            base |-> IF partial_ THEN partialPageCount_ ELSE 0]
        /\ offeredPages # NoFile
    BY <1>0, <1>19, <2>1, <2>2, OfferedIsOffered
       DEF FinalizeSucceeds, Renamed, offeredPages, TypeOK
  <2>4. offeredPages' = [spec |-> spec, pages |-> laid, base |-> laid]
    BY <1>19, <2>1 DEF FinalizeSucceeds, offeredPages
  <2>5. cachedPages = Kept(binTmp) /\ cachedPages' = Kept(binTmp)
    BY <1>19, <2>1 DEF FinalizeSucceeds, Renamed, cachedPages
  <2>6. Kept(binTmp) = [spec |-> spec, pages |-> laid, complete |-> TRUE]
    BY <2>1 DEF Kept
  <2> QED
    BY <2>3, <2>4, <2>5, <2>6 DEF Cache!Adopt
<1>20. ASSUME SuspendSucceeds
      PROVE  Cache!Close
  BY <1>0, <1>20, KeptIsKept, OfferedIsOffered DEF SuspendSucceeds, Renamed, DropTmpHtml,
      Destroyed, ResetBuild, cachedPages, Kept, offeredPages, PartFile, BuildPcs,
      WorthKeeping, Building, Cache!Close
<1>21. ASSUME RenameFails
      PROVE  Cache!Close
  BY <1>21, KeptIsKept, OfferedIsOffered DEF RenameFails, CommitFails, DropTmpHtml,
      Destroyed, ResetBuild, cachedPages, Kept, offeredPages, Cache!Close
<1>22. ASSUME PageUnreadable
      PROVE  Cache!Close
  BY <1>22, KeptIsKept, OfferedIsOffered DEF PageUnreadable, PageNumbers, Readable,
      Building, BuildPcs, OnDisk, RemoveFilePath, MayRemain, DropTmpHtml, Destroyed,
      ResetBuild, cachedPages, Kept, offeredPages, Cache!Close
<1>23. ASSUME ClearBook
      PROVE  Cache!Close
  BY <1>23, KeptIsKept, OfferedIsOffered DEF ClearBook, RemoveFilePath, MayRemain,
      objectVars, buildVars, cachedPages, Kept, offeredPages, Cache!Close
<1>24. ASSUME Crash
      PROVE  Cache!Close
  BY <1>24, KeptIsKept, OfferedIsOffered DEF Crash, ResetBuild, diskVars, cachedPages, Kept,
      offeredPages, Cache!Close
<1>25. ASSUME UNCHANGED vars
      PROVE  Stutter
  BY <1>25, KeptIsKept, OfferedIsOffered DEF vars, diskVars, objectVars, buildVars,
      cachedPages, Kept, offeredPages
<1> QED
  BY <1>1, <1>2, <1>3, <1>4, <1>5, <1>6, <1>7, <1>8, <1>9, <1>10, <1>11, <1>12, <1>13,
      <1>14, <1>15, <1>16, <1>17, <1>18, <1>19, <1>20, <1>21, <1>22, <1>23, <1>24, <1>25 DEF
      Next, Build, Commit, Cache!Next

(* Every variable keeps its type. *)
THEOREM TypeCorrect == Spec => []TypeOK
<1>1. IInv => TypeOK
  BY DEF IInv
<1> QED
  BY <1>1, Invariance, PTL

(* Whatever fails, and wherever a reset comes, what is at filePath was committed, and
   lists no page that the code saw fail; one that came short unnoticed it may list. *)
THEOREM CommittedSafe == Spec => []CommittedOnly
<1>1. IInv => CommittedOnly
  BY DEF IInv
<1> QED
  BY <1>1, Invariance, PTL

(* Every page that the section counts is found, through load, rebuild and commit, and
   can be shown unless a part of it came short unnoticed; the two other exceptions are
   those of Available. *)
THEOREM PagesAvailable == Spec => []Available
<1>1. IInv => Available
  BY CountedIsFound
<1> QED
  BY <1>1, Invariance, PTL

(* What is opened has all its pages whole, and what the section counts can be read, with
   two exceptions: a page that this build saw fail, and a finalized file with its tables
   cut. *)
Whole ==
    /\ filePath # NoFile => filePath.bad = {} /\ filePath.cut = {}
    /\ pc \in {"open", "building"} =>
         \A p \in PageNumbers : p < pageCount =>
             \/ Readable(p)
             \/ pc = "building" /\ p \in bad
             \/ pc = "open" /\ filePath.tables = "short"

(* That is so as long as no unchecked write of a page comes short. *)
THEOREM WholeUnlessCut ==
    ASSUME "cut" \notin Faults
    PROVE  Spec => []Whole
<1>1. Init => NothingCut
  BY DEF Init, NothingCut, Building, BuildPcs
<1>2. IInv /\ NothingCut /\ [Next]_vars => NothingCut'
  BY NothingCutStep
<1>3. IInv /\ NothingCut => Whole
  <2> SUFFICES ASSUME IInv, NothingCut PROVE Whole
    OBVIOUS
  <2>1. \A p : ~CutShort(p)
    <3> SUFFICES ASSUME NEW p, CutShort(p) PROVE FALSE
      OBVIOUS
    <3> QED
      BY DEF CutShort, Found, OnDisk, NothingCut
  <2>2. CommittedOnly /\ Available
    BY CountedIsFound DEF IInv
  <2> QED
    BY <2>1, <2>2, Zenon DEF Whole, CommittedOnly, Available, NothingCut
<1> QED
  BY <1>1, <1>2, <1>3, Invariance, PTL DEF Spec

(* A chapter that was not unzipped to the end is never laid out. *)
THEOREM HtmlSafe == Spec => []HtmlWhole
<1>1. IInv => HtmlWhole
  BY DEF IInv
<1> QED
  BY <1>1, Invariance, PTL

(* No path but a reset leaves temporary files behind. *)
THEOREM CleanedUp == Spec => []NoLeftovers
<1>1. IInv => NoLeftovers
  BY DEF IInv, TempFiles, NoLeftovers, Building, BuildPcs
<1> QED
  BY <1>1, Invariance, PTL

(* Closing a chapter keeps the pages it had. *)
THEOREM ClosingSafe == Spec => ClosingKeepsPages
<1> QED
  BY ClosingStep, Invariance, PTL DEF ClosingKeepsPages

(* Section implements PageCache. *)
THEOREM PromiseKept == Spec => KeepsPromise
<1>1. Init => Cache!Init
  BY DEF Init, Cache!Init, cachedPages, offeredPages
<1> QED
  BY <1>1, RefinementStep, Invariance, PTL DEF Spec, KeepsPromise, Cache!Spec

=============================================================================
