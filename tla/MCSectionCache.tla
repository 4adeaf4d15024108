--------------------------- MODULE MCSectionCache ---------------------------
(* SectionCache for TLC: two layouts of one chapter, of 2 and of 3 pages, so that a
   file of one layout is found by the other, and a partial file can be extended,
   overtaken and completed. *)
EXTENDS SectionCache

CONSTANTS Small, Large      \* the layouts

PagesOf == [s \in {Small, Large} |-> IF s = Small THEN 2 ELSE 3]

=============================================================================
