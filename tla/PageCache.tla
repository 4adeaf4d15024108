------------------------------ MODULE PageCache ------------------------------
(***************************************************************************)
(* What Section (SectionCache) promises the reader about one chapter: the  *)
(* laid-out pages kept on the SD card for the next time, and the pages the *)
(* open chapter offers now. It is about which pages there are: files, the  *)
(* order of writes and what is in a page are not visible here.             *)
(***************************************************************************)
EXTENDS Naturals

CONSTANTS
    Specs,      \* layouts: font, margins, viewport (ReaderRenderSpec)
    Pages,      \* pages the whole chapter has in a layout
    NoPages     \* nothing is kept; no chapter is open

VARIABLES
    cached,     \* what the card keeps: layout, number of pages, and whether that is all
    reader      \* what the open chapter offers: layout, pages, and how many of them it
                \* has from the card (base)

Cached == [spec : Specs, pages : Nat, complete : BOOLEAN]
Reader == [spec : Specs, pages : Nat, base : Nat]

TypeOK ==
    /\ cached \in Cached \cup {NoPages}
    /\ reader \in Reader \cup {NoPages}

Init == cached = NoPages /\ reader = NoPages

(* A kept layout of the right kind is offered; any other may be thrown away. *)
Open(s) ==
    /\ reader = NoPages
    /\ \/ /\ cached # NoPages /\ cached.spec = s
          /\ reader' = [spec |-> s, pages |-> cached.pages, base |-> cached.pages]
          /\ UNCHANGED cached
       \/ /\ reader' = [spec |-> s, pages |-> 0, base |-> 0]
          /\ cached' \in {cached, NoPages}

(* There is another page. *)
Extend ==
    /\ reader # NoPages
    /\ reader.pages < Pages[reader.spec]
    /\ reader' = [reader EXCEPT !.pages = @ + 1]
    /\ UNCHANGED cached

(* Everything the open chapter offers is kept: all of the chapter, or more than what
   it was opened with. *)
Publish ==
    /\ reader # NoPages
    /\ \E complete \in BOOLEAN :
         /\ IF complete THEN reader.pages = Pages[reader.spec] ELSE reader.pages > reader.base
         /\ cached' = [spec |-> reader.spec, pages |-> reader.pages, complete |-> complete]
    /\ UNCHANGED reader

(* The open chapter goes on with the complete layout it has just published. *)
Adopt ==
    /\ reader # NoPages
    /\ cached = [spec |-> reader.spec, pages |-> reader.pages, complete |-> TRUE]
    /\ reader' = [reader EXCEPT !.base = reader.pages]
    /\ UNCHANGED cached

(* The chapter is closed, by the reader or by a reset of the device; what is kept may
   be lost then, but not in part: pages and layout stay as they were published. *)
Close ==
    /\ reader' = NoPages
    /\ cached' \in {cached, NoPages}

(* The chapter turns out not to be readable at all, and stays open empty. *)
GiveUp ==
    /\ reader # NoPages
    /\ reader' = [spec |-> reader.spec, pages |-> 0, base |-> 0]
    /\ cached' \in {cached, NoPages}

Next == (\E s \in Specs : Open(s)) \/ Extend \/ Publish \/ Adopt \/ Close \/ GiveUp

Spec == Init /\ [][Next]_<<cached, reader>>

=============================================================================
