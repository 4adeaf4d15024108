--------------------------- MODULE MCLibraryIndex ---------------------------
(* Two books for a library of two, and one place on the shelf. In batches of one an
   archived book can fill every batch; one of two leaves a last batch that is short. *)
EXTENDS LibraryIndex

CONSTANTS b1, b2, s1
=============================================================================
