--------------------------- MODULE MCReaderSession ---------------------------
(* ReaderSession for TLC: two chapters of six units, in a layout of two pages and in
   one of three, with links to an offset that begins a page of neither. *)
EXTENDS ReaderSession

CONSTANTS Narrow, Wide      \* the layouts

UnitsOf == [L \in {Narrow, Wide} |-> IF L = Narrow THEN 2 ELSE 3]

=============================================================================
