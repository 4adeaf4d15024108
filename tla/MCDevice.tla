------------------------------ MODULE MCDevice ------------------------------
(* Device for TLC: two books, so that the wrong one can be opened; two images that fit
   and one that does not, and sequence numbers for an update of each partition. *)
EXTENDS Device, TLC

CONSTANTS Shipped, Newer, Foreign,      \* firmware images
          b1, b2                        \* books

(* Nothing tells the books apart, or the images that fit. *)
Symmetry == Permutations({b1, b2}) \cup Permutations({Shipped, Newer})

=============================================================================
