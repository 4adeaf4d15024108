----------------------------- MODULE Catalogue -----------------------------
(***************************************************************************)
(* What the AO3 library index promises the screens that read it: a set of  *)
(* listed books with room for Capacity of them.  Books are listed and      *)
(* dropped one by one or several at a time; the list is lost as a whole    *)
(* only after trouble: a write that was cut short, or an index that could  *)
(* not be opened.                                                          *)
(***************************************************************************)
EXTENDS Naturals, FiniteSets

CONSTANTS Books, Capacity

VARIABLES listed, trouble

catalogueVars == <<listed, trouble>>

CatalogueInit == listed = {} /\ trouble = 0

List(b) == Cardinality(listed) < Capacity /\ listed' = listed \cup {b}
Drop == listed' \subseteq listed
Lose == trouble' > 0 /\ \E b \in Books : listed' \subseteq {b}

CatalogueNext ==
    /\ trouble' >= trouble
    /\ (\E b \in Books : List(b)) \/ Drop \/ Lose

CatalogueSpec == CatalogueInit /\ [][CatalogueNext]_catalogueVars
=============================================================================
