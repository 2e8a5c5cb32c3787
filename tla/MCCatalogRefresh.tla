--------------------------- MODULE MCCatalogRefresh ---------------------------
(***************************************************************************)
(* Instances of CatalogRefresh for TLC.                                    *)
(***************************************************************************)
EXTENDS CatalogRefresh, TLC

CONSTANTS p1, p2, l1, l2, l3

OnePod == {p1}
TwoPods == {p1, p2}
OneLoader == {l1}
TwoLoaders == {l1, l2}

OneEach == (l1 :> p1) @@ (l2 :> p2)
BothOnOne == (l1 :> p1) @@ (l2 :> p1)
OnlyOne == (l1 :> p1)

=============================================================================
