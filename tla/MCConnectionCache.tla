------------------------- MODULE MCConnectionCache -------------------------
(* An instance of ConnectionCache for TLC.  One pool more than there are   *)
(* workers is enough: each refers to one, and the map to another.          *)
EXTENDS ConnectionCache, FiniteSets, Naturals

ASSUME EnoughPools == Cardinality(Pools) > Cardinality(Workers)
=============================================================================
