-------------------------- MODULE MCCacheInvalidation --------------------------
(* Two schemas of one catalog, the name of one starting with the other's,   *)
(* and one schema of a second catalog.                                      *)
EXTENDS CacheInvalidation, TLC
CONSTANTS A, B, any

S == [catalog |-> A, schema |-> "insee"]
S1 == [catalog |-> A, schema |-> "insee_2020"]
T == [catalog |-> B, schema |-> "insee"]
MCTargets == {S, S1, T}
MCStartsWith == {<<"insee", "insee">>, <<"insee_2020", "insee_2020">>, <<"insee_2020", "insee">>}
MCNamespaces == {<<S>>, <<S1>>, <<S, T>>}
MCOneSide == {T}
=============================================================================
