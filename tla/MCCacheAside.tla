---------------------------- MODULE MCCacheAside ----------------------------
(* Model values for CacheAside: three requests of one key, on one Database  *)
(* or on two.                                                                *)
EXTENDS CacheAside, TLC

CONSTANTS c1, c2, c3, k1, k2, d1, d2

MCOneKey == c1 :> k1 @@ c2 :> k1 @@ c3 :> k1
MCOneDb == c1 :> d1 @@ c2 :> d1 @@ c3 :> d1
MCTwoDbs == c1 :> d1 @@ c2 :> d2 @@ c3 :> d1

\* The requests of the one-Database instance differ in nothing but their names.
MCSymmetry == Permutations(Requests)
=============================================================================
