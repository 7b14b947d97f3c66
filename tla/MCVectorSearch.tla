--------------------------- MODULE MCVectorSearch ---------------------------
(* Instances of VectorSearch: five records, one more than LanceDB fetches    *)
(* for a filtered query of one hit; similarities of both signs that differ   *)
(* and, for l2 too, with ties; scalars and compound values in metadata and filters.                *)
EXTENDS VectorSearch, TLC

MCIds == 1 .. 5
MCSimilarities == {[i \in MCIds |-> 3 - i], [i \in MCIds |-> -(i \div 2)]}
MCMetas == {"k" :> "s", "k" :> "xy", "k" :> "s" @@ "l" :> "x"}
MCMetadata == [MCIds -> MCMetas]
MCFilters == {<<>>, "k" :> "x", "k" :> "s" @@ "l" :> "x"}
MCWithin == {<<"xy", "x">>}
=============================================================================
