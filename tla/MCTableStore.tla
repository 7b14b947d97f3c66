---------------------------- MODULE MCTableStore ----------------------------
(* Instances of TableStore: two threads of one process and one of another,   *)
(* which ensure the collection with different distances.                     *)
EXTENDS TableStore, TLC

CONSTANTS t1, t2, t3, p, q, a, b, v1, v2

MCProcOf == t1 :> p @@ t2 :> p @@ t3 :> q
MCShapeOf == p :> [dim |-> 2, distance |-> "l2"] @@ q :> [dim |-> 3, distance |-> "dot"]
MCOrder == <<a, b>>
=============================================================================
