---------------------------- MODULE MCEdgeStore -----------------------------
(* Instances of EdgeStore: two threads and two records.  In the calm regime  *)
(* records have two contents, and a collection is ensured with another       *)
(* dimension than that of the records, or made by the first upsert.  In the  *)
(* racing regime, where what is found is not looked at, there is one content. *)
EXTENDS EdgeStore, TLC

CONSTANTS t1, t2, e1, e2, a, b, v0, v1, v2, d1, d2

Upserts(vals) == [op : {"upsert"}, dim : {d1}, id : Ids, val : vals]
Deletes == [op : {"delete"}, id : Ids]
Drops == [op : {"drop"}]
Ensures == [op : {"ensure"}, shape : [dim : {d2}, distance : {"cosine"}]]

\* Threads that ensure and drop the collection only, with two dimensions.
MCEnsures == "calm" :> ([op : {"ensure"}, shape : [dim : {d1, d2}, distance : {"cosine"}]] \cup Drops)

MCCalm == "calm" :> (Ensures \cup Upserts({v1, v2}) \cup Deletes \cup Drops)
MCBoth == MCCalm @@ "racing" :> (Upserts({v0}) \cup Deletes \cup Drops)

\* Threads, entries, record ids and the contents of the calm regime are but names.
MCSymmetry == Permutations(Threads) \cup Permutations(Entries) \cup Permutations(Ids)
              \cup Permutations({v1, v2})
=============================================================================
