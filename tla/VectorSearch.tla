---------------------------- MODULE VectorSearch ----------------------------
(***************************************************************************)
(* One search of each VectorStore of src/src/vector, on a collection that  *)
(* is there and a query of its dimension: MemoryVectorStore scans all      *)
(* records with a bounded heap, the others ask an engine for the nearest   *)
(* rows and translate what it reports.  The stores keep different parts of *)
(* the filter to themselves: pgvector asks for containment, LanceDB        *)
(* filters what it fetched, the Qdrants drop the conditions they have no   *)
(* match for.                                                              *)
(*                                                                         *)
(* A vector is abstracted to sim, its similarity to the query in the       *)
(* metric of the collection as the memory store computes it, in parts of   *)
(* 1.0 = Unit; that of l2 is a negated distance.  Metadata and filters     *)
(* are functions from keys to JSON values; no filter is the empty one, as  *)
(* in the code of every store.                                             *)
(***************************************************************************)
EXTENDS Integers, Sequences, FiniteSets

CONSTANTS Ids,
          Similarities, \* the functions sim a search may meet
          Metadata,     \* the functions meta a search may meet
          Filters,
          Scalars,      \* strings, booleans and 64-bit integers among the values
          Within,       \* <<v, w>>: the compound value v contains w and is not w
          TopKs,
          Backends,     \* subset of {"memory", "pgvector", "lancedb", "edge", "qdrant"}
          Reports,      \* subset of {"assumed", "other"}: whether engines report what
                        \* the code that reads it assumes, where versions may differ
          Unit

ASSUME SearchAssumption ==
    /\ IsFiniteSet(Ids)
    /\ \A s \in Similarities : s \in [Ids -> Int]
    /\ \A p \in Within : p[2] \notin Scalars
    /\ TopKs \subseteq Nat
    /\ Backends \subseteq {"memory", "pgvector", "lancedb", "edge", "qdrant"}
    /\ Reports \subseteq {"assumed", "other"}
    /\ Unit \in Nat

VARIABLES backend, distance, sim, meta, top_k, filter, \* the collection and the query
          reports, \* what the engine reports for a row
          pc,      \* "start", "scan" (memory), "read" (the engines) or "done"
          todo,    \* the scored records that were not pushed on the heap yet
          heap,    \* the heap
          found,   \* what the engine answered, nearest first
          row,     \* the row of it that is read next
          hits     \* the answer

input == <<backend, distance, sim, meta, top_k, filter, reports>>
vars == <<input, pc, todo, heap, found, row, hits>>

\* No distance is negative.
Possible == distance = "l2" => \A i \in Ids : sim[i] <= 0

Init == /\ backend \in Backends
        /\ distance \in {"cosine", "l2", "dot"}
        /\ sim \in Similarities
        /\ Possible
        /\ meta \in Metadata
        /\ top_k \in TopKs
        /\ filter \in Filters
        /\ reports \in Reports
        /\ pc = "start"
        /\ todo = {} /\ heap = {}
        /\ found = <<>> /\ row = 1 /\ hits = <<>>

Meets(i, k, v) == k \in DOMAIN meta[i] /\ meta[i][k] = v
Matches(i) == \A k \in DOMAIN filter : Meets(i, k, filter[k])

\* metadata @> filter
Contains(i) == \A k \in DOMAIN filter :
    \/ Meets(i, k, filter[k])
    \/ k \in DOMAIN meta[i] /\ <<meta[i][k], filter[k]>> \in Within

\* build_filter: the conditions Qdrant is asked for, the rest is dropped.
Understood == {k \in DOMAIN filter : filter[k] \in Scalars}
MatchesUnderstood(i) == \A k \in Understood : Meets(i, k, filter[k])
-----------------------------------------------------------------------------
(***************************************************************************)
(* The memory store: filter and score, push every record on a heap that is *)
(* cut to top_k, and sort what is left.  The records come in the order of  *)
(* a hash map.                                                             *)
(***************************************************************************)
\* The order of HeapEntry: by score alone.
NoBetter(i, j) == sim[i] <= sim[j]

HeapSize == IF top_k = 0 THEN 1 ELSE top_k

MemoryScan ==
    /\ backend = "memory" /\ pc = "start"
    /\ todo' = {i \in Ids : Matches(i)}
    /\ pc' = "scan"
    /\ UNCHANGED <<input, heap, found, row, hits>>

\* A mistake: the top of the heap is the best record, not the worst.
PushPoppingBest(i) ==
    /\ pc = "scan" /\ i \in todo
    /\ todo' = todo \ {i}
    /\ LET h == heap \cup {i}
       IN  IF Cardinality(h) <= HeapSize THEN heap' = h
           ELSE \E j \in h : /\ \A l \in h : NoBetter(l, j)
                             /\ heap' = h \ {j}
    /\ UNCHANGED <<input, pc, found, row, hits>>

MemoryPush(i) ==
    /\ pc = "scan" /\ i \in todo
    /\ todo' = todo \ {i}
    /\ LET h == heap \cup {i}
       IN  IF Cardinality(h) <= HeapSize THEN heap' = h
           ELSE \E j \in h : /\ \A l \in h : NoBetter(j, l)
                             /\ heap' = h \ {j}
    /\ UNCHANGED <<input, pc, found, row, hits>>

\* The n best of S, best first, ties in any order.
Rankings(S, n) ==
    {s \in [1 .. (IF n <= Cardinality(S) THEN n ELSE Cardinality(S)) -> S] :
        /\ \A j, l \in DOMAIN s : j < l => s[j] # s[l] /\ sim[s[l]] <= sim[s[j]]
        /\ \A i \in S : \/ \E l \in DOMAIN s : s[l] = i
                        \/ \A j \in DOMAIN s : sim[i] <= sim[s[j]]}

MemorySort ==
    /\ pc = "scan" /\ todo = {}
    /\ \E s \in Rankings(heap, Cardinality(heap)) :
          hits' = [j \in DOMAIN s |-> [id |-> s[j], score |-> sim[s[j]]]]
    /\ pc' = "done"
    /\ UNCHANGED <<input, todo, heap, found, row>>
-----------------------------------------------------------------------------
(***************************************************************************)
(* The query of the other stores: which rows the engine ranks, and how     *)
(* many of them it answers with.                                           *)
(***************************************************************************)
Ask(S, n) == /\ pc = "start"
             /\ found' \in Rankings(S, n)
             /\ pc' = "read"
             /\ UNCHANGED <<input, todo, heap, row, hits>>

PgQuery == backend = "pgvector" /\ Ask({i \in Ids : Contains(i)}, top_k)

\* A mistake: no more rows than hits are asked for, filter or not.
LanceQueryTopK == backend = "lancedb" /\ Ask(Ids, top_k)

LanceQuery == backend = "lancedb" /\ Ask(Ids, IF filter = <<>> THEN top_k ELSE 4 * top_k)

EdgeQuery == backend = "edge" /\ Ask({i \in Ids : MatchesUnderstood(i)}, top_k)
QdrantQuery == backend = "qdrant" /\ Ask({i \in Ids : MatchesUnderstood(i)}, top_k)

\* What the engine reports for a row of similarity s.  pgvector is documented in the
\* code; LanceDB may report squares for l2 and 1 - the product for dot, and Qdrant
\* reports a cosine as it is or, as the edge store assumes, as a distance.
Reported(s) ==
    LET expected == reports = "assumed"
    IN  CASE distance = "cosine" -> IF backend \in {"edge", "qdrant"} /\ ~expected
                                    THEN s ELSE Unit - s
          [] distance = "l2" -> IF backend = "lancedb" /\ ~expected THEN s * s ELSE -s
          [] distance = "dot" -> CASE backend = "pgvector" -> -s
                                   [] backend = "lancedb" -> IF expected THEN -s ELSE Unit - s
                                   [] backend \in {"edge", "qdrant"} -> s

PgScore(d) == IF distance = "cosine" THEN Unit - d ELSE -d

\* A mistake: the inner product of LanceDB taken for a similarity.
LanceScoreDot(d) == CASE distance = "cosine" -> Unit - d
                      [] distance = "l2" -> -d
                      [] distance = "dot" -> d

LanceScore(d) == IF distance = "cosine" THEN Unit - d ELSE -d

EdgeScore(d) == CASE distance = "cosine" -> Unit - d
                  [] distance = "l2" -> -d
                  [] distance = "dot" -> d

QdrantScore(d) == d

Hit(i) == [id |-> i, score |-> LET d == Reported(sim[i])
                               IN  CASE backend = "pgvector" -> PgScore(d)
                                     [] backend = "lancedb" -> LanceScore(d)
                                     [] backend = "edge" -> EdgeScore(d)
                                     [] backend = "qdrant" -> QdrantScore(d)]

\* A mistake: the loop of LanceDB does not stop at top_k hits.
EnoughAtEnd == row > Len(found)

\* The loop over the rows ends at the last one, that of LanceDB also at top_k hits.
Enough == row > Len(found) \/ (backend = "lancedb" /\ Len(hits) >= top_k)

\* A mistake: rows are not filtered after they were fetched.
ReadRowUnfiltered ==
    /\ pc = "read" /\ ~Enough
    /\ hits' = Append(hits, Hit(found[row]))
    /\ row' = row + 1
    /\ UNCHANGED <<input, pc, todo, heap, found>>

ReadRow ==
    /\ pc = "read" /\ ~Enough
    /\ hits' = IF backend = "lancedb" /\ ~Matches(found[row]) THEN hits
               ELSE Append(hits, Hit(found[row]))
    /\ row' = row + 1
    /\ UNCHANGED <<input, pc, todo, heap, found>>

Answer == /\ pc = "read" /\ Enough
          /\ pc' = "done"
          /\ UNCHANGED <<input, todo, heap, found, row, hits>>

Next == \/ MemoryScan \/ (\E i \in Ids : MemoryPush(i)) \/ MemorySort
        \/ PgQuery \/ LanceQuery \/ EdgeQuery \/ QdrantQuery \/ ReadRow \/ Answer

Spec == Init /\ [][Next]_vars /\ WF_vars(Next)
-----------------------------------------------------------------------------
HitIds == {hits[j].id : j \in DOMAIN hits}

\* The types of the variables; the heap and an answer never outgrow HeapSize, which is
\* the number asked for, or one in the memory store when that is zero.
TypeOK ==
    /\ backend \in Backends /\ distance \in {"cosine", "l2", "dot"}
    /\ sim \in Similarities /\ Possible /\ meta \in Metadata /\ filter \in Filters
    /\ top_k \in TopKs /\ reports \in Reports
    /\ pc \in {"start", "scan", "read", "done"}
    /\ todo \subseteq Ids /\ heap \subseteq Ids /\ Cardinality(heap) <= HeapSize
    /\ found \in Seq(Ids) /\ row \in 1 .. Len(found) + 1
    /\ hits \in Seq([id : Ids, score : Int])
    /\ Len(hits) <= IF backend = "memory" THEN HeapSize ELSE top_k

\* The heap holds the best of the records it has seen, whatever their order.
HeapBest ==
    pc = "scan" => \A i \in Ids \ (todo \cup heap) :
        Matches(i) => /\ Cardinality(heap) = HeapSize
                      /\ \A j \in heap : sim[i] <= sim[j]

\* Every store honours the conditions on scalars; memory and LanceDB honour all, and
\* pgvector takes a compound value that contains the one asked for.
HitsMatch ==
    \A i \in HitIds : /\ MatchesUnderstood(i)
                      /\ backend \in {"memory", "lancedb"} => Matches(i)
                      /\ backend = "pgvector" => Contains(i)

\* A matching record is missing from an answer only if as many hits as were asked
\* for are at least as similar; in LanceDB, behind a filter, also if four times as
\* many records, matching or not, are.
HitsBest ==
    pc = "done" => \A i \in Ids \ HitIds : Matches(i) =>
        \/ /\ Len(hits) = IF backend = "memory" THEN HeapSize ELSE top_k
           /\ \A j \in HitIds : sim[i] <= sim[j]
        \/ /\ backend = "lancedb" /\ filter # <<>>
           /\ Cardinality({j \in Ids : sim[i] <= sim[j]} \ {i}) >= 4 * top_k

\* The stores that score the better hit lower: the server store passes on what it
\* gets, and the edge store takes any cosine for a distance.
Inverted == {<<"qdrant", "l2">>} \cup {<<IF reports = "assumed" THEN "qdrant" ELSE "edge",
                                         "cosine">>}

\* Better hits come first and, except where Inverted says otherwise, have scores that
\* are not lower; and the stores can be exchanged, for a hit of any other one than
\* LanceDB is scored as the memory store scores it.
ScoresComparable ==
    /\ \A j, l \in DOMAIN hits : j < l => sim[hits[l].id] <= sim[hits[j].id]
    /\ <<backend, distance>> \notin Inverted =>
           \A j, l \in DOMAIN hits :
              /\ sim[hits[l].id] <= sim[hits[j].id] => hits[l].score <= hits[j].score
              /\ backend # "lancedb" => hits[j].score = sim[hits[j].id]

\* The parts of the inductive invariant: what the heap and the rows were made from,
\* and what became of the rows that were read.
Ranked == CASE backend = "pgvector" -> {i \in Ids : Contains(i)}
            [] backend = "lancedb" -> Ids
            [] backend \in {"edge", "qdrant"} -> {i \in Ids : MatchesUnderstood(i)}
Limit == IF backend = "lancedb" /\ filter # <<>> THEN 4 * top_k ELSE top_k

HeapSound ==
    /\ pc \in {"start", "scan"} => hits = <<>> /\ found = <<>> /\ row = 1
    /\ pc = "start" => heap = {} /\ todo = {}
    /\ pc = "scan" => backend = "memory" /\ \A i \in todo \cup heap : Matches(i)

RowsSound ==
    pc = "read" =>
        /\ backend # "memory" /\ found \in Rankings(Ranked, Limit)
        /\ Len(hits) < row
        /\ \A j \in DOMAIN hits : \E l \in 1 .. row - 1 : hits[j].id = found[l]
        /\ \A l \in 1 .. row - 1 :
              backend # "lancedb" \/ Matches(found[l]) => found[l] \in HitIds
        /\ backend # "lancedb" \/ filter = <<>> => Len(hits) = row - 1

\* The score of a hit is the one the store makes of its row.
HitsScored ==
    /\ \A j, l \in DOMAIN hits : j < l => sim[hits[l].id] <= sim[hits[j].id]
    /\ \A j \in DOMAIN hits :
          hits[j].score = IF backend = "memory" THEN sim[hits[j].id]
                          ELSE Hit(hits[j].id).score

IInv == TypeOK /\ HeapSound /\ RowsSound /\ HeapBest /\ HitsMatch /\ HitsBest
=============================================================================
