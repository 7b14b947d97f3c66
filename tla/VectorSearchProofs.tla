------------------------- MODULE VectorSearchProofs -------------------------
(***************************************************************************)
(* The answers of a search for any collection, query and store: IInv of    *)
(* VectorSearch is inductive, HitsScored is so beside it, and the          *)
(* invariants follow from them.                                            *)
(***************************************************************************)
EXTENDS VectorSearch, FiniteSetTheorems, TLAPS

\* The records of a collection can be counted, and the heap has room for one.
LEMMA Counting ==
    ASSUME TypeOK
    PROVE  /\ top_k \in Nat /\ sim \in [Ids -> Int]
           /\ HeapSize \in Nat \ {0} /\ Limit \in Nat
           /\ \A S \in SUBSET Ids : IsFiniteSet(S) /\ Cardinality(S) \in Nat
<1>1. top_k \in Nat /\ sim \in [Ids -> Int]
  BY SearchAssumption DEF TypeOK
<1>2. HeapSize \in Nat \ {0} /\ Limit \in Nat
  BY <1>1 DEF HeapSize, Limit
<1>3. ASSUME NEW S \in SUBSET Ids PROVE IsFiniteSet(S) /\ Cardinality(S) \in Nat
  BY SearchAssumption, FS_Subset, FS_CardinalityType
<1>4. QED
  BY <1>1, <1>2, <1>3

\* There are n positive numbers up to n.
LEMMA FirstNumbers == ASSUME NEW n \in Nat PROVE Cardinality(1 .. n) = n
<1>1. n \in Int /\ 1 \in Int
  OBVIOUS
<1>2. Cardinality(1 .. n) = IF 1 > n THEN 0 ELSE n - 1 + 1
  BY <1>1, FS_Interval, Zenon
<1>3. QED
  BY <1>2

\* A ranking is a sequence of different records, best first, and what it leaves out
\* is no better than any of it; it leaves out nothing unless it is full.
LEMMA RankingFacts ==
    ASSUME TypeOK, NEW S \in SUBSET Ids, NEW n \in Nat, NEW s \in Rankings(S, n)
    PROVE  /\ s \in Seq(S) /\ DOMAIN s = 1 .. Len(s) /\ Len(s) <= n
           /\ \A j, l \in 1 .. Len(s) : j < l => s[j] # s[l] /\ sim[s[l]] <= sim[s[j]]
           /\ \A i \in S : \/ \E l \in 1 .. Len(s) : s[l] = i
                           \/ Len(s) = n /\ \A j \in 1 .. Len(s) : sim[i] <= sim[s[j]]
<1> DEFINE m == IF n <= Cardinality(S) THEN n ELSE Cardinality(S)
<1>1. IsFiniteSet(S) /\ Cardinality(S) \in Nat
  BY Counting
<1>2. m \in Nat /\ m <= n /\ s \in [1 .. m -> S]
  BY <1>1 DEF Rankings
<1>3. s \in Seq(S) /\ Len(s) = m /\ DOMAIN s = 1 .. m
  BY <1>2
<1>4. \A j, l \in 1 .. m : j < l => s[j] # s[l] /\ sim[s[l]] <= sim[s[j]]
  BY <1>3 DEF Rankings
<1>5. \A i \in S : (\E l \in 1 .. m : s[l] = i) \/ \A j \in 1 .. m : sim[i] <= sim[s[j]]
  BY <1>3 DEF Rankings
<1>6. ASSUME m # n, NEW i \in S PROVE \E l \in 1 .. m : s[l] = i
  <2>1. m = Cardinality(S)
    BY <1>6
  <2>2. s \in Injection(1 .. m, S)
    BY <1>2, <1>4 DEF Injection, IsInjective
  <2>3. Cardinality(1 .. m) = m
    BY <1>2, FirstNumbers
  <2>4. s \in Surjection(1 .. m, S)
    BY <1>1, <2>1, <2>2, <2>3, FS_Injection
  <2>5. QED
    BY <2>4 DEF Surjection
<1>7. QED
  BY <1>2, <1>3, <1>4, <1>5, <1>6

\* The filters from strict to lenient.
LEMMA FilterOrder ==
    ASSUME NEW i
    PROVE  /\ Matches(i) => Contains(i)
           /\ Contains(i) => MatchesUnderstood(i)
<1>1. \A v, w : <<v, w>> \in Within => w \notin Scalars
  <2>1. ASSUME NEW v, NEW w, <<v, w>> \in Within PROVE w \notin Scalars
    BY <2>1, SearchAssumption, <<v, w>>[2] = w
  <2>2. QED
    BY <2>1
<1>2. QED
  BY <1>1 DEF Matches, Contains, MatchesUnderstood, Understood, Meets

\* Every store but LanceDB, which filters later, ranks what matches and no record
\* that does not meet its part of the filter.
LEMMA RankedFacts ==
    ASSUME TypeOK, backend # "memory"
    PROVE  /\ Ranked \in SUBSET Ids
           /\ \A i \in Ids : Matches(i) => i \in Ranked
           /\ backend # "lancedb" => \A i \in Ranked : MatchesUnderstood(i)
           /\ backend = "pgvector" => \A i \in Ranked : Contains(i)
<1>1. backend \in {"pgvector", "lancedb", "edge", "qdrant"}
  BY SearchAssumption DEF TypeOK
<1>2. QED
  BY <1>1, FilterOrder DEF Ranked
-----------------------------------------------------------------------------
\* The collection and the query do not change during a search, nor does what is
\* defined from them.
LEMMA Frame ==
    ASSUME UNCHANGED input
    PROVE  /\ HeapSize' = HeapSize /\ Limit' = Limit
           /\ \A i : /\ Matches(i)' <=> Matches(i)
                     /\ Contains(i)' <=> Contains(i)
                     /\ MatchesUnderstood(i)' <=> MatchesUnderstood(i)
           /\ Ranked' = Ranked /\ (Possible' <=> Possible)
           /\ \A S, n : Rankings(S, n)' = Rankings(S, n)
<1>1. HeapSize' = HeapSize /\ Limit' = Limit
  BY DEF input, HeapSize, Limit
<1>2. \A i : /\ Matches(i)' <=> Matches(i)
             /\ Contains(i)' <=> Contains(i)
             /\ MatchesUnderstood(i)' <=> MatchesUnderstood(i)
  BY DEF input, Matches, Contains, MatchesUnderstood, Understood, Meets
<1>4. Ranked' = Ranked
  BY <1>2, Zenon DEF input, Ranked, Contains, MatchesUnderstood, Understood, Meets
<1>5. \A S, n : Rankings(S, n)' = Rankings(S, n)
  BY DEF input, Rankings
<1>6. Possible' <=> Possible
  BY DEF input, Possible
<1>7. QED
  BY <1>1, <1>2, <1>4, <1>5, <1>6

\* A search has neither heap nor rows nor hits when it begins.
LEMMA InitIInv == Init => IInv
<1> SUFFICES ASSUME Init PROVE IInv
  OBVIOUS
<1>1. IsFiniteSet({}) /\ Cardinality({}) = 0
  BY FS_EmptySet
<1>2. HeapSize \in Nat /\ top_k \in Nat
  BY SearchAssumption DEF Init, HeapSize
<1>3. TypeOK
  BY <1>1, <1>2 DEF Init, TypeOK
<1>4. HeapSound /\ RowsSound /\ HeapBest /\ HitsMatch /\ HitsBest
  BY DEF Init, HeapSound, RowsSound, HeapBest, HitsMatch, HitsBest, HitIds
<1>5. QED
  BY <1>3, <1>4 DEF IInv

\* The scan leaves out what does not match.
LEMMA MemoryScanIInv == ASSUME IInv, MemoryScan PROVE IInv'
<1>1. TypeOK'
  BY Frame DEF IInv, TypeOK, MemoryScan, input
<1>2. HeapSound'
  BY Frame DEF IInv, HeapSound, MemoryScan, input
<1>3. HeapBest'
  BY Frame DEF HeapBest, MemoryScan
<1>4. HitsMatch'
  BY Frame DEF IInv, HeapSound, HitsMatch, HitIds, MemoryScan
<1>5. RowsSound' /\ HitsBest'
  BY DEF RowsSound, HitsBest, MemoryScan
<1>6. QED
  BY <1>1, <1>2, <1>3, <1>4, <1>5 DEF IInv

\* What is pushed off the heap is no better than what stays, and so is what was
\* pushed off before.
LEMMA MemoryPushIInv == ASSUME IInv, NEW i \in Ids, MemoryPush(i) PROVE IInv'
<1> DEFINE h == heap \cup {i}
<1>1. /\ TypeOK /\ heap \in SUBSET Ids /\ h \in SUBSET Ids
      /\ Cardinality(heap) \in Nat /\ Cardinality(h) \in Nat
      /\ HeapSize \in Nat \ {0} /\ sim \in [Ids -> Int]
      /\ Cardinality(heap) <= HeapSize
      /\ \A e \in Ids \ (todo \cup heap) : Matches(e) =>
            /\ Cardinality(heap) = HeapSize
            /\ \A l \in heap : sim[e] <= sim[l]
  BY Counting DEF IInv, TypeOK, HeapBest, MemoryPush
<1>2. Cardinality(h) = IF i \in heap THEN Cardinality(heap) ELSE Cardinality(heap) + 1
  BY <1>1, Counting, FS_AddElement
<1>3. UNCHANGED input /\ pc' = pc /\ pc = "scan" /\ i \in todo /\ todo' = todo \ {i}
      /\ HeapSize' = HeapSize /\ sim' = sim
  BY Frame DEF MemoryPush, input
<1>4. CASE Cardinality(h) <= HeapSize
  <2>1. heap' = h
    BY <1>4 DEF MemoryPush
  <2>2. TypeOK'
    BY <1>1, <1>3, <1>4, <2>1, Frame DEF TypeOK, MemoryPush, input
  <2>3. HeapSound'
    BY <1>3, <2>1, Frame DEF IInv, HeapSound, MemoryPush, input
  <2>4. HeapBest'
    <3>1. CASE i \in heap
      BY <1>1, <1>3, <2>1, <3>1, Frame DEF HeapBest
    <3>2. CASE i \notin heap
      <4>1. Cardinality(heap) # HeapSize
        BY <1>1, <1>2, <1>4, <3>2
      <4>2. \A e \in Ids \ (todo' \cup heap') : ~Matches(e)
        BY <1>1, <1>3, <2>1, <4>1
      <4>3. QED
        BY <1>3, <4>2, Frame DEF HeapBest
    <3>3. QED
      BY <3>1, <3>2
  <2>5. QED
    BY <1>3, <2>2, <2>3, <2>4, Frame
       DEF IInv, RowsSound, HeapSound, HitsMatch, HitIds, HitsBest, MemoryPush
<1>5. CASE Cardinality(h) > HeapSize
  <2>1. PICK j \in h : (\A l \in h : sim[j] <= sim[l]) /\ heap' = h \ {j}
    BY <1>1, <1>5 DEF MemoryPush, NoBetter
  <2>2. i \notin heap /\ Cardinality(heap) = HeapSize
    BY <1>1, <1>2, <1>5
  <2>3. Cardinality(heap') = HeapSize
    <3>1. Cardinality(heap') = Cardinality(h) - 1
      BY <1>1, <2>1, Counting, FS_RemoveElement
    <3>2. QED
      BY <1>1, <1>2, <2>2, <3>1
  <2>4. TypeOK'
    BY <1>1, <1>3, <2>1, <2>3, Frame DEF TypeOK, MemoryPush, input
  <2>5. HeapSound'
    BY <1>3, <2>1, Frame DEF IInv, HeapSound, MemoryPush, input
  <2>6. ASSUME NEW e \in Ids \ (todo' \cup heap'), Matches(e), NEW l \in heap'
        PROVE  sim[e] <= sim[l]
    <3>1. CASE e = j
      BY <2>1, <3>1
    <3>2. CASE e # j
      <4>1. e \in Ids \ (todo \cup heap) /\ e # i
        BY <1>3, <2>1, <3>2
      <4>2. \A k \in heap : sim[e] <= sim[k]
        BY <1>1, <2>6, <4>1
      <4>3. CASE l \in heap
        BY <4>2, <4>3
      <4>4. CASE l = i
        <5>1. j \in heap /\ sim[j] <= sim[i]
          BY <2>1, <4>4
        <5>2. sim[e] <= sim[j]
          BY <4>2, <5>1
        <5>3. sim[e] \in Int /\ sim[j] \in Int /\ sim[i] \in Int
          BY <1>1, <2>1
        <5>4. QED
          BY <4>4, <5>1, <5>2, <5>3
      <4>5. QED
        BY <2>1, <4>3, <4>4
    <3>3. QED
      BY <3>1, <3>2
  <2>7. HeapBest'
    BY <1>3, <2>3, <2>6, Frame DEF HeapBest
  <2>8. QED
    BY <1>3, <2>4, <2>5, <2>7, Frame
       DEF IInv, RowsSound, HeapSound, HitsMatch, HitIds, HitsBest, MemoryPush
<1>6. QED
  BY <1>1, <1>4, <1>5

\* The answer of the memory store has the records of its heap.
LEMMA MemorySortIInv == ASSUME IInv, MemorySort PROVE IInv'
<1>1. PICK s \in Rankings(heap, Cardinality(heap)) :
         hits' = [j \in DOMAIN s |-> [id |-> s[j], score |-> sim[s[j]]]]
  BY DEF MemorySort
<1>2. /\ TypeOK /\ heap \in SUBSET Ids /\ Cardinality(heap) \in Nat
      /\ HeapSize \in Nat \ {0} /\ sim \in [Ids -> Int]
      /\ Cardinality(heap) <= HeapSize
      /\ backend = "memory" /\ todo = {} /\ pc = "scan"
      /\ \A i \in heap : Matches(i)
      /\ \A i \in Ids \ heap : Matches(i) =>
            Cardinality(heap) = HeapSize /\ \A j \in heap : sim[i] <= sim[j]
  BY Counting DEF IInv, TypeOK, HeapSound, HeapBest, MemorySort
<1>3. UNCHANGED <<input, todo, heap, found, row>> /\ pc' = "done"
  BY DEF MemorySort
<1>4. /\ s \in Seq(heap) /\ DOMAIN s = 1 .. Len(s) /\ Len(s) <= Cardinality(heap)
      /\ \A i \in heap : \/ \E l \in 1 .. Len(s) : s[l] = i
                         \/ Len(s) = Cardinality(heap)
  <2>1. TypeOK /\ heap \in SUBSET Ids /\ Cardinality(heap) \in Nat
    BY <1>2
  <2>2. QED
    BY <1>1, <2>1, RankingFacts
<1>5. Len(s) = Cardinality(heap) /\ \A i \in heap : \E l \in 1 .. Len(s) : s[l] = i
  <2>1. s \in Injection(1 .. Cardinality(heap), heap)
    <3>1. s \in [1 .. Cardinality(heap) -> heap]
      BY <1>1, <1>2 DEF Rankings
    <3>2. \A j, l \in 1 .. Cardinality(heap) : j < l => s[j] # s[l]
      BY <1>1, <3>1 DEF Rankings
    <3>3. QED
      BY <1>2, <3>1, <3>2 DEF Injection, IsInjective
  <2>2. Cardinality(1 .. Cardinality(heap)) = Cardinality(heap)
    BY <1>2, FirstNumbers
  <2>3. s \in Surjection(1 .. Cardinality(heap), heap)
    BY <1>2, <2>1, <2>2, Counting, FS_Injection
  <2>4. QED
    BY <1>2, <1>4, <2>1, <2>3 DEF Surjection, Injection
<1>6. /\ hits' \in Seq([id : Ids, score : Int]) /\ Len(hits') = Len(s)
      /\ \A j \in 1 .. Len(s) : hits'[j].id = s[j]
  <2>1. \A j \in 1 .. Len(s) : s[j] \in Ids /\ sim[s[j]] \in Int
    BY <1>2, <1>4
  <2>2. hits' = [j \in 1 .. Len(s) |-> [id |-> s[j], score |-> sim[s[j]]]]
    BY <1>1, <1>4
  <2>3. QED
    BY <1>4, <2>1, <2>2
<1>7. HitIds' = heap
  <2>1. DOMAIN hits' = 1 .. Len(s)
    BY <1>1, <1>4
  <2>2. HitIds' = {s[j] : j \in 1 .. Len(s)}
    BY <1>6, <2>1 DEF HitIds
  <2>3. \A j \in 1 .. Len(s) : s[j] \in heap
    BY <1>4
  <2>4. QED
    BY <1>5, <2>2, <2>3
<1>8. TypeOK'
  BY <1>2, <1>3, <1>5, <1>6, Frame DEF TypeOK, input
<1>9. HitsMatch'
  BY <1>2, <1>3, <1>7, FilterOrder, Frame DEF HitsMatch, input
<1>10. HitsBest'
  BY <1>2, <1>3, <1>5, <1>6, <1>7, Frame DEF HitsBest, input
<1>11. HeapSound' /\ RowsSound' /\ HeapBest'
  BY <1>3 DEF HeapSound, RowsSound, HeapBest
<1>12. QED
  BY <1>8, <1>9, <1>10, <1>11 DEF IInv

\* An engine ranks what the store's part of the filter lets through.
LEMMA AskIInv == ASSUME IInv, PgQuery \/ LanceQuery \/ EdgeQuery \/ QdrantQuery PROVE IInv'
<1>1. backend # "memory" /\ Ask(Ranked, Limit)
  BY Zenon DEF PgQuery, LanceQuery, EdgeQuery, QdrantQuery, Ranked, Limit
<1>2. /\ TypeOK /\ pc = "start" /\ hits = <<>> /\ row = 1
      /\ Limit \in Nat /\ Ranked \in SUBSET Ids
  BY <1>1, Counting, RankedFacts DEF Ask, IInv, HeapSound
<1>3. /\ found' \in Rankings(Ranked, Limit) /\ pc' = "read"
      /\ UNCHANGED <<input, todo, heap, row, hits>>
  BY <1>1 DEF Ask
<1>4. found' \in Seq(Ids) /\ Len(found') \in Nat
  <2>1. TypeOK /\ Limit \in Nat /\ Ranked \in SUBSET Ids
    BY <1>2
  <2>2. found' \in Rankings(Ranked, Limit)
    BY <1>3
  <2>3. found' \in Seq(Ranked)
    BY <2>1, <2>2, RankingFacts
  <2>4. QED
    BY <2>1, <2>3
<1>5. TypeOK'
  BY <1>2, <1>3, <1>4, Frame DEF TypeOK, input
<1>6. HeapSound' /\ HeapBest' /\ HitsBest'
  BY <1>3 DEF HeapSound, HeapBest, HitsBest
<1>7. HitsMatch'
  BY <1>2, <1>3 DEF HitsMatch, HitIds
<1>8. RowsSound'
  BY <1>1, <1>2, <1>3, Frame DEF RowsSound, input
<1>9. QED
  BY <1>5, <1>6, <1>7, <1>8 DEF IInv

\* Whatever an engine reports is made into a score.
LEMMA HitType ==
    ASSUME TypeOK, backend # "memory", NEW i \in Ids
    PROVE  Hit(i) \in [id : Ids, score : Int] /\ Hit(i).id = i
<1> DEFINE d == Reported(sim[i])
<1>1. /\ backend \in {"pgvector", "lancedb", "edge", "qdrant"}
      /\ distance \in {"cosine", "l2", "dot"}
      /\ sim[i] \in Int /\ Unit \in Int
  BY SearchAssumption DEF TypeOK
<1>2. /\ Unit - sim[i] \in Int /\ -sim[i] \in Int /\ sim[i] * sim[i] \in Int
  BY <1>1
<1>3. d \in Int
  BY <1>1, <1>2, Zenon DEF Reported
<1>4. Unit - d \in Int /\ -d \in Int
  BY <1>1, <1>3
<1>5. Hit(i).score \in Int
  <2> HIDE DEF d
  <2>1. PgScore(d) \in Int /\ LanceScore(d) \in Int /\ EdgeScore(d) \in Int
        /\ QdrantScore(d) \in Int
    BY <1>1, <1>3, <1>4, Zenon DEF PgScore, LanceScore, EdgeScore, QdrantScore
  <2>2. QED
    BY <1>1, <2>1, Zenon DEF Hit, d
<1>6. \E x : Hit(i) = [id |-> i, score |-> x]
  BY Zenon DEF Hit
<1>7. QED
  BY <1>5, <1>6

\* What is known of the rows while they are read.
LEMMA ReadingFacts ==
    ASSUME IInv, pc = "read"
    PROVE  /\ TypeOK /\ backend # "memory"
           /\ top_k \in Nat /\ Limit \in Nat /\ sim \in [Ids -> Int]
           /\ found \in Seq(Ids) /\ Len(found) \in Nat /\ Len(found) <= Limit
           /\ \A l \in 1 .. Len(found) : found[l] \in Ids /\ found[l] \in Ranked
           /\ \A j, l \in 1 .. Len(found) :
                 j < l => found[j] # found[l] /\ sim[found[l]] <= sim[found[j]]
           /\ \A i \in Ids : Matches(i) =>
                 \/ \E l \in 1 .. Len(found) : found[l] = i
                 \/ /\ Len(found) = Limit
                    /\ \A j \in 1 .. Len(found) : sim[i] <= sim[found[j]]
<1>1. TypeOK /\ backend # "memory" /\ found \in Rankings(Ranked, Limit)
  BY DEF IInv, RowsSound
<1>2. /\ Ranked \in SUBSET Ids /\ Limit \in Nat /\ top_k \in Nat /\ sim \in [Ids -> Int]
      /\ \A i \in Ids : Matches(i) => i \in Ranked
  BY <1>1, Counting, RankedFacts
<1>3. /\ found \in Seq(Ranked) /\ Len(found) <= Limit
      /\ \A j, l \in 1 .. Len(found) :
            j < l => found[j] # found[l] /\ sim[found[l]] <= sim[found[j]]
      /\ \A i \in Ranked : \/ \E l \in 1 .. Len(found) : found[l] = i
                           \/ /\ Len(found) = Limit
                              /\ \A j \in 1 .. Len(found) : sim[i] <= sim[found[j]]
  BY <1>1, <1>2, RankingFacts
<1>4. \A l \in 1 .. Len(found) : found[l] \in Ids /\ found[l] \in Ranked
  BY <1>2, <1>3
<1>5. found \in Seq(Ids) /\ Len(found) \in Nat
  BY <1>1 DEF TypeOK
<1>6. QED
  BY <1>1, <1>2, <1>3, <1>4, <1>5

\* A row is a hit unless LanceDB finds that it does not match.
LEMMA ReadRowIInv == ASSUME IInv, ReadRow PROVE IInv'
<1> DEFINE i == found[row]
<1>1. /\ TypeOK /\ backend # "memory" /\ pc = "read"
      /\ top_k \in Nat /\ Limit \in Nat
      /\ found \in Seq(Ids) /\ Len(found) \in Nat /\ Len(found) <= Limit
      /\ \A l \in 1 .. Len(found) : found[l] \in Ids /\ found[l] \in Ranked
  BY ReadingFacts DEF ReadRow
<1>2. /\ row \in 1 .. Len(found) /\ row + 1 \in 1 .. Len(found) + 1
      /\ i \in Ids /\ i \in Ranked
      /\ backend = "lancedb" => Len(hits) < top_k
  <2>1. row \in 1 .. Len(found) + 1 /\ hits \in Seq([id : Ids, score : Int])
    BY <1>1 DEF TypeOK
  <2>2. Len(hits) \in Nat
    BY <2>1
  <2>3. row \in 1 .. Len(found) /\ (backend = "lancedb" => Len(hits) < top_k)
    BY <1>1, <2>1, <2>2 DEF ReadRow, Enough
  <2>4. QED
    BY <1>1, <2>3
<1>3. /\ UNCHANGED <<input, pc, todo, heap, found>> /\ row' = row + 1
      /\ UNCHANGED backend /\ UNCHANGED filter
  BY DEF ReadRow, input
<1>4. /\ hits \in Seq([id : Ids, score : Int]) /\ Len(hits) \in Nat
      /\ DOMAIN hits = 1 .. Len(hits)
      /\ Len(hits) <= top_k /\ Len(hits) < row
      /\ found \in Rankings(Ranked, Limit)
      /\ \A j \in DOMAIN hits : \E l \in 1 .. row - 1 : hits[j].id = found[l]
      /\ \A l \in 1 .. row - 1 :
            backend # "lancedb" \/ Matches(found[l]) => found[l] \in HitIds
      /\ backend # "lancedb" \/ filter = <<>> => Len(hits) = row - 1
  BY <1>1 DEF IInv, RowsSound, TypeOK
<1>5. HeapSound' /\ HeapBest' /\ HitsBest'
  BY <1>1, <1>3 DEF HeapSound, HeapBest, HitsBest
<1>6. CASE backend = "lancedb" /\ ~Matches(i)
  <2>1. hits' = hits /\ filter # <<>>
    <3>1. DOMAIN <<>> = {}
      OBVIOUS
    <3>2. QED
      BY <1>6, <3>1 DEF ReadRow, Matches
  <2>2. TypeOK'
    BY <1>1, <1>2, <1>3, <2>1, Frame DEF TypeOK, input
  <2>3. HitsMatch'
    BY <1>3, <2>1, Frame DEF IInv, HitsMatch, HitIds
  <2>4. RowsSound'
    <3>1. HitIds' = HitIds
      BY <2>1 DEF HitIds
    <3>2. \A l \in 1 .. row' - 1 : l \in 1 .. row - 1 \/ l = row
      BY <1>2, <1>3
    <3>3. \A l \in 1 .. row' - 1 :
             backend # "lancedb" \/ Matches(found[l]) => found[l] \in HitIds
      BY <1>4, <1>6, <3>2
    <3>4. \A j \in DOMAIN hits : \E l \in 1 .. row' - 1 : hits[j].id = found[l]
      BY <1>2, <1>3, <1>4
    <3>5. Len(hits) < row'
      BY <1>2, <1>3, <1>4
    <3>6. QED
      BY <1>1, <1>3, <1>4, <1>6, <2>1, <3>1, <3>3, <3>4, <3>5, Frame DEF RowsSound
  <2>5. QED
    BY <1>5, <2>2, <2>3, <2>4 DEF IInv
<1>7. CASE ~(backend = "lancedb" /\ ~Matches(i))
  <2>1. hits' = Append(hits, Hit(i))
    BY <1>7 DEF ReadRow
  <2>2. Hit(i) \in [id : Ids, score : Int] /\ Hit(i).id = i
    BY <1>1, <1>2, HitType
  <2>3. /\ hits' \in Seq([id : Ids, score : Int]) /\ Len(hits') = Len(hits) + 1
        /\ DOMAIN hits' = 1 .. Len(hits) + 1
        /\ hits'[Len(hits) + 1].id = i
        /\ \A j \in 1 .. Len(hits) : hits'[j] = hits[j]
    BY <1>4, <2>1, <2>2
  <2>4. HitIds' = HitIds \cup {i}
    <3>1. \A j \in DOMAIN hits' : j \in DOMAIN hits \/ j = Len(hits) + 1
      BY <1>4, <2>3
    <3>2. DOMAIN hits \subseteq DOMAIN hits' /\ Len(hits) + 1 \in DOMAIN hits'
      BY <1>4, <2>3
    <3>3. QED
      BY <1>4, <2>3, <3>1, <3>2 DEF HitIds
  <2>5. Len(hits') <= top_k
    <3>1. backend # "lancedb" => Limit = top_k /\ Len(hits) = row - 1
      BY <1>4 DEF Limit
    <3>2. QED
      BY <1>1, <1>2, <1>4, <2>3, <3>1
  <2>6. TypeOK'
    BY <1>1, <1>2, <1>3, <2>3, <2>5, Frame DEF TypeOK, input
  <2>7. HitsMatch'
    <3>1. /\ MatchesUnderstood(i)
          /\ backend = "lancedb" => Matches(i)
          /\ backend = "pgvector" => Contains(i)
      BY <1>1, <1>2, <1>7, RankedFacts, FilterOrder
    <3>2. QED
      BY <1>1, <1>3, <2>4, <3>1, Frame DEF IInv, HitsMatch
  <2>8. RowsSound'
    <3>1. \A l \in 1 .. row' - 1 : l \in 1 .. row - 1 \/ l = row
      BY <1>2, <1>3
    <3>2. \A l \in 1 .. row' - 1 :
             backend # "lancedb" \/ Matches(found[l]) => found[l] \in HitIds'
      BY <1>4, <2>4, <3>1
    <3>3. \A j \in DOMAIN hits' : \E l \in 1 .. row' - 1 : hits'[j].id = found[l]
      <4>1. \A j \in DOMAIN hits' : j \in DOMAIN hits \/ j = Len(hits) + 1
        BY <1>4, <2>3
      <4>2. row \in 1 .. row' - 1 /\ 1 .. row - 1 \subseteq 1 .. row' - 1
        BY <1>2, <1>3
      <4>3. QED
        BY <1>4, <2>3, <4>1, <4>2
    <3>4. /\ Len(hits') < row'
          /\ backend # "lancedb" \/ filter = <<>> => Len(hits') = row' - 1
      BY <1>2, <1>3, <1>4, <2>3
    <3>5. QED
      BY <1>1, <1>3, <1>4, <3>2, <3>3, <3>4, Frame DEF RowsSound
  <2>9. QED
    BY <1>5, <2>6, <2>7, <2>8 DEF IInv
<1>8. QED
  BY <1>6, <1>7

\* The answer leaves a matching record out only for better ones: those it has, or
\* those LanceDB fetched.
LEMMA AnswerIInv == ASSUME IInv, Answer PROVE IInv'
<1>1. /\ TypeOK /\ backend # "memory" /\ pc = "read"
      /\ top_k \in Nat /\ Limit \in Nat /\ sim \in [Ids -> Int]
      /\ Len(found) \in Nat /\ Len(found) <= Limit
      /\ \A l \in 1 .. Len(found) : found[l] \in Ids
      /\ \A j, l \in 1 .. Len(found) :
            j < l => found[j] # found[l] /\ sim[found[l]] <= sim[found[j]]
      /\ \A i \in Ids : Matches(i) =>
            \/ \E l \in 1 .. Len(found) : found[l] = i
            \/ /\ Len(found) = Limit
               /\ \A j \in 1 .. Len(found) : sim[i] <= sim[found[j]]
  BY ReadingFacts DEF Answer
<1>2. UNCHANGED <<input, todo, heap, found, row, hits>> /\ pc' = "done"
  BY DEF Answer
<1>3. /\ row \in 1 .. Len(found) + 1 /\ Len(hits) \in Nat /\ Len(hits) <= top_k
      /\ \A j \in DOMAIN hits : \E l \in 1 .. row - 1 : hits[j].id = found[l]
      /\ \A l \in 1 .. row - 1 :
            backend # "lancedb" \/ Matches(found[l]) => found[l] \in HitIds
      /\ backend # "lancedb" \/ filter = <<>> => Len(hits) = row - 1
  BY <1>1 DEF IInv, RowsSound, TypeOK
<1>4. \A j \in HitIds : \E l \in 1 .. row - 1 : j = found[l]
  BY <1>3 DEF HitIds
<1>5. ASSUME NEW i \in Ids \ HitIds, Matches(i)
      PROVE  \/ /\ Len(hits) = top_k
                /\ \A j \in HitIds : sim[i] <= sim[j]
             \/ /\ backend = "lancedb" /\ filter # <<>>
                /\ Cardinality({j \in Ids : sim[i] <= sim[j]} \ {i}) >= 4 * top_k
  <2>1. \A l \in 1 .. row - 1 : found[l] # i
    BY <1>3, <1>5
  <2>2. \A l \in 1 .. row - 1 : l \in 1 .. Len(found)
    BY <1>1, <1>3
  <2>3. ASSUME NEW l \in 1 .. row - 1 PROVE sim[i] <= sim[found[l]]
    <3>1. CASE \E k \in 1 .. Len(found) : found[k] = i
      <4>1. PICK k \in 1 .. Len(found) : found[k] = i
        BY <3>1
      <4>2. l < k /\ l \in 1 .. Len(found)
        BY <1>1, <1>3, <2>1, <2>2, <4>1
      <4>3. QED
        BY <1>1, <4>1, <4>2
    <3>2. CASE ~\E k \in 1 .. Len(found) : found[k] = i
      BY <1>1, <1>5, <2>2, <3>2
    <3>3. QED
      BY <3>1, <3>2
  <2>4. \A j \in HitIds : sim[i] <= sim[j]
    BY <1>4, <2>3
  <2>5. CASE row <= Len(found)
    <3>1. Len(hits) = top_k
      BY <1>1, <1>3, <2>5 DEF Answer, Enough
    <3>2. QED
      BY <2>4, <3>1
  <2>6. CASE row > Len(found)
    <3>1. row = Len(found) + 1
      BY <1>1, <1>3, <2>6
    <3>2. \A k \in 1 .. Len(found) : k \in 1 .. row - 1
      BY <1>1, <3>1
    <3>3. Len(found) = Limit
      BY <1>1, <1>5, <2>1, <3>2
    <3>4. CASE backend # "lancedb" \/ filter = <<>>
      <4>1. Limit = top_k
        BY <3>4 DEF Limit
      <4>2. Len(hits) = top_k
        BY <1>1, <1>3, <3>1, <3>3, <3>4, <4>1
      <4>3. QED
        BY <2>4, <4>2
    <3>5. CASE backend = "lancedb" /\ filter # <<>>
      <4> DEFINE D == {j \in Ids : sim[i] <= sim[j]} \ {i}
      <4>1. Limit = 4 * top_k
        BY <3>5 DEF Limit
      <4>2. \A k \in 1 .. Limit : found[k] \in D
        BY <1>1, <2>1, <2>3, <3>2, <3>3
      <4>3. found \in Injection(1 .. Limit, D)
        <5>1. found \in [1 .. Limit -> D]
          <6>1. found \in Seq(Ids)
            BY <1>1 DEF TypeOK
          <6>2. QED
            BY <3>3, <4>2, <6>1
        <5>2. \A j, k \in 1 .. Limit : j < k => found[j] # found[k]
          BY <1>1, <3>3
        <5>3. QED
          BY <1>1, <5>1, <5>2 DEF Injection, IsInjective
      <4>4. IsFiniteSet(D) /\ Cardinality(D) \in Nat
        BY <1>1, Counting, D \in SUBSET Ids
      <4>5. Cardinality(1 .. Limit) <= Cardinality(D)
        BY <4>3, <4>4, FS_Injection
      <4>6. Cardinality(D) >= 4 * top_k
        BY <1>1, <4>1, <4>4, <4>5, FirstNumbers
      <4>7. QED
        BY <3>5, <4>6
    <3>6. QED
      BY <3>4, <3>5
  <2>7. QED
    BY <1>1, <1>3, <2>5, <2>6
<1>6. HitsBest'
  <2>1. HitIds' = HitIds /\ backend' = backend /\ filter' = filter /\ top_k' = top_k
        /\ sim' = sim /\ hits' = hits
    BY <1>2 DEF HitIds, input
  <2>2. \A i : Matches(i)' <=> Matches(i)
    BY <1>2, Frame
  <2>3. QED
    BY <1>1, <1>5, <2>1, <2>2 DEF HitsBest
<1>7. TypeOK'
  BY <1>1, <1>2, Frame DEF TypeOK, input
<1>8. HitsMatch'
  BY <1>2, Frame DEF IInv, HitsMatch, HitIds, input
<1>9. HeapSound' /\ RowsSound' /\ HeapBest'
  BY <1>2 DEF HeapSound, RowsSound, HeapBest
<1>10. QED
  BY <1>6, <1>7, <1>8, <1>9 DEF IInv

\* Nothing else happens.
LEMMA StutterIInv == ASSUME IInv, UNCHANGED vars PROVE IInv'
<1>1. UNCHANGED input /\ UNCHANGED <<pc, todo, heap, found, row, hits>>
  BY DEF vars
<1>2. TypeOK'
  BY <1>1, Frame DEF IInv, TypeOK, input
<1>3. HeapSound' /\ HeapBest'
  BY <1>1, Frame DEF IInv, HeapSound, HeapBest, input
<1>4. HitsMatch' /\ HitsBest'
  BY <1>1, Frame DEF IInv, HitsMatch, HitsBest, HitIds, input
<1>5. RowsSound'
  BY <1>1, Frame DEF IInv, RowsSound, HitIds, input
<1>6. QED
  BY <1>2, <1>3, <1>4, <1>5 DEF IInv
-----------------------------------------------------------------------------
\* The heap and the rows are what the records before them make them, in every step
\* of the search of every store.
THEOREM Invariance == Spec => []IInv
<1>1. Init => IInv
  BY InitIInv
<1>2. IInv /\ [Next]_vars => IInv'
  BY MemoryScanIInv, MemoryPushIInv, MemorySortIInv, AskIInv, ReadRowIInv, AnswerIInv,
     StutterIInv DEF Next
<1>3. QED
  BY <1>1, <1>2, PTL DEF Spec

\* The heap of the memory store never outgrows its size, and no store answers with
\* more hits than it was asked for, but for the one of the memory store when it is none.
THEOREM TypeCorrect == Spec => []TypeOK
<1>1. IInv => TypeOK
  BY DEF IInv
<1>2. QED
  BY <1>1, Invariance, PTL

\* The bounded heap of MemoryVectorStore::search holds the best of what it has seen, in
\* whatever order the hash map yields the records.
THEOREM HeapIsBest == Spec => []HeapBest
<1>1. IInv => HeapBest
  BY DEF IInv
<1>2. QED
  BY <1>1, Invariance, PTL

\* No store returns a record that fails a scalar condition of the filter, and the memory
\* store and LanceDB none that fails any.
THEOREM FiltersHonoured == Spec => []HitsMatch
<1>1. IInv => HitsMatch
  BY DEF IInv
<1>2. QED
  BY <1>1, Invariance, PTL

\* A matching record that an answer lacks has better ones before it; only LanceDB, which
\* fetches four times the hits and filters after, may leave it out for records that do
\* not match.
THEOREM AnswersBest == Spec => []HitsBest
<1>1. IInv => HitsBest
  BY DEF IInv
<1>2. QED
  BY <1>1, Invariance, PTL
-----------------------------------------------------------------------------
\* A hit is made from the row and the query alone.
LEMMA HitFrame == ASSUME UNCHANGED input PROVE \A i : Hit(i)' = Hit(i)
<1>1. \A s : Reported(s)' = Reported(s)
  BY Zenon DEF input, Reported
<1>2. \A d : /\ PgScore(d)' = PgScore(d) /\ LanceScore(d)' = LanceScore(d)
             /\ EdgeScore(d)' = EdgeScore(d) /\ QdrantScore(d)' = QdrantScore(d)
  BY Zenon DEF input, PgScore, LanceScore, EdgeScore, QdrantScore
<1>3. QED
  BY <1>1, <1>2, Zenon DEF input, Hit

\* The score of a hit of each engine.
LEMMA EngineScores ==
    ASSUME TypeOK, NEW i \in Ids
    PROVE  LET s == sim[i]
           IN  /\ backend = "pgvector" => Hit(i).score = s
               /\ backend = "lancedb" =>
                     Hit(i).score = IF distance = "cosine" THEN s
                                    ELSE IF reports = "assumed" THEN s
                                    ELSE IF distance = "l2" THEN -(s * s) ELSE s - Unit
               /\ backend \in {"edge", "qdrant"} /\ <<backend, distance>> \notin Inverted =>
                     Hit(i).score = s
<1> DEFINE s == sim[i]
           d == Reported(s)
<1>1. /\ distance \in {"cosine", "l2", "dot"} /\ reports \in {"assumed", "other"}
      /\ s \in Int /\ Unit \in Int
  BY SearchAssumption DEF TypeOK
<1>2. CASE backend = "pgvector"
  <2>1. Hit(i).score = PgScore(d)
    <3>1. Hit(i) = [id |-> i, score |-> PgScore(d)]
      BY <1>2, Zenon DEF Hit
    <3>2. QED
      BY <3>1
  <2>2. d = IF distance = "cosine" THEN Unit - s ELSE -s
    <3>1. distance = "cosine" => d = Unit - s
      BY <1>2, Zenon DEF Reported
    <3>2. distance = "l2" => d = -s
      BY <1>2, Zenon DEF Reported
    <3>3. distance = "dot" => d = -s
      BY <1>2, Zenon DEF Reported
    <3>4. QED
      BY <1>1, <3>1, <3>2, <3>3
  <2> HIDE DEF d
  <2>3. PgScore(d) = s
    <3> HIDE DEF s
    <3>1. QED
      BY <1>1, <2>2 DEF PgScore
  <2>4. QED
    BY <1>2, <2>1, <2>3
<1>3. CASE backend = "lancedb"
  <2>1. Hit(i).score = LanceScore(d)
    <3>1. Hit(i) = [id |-> i, score |-> LanceScore(d)]
      BY <1>3, Zenon DEF Hit
    <3>2. QED
      BY <3>1
  <2>2. d = IF distance = "cosine" THEN Unit - s
            ELSE IF distance = "l2" THEN IF reports = "assumed" THEN -s ELSE s * s
            ELSE IF reports = "assumed" THEN -s ELSE Unit - s
    <3>1. distance = "cosine" => d = Unit - s
      BY <1>3, Zenon DEF Reported
    <3>2. distance = "l2" => d = IF reports = "assumed" THEN -s ELSE s * s
      BY <1>3, Zenon DEF Reported
    <3>3. distance = "dot" => d = IF reports = "assumed" THEN -s ELSE Unit - s
      BY <1>3, Zenon DEF Reported
    <3>4. QED
      BY <1>1, <3>1, <3>2, <3>3
  <2> HIDE DEF d
  <2>3. LanceScore(d) = IF distance = "cosine" THEN s
                        ELSE IF reports = "assumed" THEN s
                        ELSE IF distance = "l2" THEN -(s * s) ELSE s - Unit
    <3> HIDE DEF s
    <3>1. QED
      BY <1>1, <2>2 DEF LanceScore
  <2>4. QED
    BY <1>3, <2>1, <2>3
<1>4. CASE backend = "edge" /\ <<backend, distance>> \notin Inverted
  <2>1. Hit(i).score = EdgeScore(d)
    <3>1. Hit(i) = [id |-> i, score |-> EdgeScore(d)]
      BY <1>4, Zenon DEF Hit
    <3>2. QED
      BY <3>1
  <2>2. ~(distance = "cosine" /\ reports # "assumed")
    BY <1>4 DEF Inverted
  <2>3. distance = "cosine" => d = Unit - s /\ EdgeScore(d) = Unit - d
    BY <1>4, <2>2, Zenon DEF Reported, EdgeScore
  <2>4. distance = "l2" => d = -s /\ EdgeScore(d) = -d
    BY <1>4, Zenon DEF Reported, EdgeScore
  <2>5. distance = "dot" => d = s /\ EdgeScore(d) = d
    BY <1>4, Zenon DEF Reported, EdgeScore
  <2> HIDE DEF d
  <2>6. EdgeScore(d) = s
    <3> HIDE DEF s
    <3>1. QED
      BY <1>1, <2>3, <2>4, <2>5
  <2>7. QED
    BY <1>4, <2>1, <2>6
<1>5. CASE backend = "qdrant" /\ <<backend, distance>> \notin Inverted
  <2>1. Hit(i).score = d
    <3>1. Hit(i) = [id |-> i, score |-> d]
      BY <1>5, Zenon DEF Hit, QdrantScore
    <3>2. QED
      BY <3>1
  <2>2. distance # "l2" /\ ~(distance = "cosine" /\ reports = "assumed")
    BY <1>5 DEF Inverted
  <2>3. distance = "cosine" => d = s
    BY <1>5, <2>2, Zenon DEF Reported
  <2>4. distance = "dot" => d = s
    BY <1>5, Zenon DEF Reported
  <2> HIDE DEF d
  <2>5. QED
    BY <1>1, <1>5, <2>1, <2>2, <2>3, <2>4
<1>6. QED
  BY <1>2, <1>3, <1>4, <1>5

\* Squares of distances are ordered as the distances are.
LEMMA SquaresOrdered ==
    ASSUME NEW a \in Int, NEW b \in Int, a <= b, b <= 0
    PROVE  -(a * a) <= -(b * b)
<1>1. a * b <= a * a
  BY SMT
<1>2. b * b <= a * b
  BY SMT
<1>3. QED
  BY <1>1, <1>2

\* The better of two rows is not scored lower.
LEMMA ScoresOrdered ==
    ASSUME TypeOK, backend # "memory", <<backend, distance>> \notin Inverted,
           NEW i \in Ids, NEW j \in Ids, sim[i] <= sim[j]
    PROVE  Hit(i).score <= Hit(j).score
<1>1. /\ backend \in {"pgvector", "lancedb", "edge", "qdrant"}
      /\ distance \in {"cosine", "l2", "dot"}
      /\ sim[i] \in Int /\ sim[j] \in Int /\ Unit \in Int
      /\ distance = "l2" => sim[j] <= 0
  BY SearchAssumption DEF TypeOK, Possible
<1>2. CASE backend = "lancedb"
  <2>1. CASE distance = "l2" /\ reports # "assumed"
    BY <1>1, <1>2, <2>1, EngineScores, SquaresOrdered
  <2>2. CASE distance # "l2" \/ reports = "assumed"
    BY <1>1, <1>2, <2>2, EngineScores
  <2>3. QED
    BY <2>1, <2>2
<1>3. CASE backend # "lancedb"
  BY <1>1, <1>3, EngineScores
<1>4. QED
  BY <1>2, <1>3

\* The hits are in the order of the rows, or of the sorted heap, and scored so.
LEMMA NextScored == ASSUME IInv, HitsScored, [Next]_vars PROVE HitsScored'
<1>1. CASE UNCHANGED <<input, hits>>
  BY <1>1, HitFrame DEF HitsScored, input
<1>2. CASE MemorySort
  <2>1. PICK s \in Rankings(heap, Cardinality(heap)) :
           hits' = [j \in DOMAIN s |-> [id |-> s[j], score |-> sim[s[j]]]]
    BY <1>2 DEF MemorySort
  <2>2. /\ TypeOK /\ heap \in SUBSET Ids /\ Cardinality(heap) \in Nat
        /\ backend = "memory" /\ UNCHANGED input
    BY <1>2, Counting DEF IInv, TypeOK, HeapSound, MemorySort
  <2>3. \A j, l \in DOMAIN s : j < l => sim[s[l]] <= sim[s[j]]
    BY <2>1, <2>2, RankingFacts
  <2>4. QED
    BY <2>1, <2>2, <2>3 DEF HitsScored, input
<1>3. CASE ReadRow
  <2> DEFINE i == found[row]
  <2>1. /\ TypeOK /\ backend # "memory" /\ Len(found) \in Nat
        /\ \A l \in 1 .. Len(found) : found[l] \in Ids
        /\ \A j, l \in 1 .. Len(found) : j < l => sim[found[l]] <= sim[found[j]]
    BY <1>3, ReadingFacts DEF ReadRow
  <2>2. row \in 1 .. Len(found) /\ UNCHANGED input
    BY <1>3, <2>1 DEF ReadRow, Enough, TypeOK
  <2>3. \A j \in DOMAIN hits : sim[i] <= sim[hits[j].id]
    <3>1. ASSUME NEW j \in DOMAIN hits PROVE sim[i] <= sim[hits[j].id]
      <4>1. PICK l \in 1 .. row - 1 : hits[j].id = found[l]
        BY <1>3 DEF IInv, RowsSound, ReadRow
      <4>2. QED
        BY <2>1, <2>2, <4>1
    <3>2. QED
      BY <3>1
  <2>4. CASE hits' = hits
    BY <2>2, <2>4, HitFrame DEF HitsScored, input
  <2>5. CASE hits' = Append(hits, Hit(i))
    <3>1. Hit(i) \in [id : Ids, score : Int] /\ Hit(i).id = i
      BY <2>1, <2>2, HitType
    <3>2. hits \in Seq([id : Ids, score : Int])
      BY <2>1 DEF TypeOK
    <3>3. /\ DOMAIN hits = 1 .. Len(hits) /\ Len(hits) \in Nat
          /\ DOMAIN hits' = 1 .. Len(hits) + 1
          /\ hits'[Len(hits) + 1] = Hit(i)
          /\ \A j \in 1 .. Len(hits) : hits'[j] = hits[j]
      BY <2>5, <3>1, <3>2
    <3>4. ASSUME NEW j \in DOMAIN hits', NEW l \in DOMAIN hits', j < l
          PROVE  sim[hits'[l].id] <= sim[hits'[j].id]
      <4>1. j \in DOMAIN hits /\ (l \in DOMAIN hits \/ l = Len(hits) + 1)
        BY <3>3, <3>4
      <4>2. QED
        BY <2>3, <3>1, <3>3, <3>4, <4>1 DEF HitsScored
    <3>5. ASSUME NEW j \in DOMAIN hits' PROVE hits'[j].score = Hit(hits'[j].id).score
      <4>1. j \in DOMAIN hits \/ j = Len(hits) + 1
        BY <3>3
      <4>2. QED
        BY <2>1, <3>1, <3>3, <4>1 DEF HitsScored
    <3>6. QED
      BY <2>1, <2>2, <3>4, <3>5, HitFrame DEF HitsScored, input
  <2>6. QED
    BY <1>3, <2>4, <2>5 DEF ReadRow
<1>4. QED
  BY <1>1, <1>2, <1>3 DEF Next, MemoryScan, MemoryPush, PgQuery, LanceQuery, EdgeQuery,
     QdrantQuery, Ask, Answer, vars

\* Better hits come first, and the stores can be exchanged: for any similarities, filter
\* and number of hits, a store other than LanceDB scores a hit as the memory store does,
\* and LanceDB, whose l2 may be squared, in the same order; except where Inverted says.
THEOREM ScoresCompare == Spec => []ScoresComparable
<1>1. Init => HitsScored
  BY DEF Init, HitsScored
<1>2. IInv /\ HitsScored /\ [Next]_vars => HitsScored'
  BY NextScored
<1>3. IInv /\ HitsScored => ScoresComparable
  <2> SUFFICES ASSUME IInv, HitsScored PROVE ScoresComparable
    OBVIOUS
  <2>1. TypeOK /\ \A j \in DOMAIN hits : hits[j].id \in Ids
    <3> DEFINE R == [id : Ids, score : Int]
    <3>1. TypeOK /\ hits \in Seq(R) /\ \A h \in R : h.id \in Ids
      BY DEF IInv, TypeOK
    <3> HIDE DEF R
    <3>2. \A j \in DOMAIN hits : hits[j] \in R
      BY <3>1
    <3>3. QED
      BY <3>1, <3>2
  <2>2. CASE backend = "memory"
    BY <2>1, <2>2 DEF HitsScored, ScoresComparable
  <2>3. CASE backend # "memory"
    <3>1. backend \in {"pgvector", "lancedb", "edge", "qdrant"}
      BY <2>1, <2>3, SearchAssumption DEF TypeOK
    <3>2. ASSUME <<backend, distance>> \notin Inverted, NEW j \in DOMAIN hits
          PROVE  backend # "lancedb" => hits[j].score = sim[hits[j].id]
      BY <2>1, <2>3, <3>1, <3>2, EngineScores DEF HitsScored
    <3>3. ASSUME <<backend, distance>> \notin Inverted,
                 NEW j \in DOMAIN hits, NEW l \in DOMAIN hits,
                 sim[hits[l].id] <= sim[hits[j].id]
          PROVE  hits[l].score <= hits[j].score
      BY <2>1, <2>3, <3>3, ScoresOrdered DEF HitsScored
    <3>4. QED
      BY <3>2, <3>3 DEF HitsScored, ScoresComparable
  <2>4. QED
    BY <2>2, <2>3
<1>4. QED
  BY <1>1, <1>2, <1>3, Invariance, PTL DEF Spec
=============================================================================
