----------------------------- MODULE TableStore -----------------------------
(***************************************************************************)
(* One collection of the vector stores whose records are in one table:     *)
(* PgVectorStore, LanceDbVectorStore, QdrantVectorStore (the server) and   *)
(* MemoryVectorStore of src/src/vector.  The table of the first three is   *)
(* shared by all processes.  The distance a search uses is in a map of the *)
(* process for pgvector and LanceDB, and with the table for the server and *)
(* the memory store; of the latter nothing outlives the process.           *)
(*                                                                         *)
(* A process always names the same shape for the collection.  A batch is   *)
(* one record for each of Order, all with one content; a delete is of all  *)
(* of them.  The chunks of a pgvector upsert are one record long.  The     *)
(* Qdrant server applies a request as a whole (external).                  *)
(***************************************************************************)
EXTENDS Naturals, Sequences

CONSTANTS Threads, Procs,
          ProcOf,   \* the process of each thread
          ShapeOf,  \* [dim, distance] each process ensures the collection with
          Backends, \* subset of {"pgvector", "lancedb", "qdrant", "memory"}
          Order,    \* the ids of a batch, in its order
          Vals,     \* contents of records
          Dims,     \* dimensions of the vectors
          Shared,   \* the place of the table that all processes share
          None

Ids == {Order[i] : i \in DOMAIN Order}
Distances == {"cosine", "l2", "dot"}
Batches == [dim : [DOMAIN Order -> Dims], val : Vals]
Tables == [dim : Dims, distance : Distances, recs : [Ids -> Vals \cup {None}]]
Places == Procs \cup {Shared}

ASSUME TableAssumption ==
    /\ ProcOf \in [Threads -> Procs]
    /\ ShapeOf \in [Procs -> [dim : Dims, distance : Distances]]
    /\ Backends \subseteq {"pgvector", "lancedb", "qdrant", "memory"}
    /\ Order \in Seq(Ids) /\ Order # <<>>
    /\ None \notin Vals \cup Batches \cup Distances \cup Tables
    /\ Shared \notin Procs

VARIABLES backend,
          table,     \* table[h]: the table at place h: its shape and its records
                     \* (pgvector and LanceDB do not keep the distance there)
          distances, \* distances[p]: the entry in the map of process p
          pc,        \* pc[t]: where thread t is
          batch,     \* batch[t]: the batch it upserts
          done,      \* done[t]: the records its open transaction has inserted
          clean,     \* clean[t]: no drop of its process began during its ensure (history)
          known,     \* known[p]: an ensure during which p began no drop returned Ok, and
                     \* since then p has begun and ended no drop and not restarted (history)
          acked      \* the content that was upserted last into the shared table, if
                     \* no delete or drop took effect since (history)

vars == <<backend, table, distances, pc, batch, done, clean, known, acked>>

Init == /\ backend \in Backends
        /\ table = [h \in Places |-> None]
        /\ distances = [p \in Procs |-> None]
        /\ pc = [t \in Threads |-> "idle"]
        /\ batch = [t \in Threads |-> None]
        /\ done = [t \in Threads |-> 0]
        /\ clean = [t \in Threads |-> FALSE]
        /\ known = [p \in Procs |-> FALSE]
        /\ acked = None

Place(t) == IF backend = "memory" THEN ProcOf[t] ELSE Shared
Table(t) == table[Place(t)]
Shape(t) == ShapeOf[ProcOf[t]]
Put(t, x) == table' = [table EXCEPT ![Place(t)] = x]
Empty(s) == [dim |-> s.dim, distance |-> s.distance, recs |-> [i \in Ids |-> None]]
Written(x, n, v) == [x EXCEPT !.recs = [i \in Ids |->
                         IF \E j \in 1 .. n : Order[j] = i THEN v ELSE @[i]]]

Goto(t, l) == pc' = [pc EXCEPT ![t] = l]
Note(t) == distances' = [distances EXCEPT ![ProcOf[t]] = Shape(t).distance]
Forget(t) == distances' = [distances EXCEPT ![ProcOf[t]] = None]

EnsureBegins(t) == clean' = [clean EXCEPT ![t] = TRUE]
EnsureOk(t) == /\ known' = [known EXCEPT ![ProcOf[t]] = @ \/ clean[t]]
               /\ UNCHANGED clean
DropBegins(t) == /\ known' = [known EXCEPT ![ProcOf[t]] = FALSE]
                 /\ clean' = [u \in Threads |-> clean[u] /\ ProcOf[u] # ProcOf[t]]

(***************************************************************************)
(* ensure_collection and drop_collection of pgvector: the table first, the *)
(* map afterwards.  A statement may take effect and its answer be lost.    *)
(***************************************************************************)
PgCreate(t) ==
    /\ backend = "pgvector" /\ pc[t] = "idle"
    /\ Put(t, IF Table(t) = None THEN Empty(Shape(t)) ELSE Table(t))
    /\ Goto(t, "note")
    /\ EnsureBegins(t)
    /\ UNCHANGED <<backend, distances, batch, done, known, acked>>

PgNote(t) ==
    /\ pc[t] = "note"
    /\ Note(t)
    /\ Goto(t, "idle")
    /\ EnsureOk(t)
    /\ UNCHANGED <<backend, table, batch, done, acked>>

\* DROP TABLE waits for the transactions that use the table.
PgDrop(t) ==
    /\ backend = "pgvector" /\ pc[t] = "idle"
    /\ \A u \in Threads : done[u] = 0
    /\ Put(t, None)
    /\ Goto(t, "forget")
    /\ DropBegins(t)
    /\ acked' = None
    /\ UNCHANGED <<backend, distances, batch, done>>

PgForget(t) ==
    /\ pc[t] = "forget"
    /\ Forget(t)
    /\ Goto(t, "idle")
    /\ known' = [known EXCEPT ![ProcOf[t]] = FALSE]
    /\ UNCHANGED <<backend, table, batch, done, clean, acked>>

(***************************************************************************)
(* The same of LanceDB: the map first.  ensure lists the tables and        *)
(* creates one that is missing, which fails if another was faster.         *)
(***************************************************************************)
\* A mistake: the distance noted only for a table that is not there yet.
LanceNoteNew(t) ==
    /\ backend = "lancedb" /\ pc[t] = "idle"
    /\ IF Table(t) = None THEN Note(t) ELSE UNCHANGED distances
    /\ Goto(t, "list")
    /\ EnsureBegins(t)
    /\ UNCHANGED <<backend, table, batch, done, known, acked>>

LanceNote(t) ==
    /\ backend = "lancedb" /\ pc[t] = "idle"
    /\ Note(t)
    /\ Goto(t, "list")
    /\ EnsureBegins(t)
    /\ UNCHANGED <<backend, table, batch, done, known, acked>>

LanceList(t) ==
    /\ pc[t] = "list"
    /\ \/ Table(t) # None /\ Goto(t, "idle") /\ EnsureOk(t)
       \/ Table(t) = None /\ Goto(t, "create") /\ UNCHANGED <<clean, known>>
    /\ UNCHANGED <<backend, table, distances, batch, done, acked>>

\* A mistake: creating over a table that is there by now.
LanceCreateOver(t) ==
    /\ backend = "lancedb" /\ pc[t] = "create"
    /\ Put(t, Empty(Shape(t)))
    /\ EnsureOk(t)
    /\ Goto(t, "idle")
    /\ UNCHANGED <<backend, distances, batch, done, acked>>

LanceCreate(t) ==
    /\ backend = "lancedb" /\ pc[t] = "create"
    /\ \/ Table(t) = None /\ Put(t, Empty(Shape(t))) /\ EnsureOk(t)
       \/ Table(t) # None /\ UNCHANGED <<table, clean, known>>
    /\ Goto(t, "idle")
    /\ UNCHANGED <<backend, distances, batch, done, acked>>

LanceForget(t) ==
    /\ backend = "lancedb" /\ pc[t] = "idle"
    /\ Forget(t)
    /\ Goto(t, "drop")
    /\ DropBegins(t)
    /\ UNCHANGED <<backend, table, batch, done, acked>>

LanceDrop(t) ==
    /\ pc[t] = "drop" /\ Table(t) # None
    /\ Put(t, None)
    /\ Goto(t, "idle")
    /\ acked' = None
    /\ UNCHANGED <<backend, distances, batch, done, clean, known>>

(***************************************************************************)
(* upsert.  pgvector inserts chunk by chunk in one transaction: a row that *)
(* another transaction has inserted is waited for.                         *)
(***************************************************************************)
PgBegin(t, b) ==
    /\ backend = "pgvector" /\ pc[t] = "idle"
    /\ Goto(t, "insert")
    /\ batch' = [batch EXCEPT ![t] = b]
    /\ UNCHANGED <<backend, table, distances, done, clean, known, acked>>

Ready(t) == /\ pc[t] = "insert" /\ done[t] < Len(Order)
            /\ Table(t) # None /\ Table(t).dim = batch[t].dim[done[t] + 1]
            /\ \A u \in Threads \ {t} : done[u] <= done[t]

\* A mistake: inserting outside of the transaction.
PgInsertAtOnce(t) ==
    /\ Ready(t)
    /\ done' = [done EXCEPT ![t] = @ + 1]
    /\ Put(t, Written(Table(t), done[t] + 1, batch[t].val))
    /\ UNCHANGED <<backend, distances, pc, batch, clean, known, acked>>

PgInsert(t) ==
    /\ Ready(t)
    /\ done' = [done EXCEPT ![t] = @ + 1]
    /\ UNCHANGED <<backend, table, distances, pc, batch, clean, known, acked>>

PgCommit(t) ==
    /\ pc[t] = "insert" /\ done[t] = Len(Order)
    /\ Put(t, Written(Table(t), Len(Order), batch[t].val))
    /\ Goto(t, "idle")
    /\ batch' = [batch EXCEPT ![t] = None]
    /\ done' = [done EXCEPT ![t] = 0]
    /\ acked' = batch[t].val
    /\ UNCHANGED <<backend, distances, clean, known>>

\* LanceDB opens the table, checks the dimensions against the first record, and
\* merges the batch as a whole.
SameDims(b) == \A i \in DOMAIN Order : b.dim[i] = b.dim[1]

LanceOpen(t, b) ==
    /\ backend = "lancedb" /\ pc[t] = "idle" /\ Table(t) # None
    /\ SameDims(b)
    /\ Goto(t, "merge")
    /\ batch' = [batch EXCEPT ![t] = b]
    /\ UNCHANGED <<backend, table, distances, done, clean, known, acked>>

LanceMerge(t) ==
    /\ pc[t] = "merge" /\ Table(t) # None
    /\ Table(t).dim = batch[t].dim[1]
    /\ Put(t, Written(Table(t), Len(Order), batch[t].val))
    /\ Goto(t, "idle")
    /\ batch' = [batch EXCEPT ![t] = None]
    /\ acked' = batch[t].val
    /\ UNCHANGED <<backend, distances, done, clean, known>>

\* A delete of pgvector waits for the rows that a transaction has updated.  LanceDB opens
\* the table first, and fails if it is dropped before the delete: as if there was none.
TableDelete(t) ==
    /\ backend # "memory" /\ pc[t] = "idle" /\ Table(t) # None
    /\ Table(t) # Empty(Table(t)) => \A u \in Threads : done[u] = 0
    /\ Put(t, Empty(Table(t)))
    /\ acked' = None
    /\ UNCHANGED <<backend, distances, pc, batch, done, clean, known>>

(***************************************************************************)
(* The client of the Qdrant server.  ensure goes on to create also if it   *)
(* cannot find out whether the collection is there.                        *)
(***************************************************************************)
QdrantExists(t) ==
    /\ backend = "qdrant" /\ pc[t] = "idle"
    /\ \/ Table(t) # None /\ UNCHANGED pc
       \/ Goto(t, "create")
    /\ UNCHANGED <<backend, table, distances, batch, done, clean, known, acked>>

QdrantCreate(t) ==
    /\ backend = "qdrant" /\ pc[t] = "create" /\ Table(t) = None
    /\ Put(t, Empty(Shape(t)))
    /\ Goto(t, "idle")
    /\ UNCHANGED <<backend, distances, batch, done, clean, known, acked>>

QdrantDrop(t) ==
    /\ backend = "qdrant" /\ pc[t] = "idle"
    /\ Put(t, None)
    /\ acked' = None
    /\ UNCHANGED <<backend, distances, pc, batch, done, clean, known>>

QdrantUpsert(t, b) ==
    /\ backend = "qdrant" /\ pc[t] = "idle" /\ Table(t) # None
    /\ SameDims(b) /\ b.dim[1] = Table(t).dim
    /\ Put(t, Written(Table(t), Len(Order), b.val))
    /\ acked' = b.val
    /\ UNCHANGED <<backend, distances, pc, batch, done, clean, known>>

(***************************************************************************)
(* The memory store, under its lock.  upsert writes the records before the *)
(* first one of another dimension.                                         *)
(***************************************************************************)
Fitting(t, b) == {n \in 0 .. Len(Order) : \A i \in 1 .. n : b.dim[i] = Table(t).dim}

MemoryEnsure(t) ==
    /\ backend = "memory" /\ pc[t] = "idle" /\ Table(t) = None
    /\ Put(t, Empty(Shape(t)))
    /\ known' = [known EXCEPT ![ProcOf[t]] = TRUE]
    /\ UNCHANGED <<backend, distances, pc, batch, done, clean, acked>>

MemoryDrop(t) ==
    /\ backend = "memory" /\ pc[t] = "idle"
    /\ Put(t, None)
    /\ known' = [known EXCEPT ![ProcOf[t]] = FALSE]
    /\ UNCHANGED <<backend, distances, pc, batch, done, clean, acked>>

MemoryUpsert(t, b) ==
    /\ backend = "memory" /\ pc[t] = "idle" /\ Table(t) # None
    /\ \E n \in Fitting(t, b) : /\ \A m \in Fitting(t, b) : m <= n
                                /\ Put(t, Written(Table(t), n, b.val))
    /\ UNCHANGED <<backend, distances, pc, batch, done, clean, known, acked>>

MemoryDelete(t) ==
    /\ backend = "memory" /\ pc[t] = "idle" /\ Table(t) # None
    /\ Put(t, Empty(Table(t)))
    /\ UNCHANGED <<backend, distances, pc, batch, done, clean, known, acked>>

\* A mistake: an error leaves the transaction open.
FailOpen(t) ==
    /\ pc[t] # "idle"
    /\ Goto(t, "idle")
    /\ batch' = [batch EXCEPT ![t] = None]
    /\ UNCHANGED <<backend, table, distances, done, clean, known, acked>>

\* A call ends with an error: a statement fails, or the future is dropped.  An
\* open transaction is rolled back.
Fail(t) ==
    /\ pc[t] # "idle"
    /\ Goto(t, "idle")
    /\ batch' = [batch EXCEPT ![t] = None]
    /\ done' = [done EXCEPT ![t] = 0]
    /\ UNCHANGED <<backend, table, distances, clean, known, acked>>

\* Process p dies and starts again.
Restart(p) ==
    LET mine == {t \in Threads : ProcOf[t] = p}
    IN  /\ distances' = [distances EXCEPT ![p] = None]
        /\ known' = [known EXCEPT ![p] = FALSE]
        /\ pc' = [t \in Threads |-> IF t \in mine THEN "idle" ELSE pc[t]]
        /\ batch' = [t \in Threads |-> IF t \in mine THEN None ELSE batch[t]]
        /\ done' = [t \in Threads |-> IF t \in mine THEN 0 ELSE done[t]]
        /\ clean' = [t \in Threads |-> t \notin mine /\ clean[t]]
        /\ table' = [table EXCEPT ![p] = None]
        /\ UNCHANGED <<backend, acked>>

Pg(t) == \/ PgCreate(t) \/ PgNote(t) \/ PgDrop(t) \/ PgForget(t)
         \/ (\E b \in Batches : PgBegin(t, b)) \/ PgInsert(t) \/ PgCommit(t)
Lance(t) == \/ LanceNote(t) \/ LanceList(t) \/ LanceCreate(t)
            \/ LanceForget(t) \/ LanceDrop(t)
            \/ (\E b \in Batches : LanceOpen(t, b)) \/ LanceMerge(t)
Server(t) == \/ QdrantExists(t) \/ QdrantCreate(t) \/ QdrantDrop(t)
             \/ \E b \in Batches : QdrantUpsert(t, b)
Memory(t) == \/ MemoryEnsure(t) \/ MemoryDrop(t) \/ MemoryDelete(t)
             \/ \E b \in Batches : MemoryUpsert(t, b)

Next == \/ \E t \in Threads : \/ Pg(t) \/ Lance(t) \/ Server(t) \/ Memory(t)
                            \/ TableDelete(t) \/ Fail(t)
        \/ \E p \in Procs : Restart(p)

Spec == Init /\ [][Next]_vars
-----------------------------------------------------------------------------
\* distance_of: what a search of process p uses; the memory store fails without a table.
\* (The Qdrant server uses the table's, whatever was asked for after it was created.)
DistanceOf(p) ==
    IF backend = "memory" THEN IF table[p] = None THEN None ELSE table[p].distance
    ELSE IF distances[p] = None THEN "cosine" ELSE distances[p]

\* The types of the variables; only a transaction has inserted records, and the
\* table it inserts into is there until it ends.
TypeOK ==
    /\ backend \in Backends
    /\ table \in [Places -> Tables \cup {None}]
    /\ distances \in [Procs -> Distances \cup {None}]
    /\ pc \in [Threads -> {"idle", "note", "forget", "list", "create", "drop",
                           "insert", "merge"}]
    /\ batch \in [Threads -> Batches \cup {None}]
    /\ done \in [Threads -> 0 .. Len(Order)]
    /\ clean \in [Threads -> BOOLEAN] /\ known \in [Procs -> BOOLEAN]
    /\ acked \in Vals \cup {None}
    /\ \A t \in Threads : /\ batch[t] # None <=> pc[t] \in {"insert", "merge"}
                          /\ done[t] > 0 => pc[t] = "insert" /\ Table(t) # None

\* Records that were upserted together are found together, with the contents of
\* one batch, whatever fails and whoever else upserts, deletes or re-creates the
\* collection; the memory store leaves the first part of a batch it rejects.
BatchesWhole ==
    \A h \in Places : table[h] # None /\ backend # "memory" =>
        \A i, j \in Ids : table[h].recs[i] = table[h].recs[j]

\* A batch that was upserted into the shared table is found until a delete, a drop or
\* another upsert takes effect: no ensure that raced with the one that created the
\* table, no upsert that fails or is rolled back, and no restart takes it away.
AckedKept ==
    acked # None => table[Shared] # None /\ \A i \in Ids : table[Shared].recs[i] = acked

\* A process searches with the distance it asked for once an ensure of its own returned
\* Ok, until it restarts or a drop of its own begins or ends: also if the table was there
\* already, its other threads fail to ensure it, or other processes drop and re-create
\* it.  Otherwise it may search by cosine, but never by what another process asked for.
\* Excluded are, because the code is wrong there, an ensure that meets a drop of its own
\* process.  pgvector: DROP TABLE; another thread's ensure creates the table, notes the
\* distance and returns Ok; then the drop ends and removes the entry.  LanceDB: the
\* ensure notes; the drop, begun during it, forgets and drops; the ensure creates the
\* table and returns Ok.  The table is there, and searches are by cosine from then on.
SearchesAsEnsured ==
    \A p \in Procs : \/ DistanceOf(p) = ShapeOf[p].distance
                     \/ ~known[p] /\ DistanceOf(p) \in {"cosine", None}
-----------------------------------------------------------------------------
\* The inductive invariant.  A call is where its store's methods go.
Located ==
    \A t \in Threads : /\ pc[t] \in {"note", "forget", "insert"} => backend = "pgvector"
                       /\ pc[t] \in {"list", "drop", "merge"} => backend = "lancedb"
                       /\ pc[t] = "create" => backend \in {"lancedb", "qdrant"}

\* A process notes the distance it asked for, no other, and the memory store has no
\* table of another shape.
Asked ==
    \A p \in Procs : /\ distances[p] \in {ShapeOf[p].distance, None}
                     /\ table[p] # None => table[p].distance = ShapeOf[p].distance

\* While no drop of its process has begun during an ensure, the store that notes first
\* has noted.
CleanEnsure ==
    \A t \in Threads : clean[t] /\ pc[t] \in {"list", "create"} /\ backend = "lancedb" =>
        distances[ProcOf[t]] = Shape(t).distance

\* Where an ensure has returned Ok and no drop has begun or ended since, the distance is
\* noted.
KnownNoted ==
    \A p \in Procs : known[p] => IF backend = "memory" THEN table[p] # None
                                 ELSE distances[p] # None

IInv == /\ TypeOK /\ BatchesWhole /\ AckedKept
        /\ Located /\ Asked /\ CleanEnsure /\ KnownNoted
=============================================================================
