----------------------------- MODULE EdgeStore ------------------------------
(***************************************************************************)
(* One collection of QdrantEdgeVectorStore                                 *)
(* (src/src/vector/qdrant_edge_store.rs): the map from names to shards,    *)
(* the entry behind a name with its string-to-number ids, the directory    *)
(* with the segments of the shard and the state file, and the threads that *)
(* ensure, drop, upsert and delete.  The process may die anywhere and      *)
(* start again with an empty map over the same directory.                  *)
(*                                                                         *)
(* The map mutex is held for a single step; the mutex of an entry from the *)
(* update of the shard until the state file is written.  A thread that     *)
(* found an entry keeps it alive, also after the collection was dropped.   *)
(* A batch of records is one record: it is assigned, updated, flushed and  *)
(* persisted as a whole.  Calls that return at their first lookup (an      *)
(* ensure of a collection that is open, an upsert of another dimension, a  *)
(* delete on a collection that is not open) change nothing and are no      *)
(* steps.                                                                  *)
(***************************************************************************)
EXTENDS Naturals, FiniteSets

CONSTANTS Threads,
          Entries,  \* names for the ShardEntry objects
          Ids,      \* the string ids of records
          Vals,     \* what a record can contain (vector and metadata)
          Dims,     \* the dimensions of vectors
          MaxNum,   \* bound on the numbers handed out
          Inputs,   \* Inputs[regime]: the calls made; in the "calm" regime a drop
                    \* overlaps no other call, in the "racing" one it may
          None

Distances == {"cosine", "l2", "dot"}
Shapes == [dim : Dims, distance : Distances]
Calls == [op : {"ensure"}, shape : Shapes]
         \cup [op : {"upsert"}, dim : Dims, id : Ids, val : Vals]
         \cup [op : {"delete"}, id : Ids]
         \cup [op : {"drop"}]

Nums == 1 .. MaxNum
Points == [Nums -> [id : Ids, val : Vals] \cup {None}]
States == [shape : Shapes, next : 1 .. MaxNum + 1, ids : [Ids -> 0 .. MaxNum],
           meta : [Nums -> Vals \cup {None}]]
Shards == [shape : Shapes, next : 1 .. MaxNum + 1, ids : [Ids -> 0 .. MaxNum],
           meta : [Nums -> Vals \cup {None}], points : Points]

ASSUME EdgeAssumption ==
    /\ MaxNum \in Nat
    /\ DOMAIN Inputs \subseteq {"calm", "racing"}
    /\ \A r \in DOMAIN Inputs : Inputs[r] \subseteq Calls
    /\ None \notin Entries \cup Vals \cup Calls \cup [id : Ids, val : Vals] \cup Points
                    \cup States \cup Shards

VARIABLES regime,
          slot,     \* shards: the entry under the name, if any
          entry,    \* entry[e]: shape, next, ids, meta and points of the shard
          disk,     \* the directory: dir, segs (the segments), state (the file)
          live,     \* the entries whose shard has its files in that directory
          pc,       \* pc[t]: where thread t is
          call,     \* call[t]: the operation it performs
          at,       \* at[t]: the entry it holds
          want      \* want[i]: what record i may be, by the answers given so far
                    \* (None: absent; history, kept in the calm regime)

vars == <<regime, slot, entry, disk, live, pc, call, at, want>>

NoIds == [i \in Ids |-> 0]
NoNums == [n \in Nums |-> None]
NoDir == [dir |-> FALSE, segs |-> None, state |-> None]

Init == /\ regime \in DOMAIN Inputs
        /\ slot = None
        /\ entry = [e \in Entries |-> None]
        /\ disk = NoDir
        /\ live = {}
        /\ pc = [t \in Threads |-> "idle"]
        /\ call = [t \in Threads |-> None]
        /\ at = [t \in Threads |-> None]
        /\ want = [i \in Ids |-> {None}]

Goto(t, l, c, e) == /\ pc' = [pc EXCEPT ![t] = l]
                    /\ call' = [call EXCEPT ![t] = c]
                    /\ at' = [at EXCEPT ![t] = e]

\* The call returns (Ok or Err: the two are told apart where it matters).
Return(t) == Goto(t, "idle", None, None)

Wanted(w) == want' = IF regime = "calm" THEN w ELSE want
MayBe(i, w) == [want EXCEPT ![i] = @ \cup {w}]

\* A mistake: an entry lives in the map only.
KeptByMap(x) == /\ entry' = [e \in Entries |-> IF e = slot' THEN x[e] ELSE None]
                /\ live' = {e \in live : entry'[e] # None}

\* An entry lives as long as the map or a thread refers to it.
Kept(x) == /\ entry' = [e \in Entries |->
                    IF e = slot' \/ \E t \in Threads : at'[t] = e THEN x[e] ELSE None]
           /\ live' = {e \in live : entry'[e] # None}

Permitted(t, c) ==
    /\ pc[t] = "idle"
    /\ regime = "calm" => \A u \in Threads \ {t} :
            pc[u] # "idle" => c.op # "drop" /\ call[u].op # "drop"

(***************************************************************************)
(* The first lookup of the calls.  ensure goes on to make a collection     *)
(* that is not open; so does upsert, by way of get_or_create.              *)
(***************************************************************************)
Ensure(t, c) ==
    /\ Permitted(t, c) /\ c.op = "ensure"
    /\ slot = None
    /\ Goto(t, "make", c, None)
    /\ UNCHANGED <<regime, slot, entry, disk, live, want>>

Upsert(t, c) ==
    /\ Permitted(t, c) /\ c.op = "upsert"
    /\ \/ slot = None /\ Goto(t, "create", c, None)
       \/ slot # None /\ entry[slot].shape.dim = c.dim /\ Goto(t, "update", c, slot)
    /\ UNCHANGED <<regime, slot, entry, disk, live, want>>

Delete(t, c) ==
    /\ Permitted(t, c) /\ c.op = "delete"
    /\ slot # None
    /\ Goto(t, "update", c, slot)
    /\ UNCHANGED <<regime, slot, entry, disk, live, want>>

\* remove_shard: the entry leaves the map, under the lock of the map.
Drop(t, c) ==
    /\ Permitted(t, c) /\ c.op = "drop"
    /\ slot' = None
    /\ Goto(t, "rmdir", c, None)
    /\ Kept(entry)
    /\ Wanted([i \in Ids |-> want[i] \cup {None}])
    /\ UNCHANGED <<regime, disk>>

\* The directory is deleted afterwards.  An error of that is ignored, and it may
\* come when some of the files are gone.
DropDir(t) ==
    /\ pc[t] = "rmdir"
    /\ \/ disk' = NoDir /\ live' = {} /\ Wanted([i \in Ids |-> {None}])
       \/ disk' = [disk EXCEPT !.segs = None] /\ live' = {} /\ UNCHANGED want
       \/ disk' \in {disk, [disk EXCEPT !.state = None]} /\ UNCHANGED <<live, want>>
    /\ Return(t)
    /\ UNCHANGED <<regime, slot, entry>>

(***************************************************************************)
(* get_or_create.  First it looks at an entry that is there (Find: it is   *)
(* new since the lookup above); then, under the map lock, it looks again   *)
(* (MakeFound) and loads or makes the shard.                               *)
(***************************************************************************)
AskedShape(t) == IF call[t].op = "ensure" THEN call[t].shape
                 ELSE [dim |-> call[t].dim, distance |-> "cosine"]

\* The entry was obtained: ensure is done, upsert goes on to lock it.
Obtain(t, e) == IF call[t].op = "ensure" THEN Return(t)
                ELSE Goto(t, "update", call[t], e)

Find(t) ==
    /\ pc[t] = "create"
    /\ \/ slot = None /\ Goto(t, "make", call[t], None)
       \/ slot # None /\ entry[slot].shape = AskedShape(t) /\ Obtain(t, slot)
       \/ slot # None /\ entry[slot].shape # AskedShape(t) /\ Return(t)
    /\ UNCHANGED <<regime, slot, entry, disk, live, want>>

\* The second look does not compare the shape.
MakeFound(t) ==
    /\ pc[t] = "make" /\ slot # None
    /\ Obtain(t, slot)
    /\ UNCHANGED <<regime, slot, entry, disk, live, want>>

\* The directory or the shard cannot be made, or the state file is unreadable or
\* of another shape.
MakeFails(t) ==
    /\ pc[t] = "make" /\ slot = None
    /\ disk' \in {disk, [disk EXCEPT !.dir = TRUE]}
    /\ Return(t)
    /\ UNCHANGED <<regime, slot, entry, live, want>>

NoState(shape) == [shape |-> shape, next |-> 1, ids |-> NoIds, meta |-> NoNums]
Opened(x) == [shape |-> x.shape, next |-> x.next, ids |-> x.ids, meta |-> x.meta,
              points |-> IF disk.segs = None THEN NoNums ELSE disk.segs]

\* A mistake: counting from one again after a restart.
LoadedAnew(shape) ==
    Opened(IF disk.state = None THEN NoState(shape) ELSE [disk.state EXCEPT !.next = 1])

\* The shard over the segments there are, with the ids of the state file there is.
Loaded(shape) == Opened(IF disk.state = None THEN NoState(shape) ELSE disk.state)

Make(t, e) ==
    /\ pc[t] = "make" /\ slot = None /\ entry[e] = None
    /\ disk.state # None => disk.state.shape = AskedShape(t)
    /\ entry' = [entry EXCEPT ![e] = Loaded(AskedShape(t))]
    /\ disk' = [disk EXCEPT !.dir = TRUE, !.segs = IF @ = None THEN NoNums ELSE @]
    /\ slot' = e
    /\ live' = live \cup {e}
    /\ Obtain(t, e)
    /\ UNCHANGED <<regime, want>>

(***************************************************************************)
(* The rest of upsert and delete, under the lock of the entry.             *)
(***************************************************************************)
Locked(e) == \E t \in Threads : pc[t] = "persist" /\ at[t] = e

\* A mistake: numbering by how many records there are, also after a delete.
NumByCount(x, i) == IF x.ids[i] # 0 THEN x.ids[i] ELSE 1 + Cardinality({j \in Ids : x.ids[j] # 0})

Num(x, i) == IF x.ids[i] # 0 THEN x.ids[i] ELSE x.next

\* A mistake: an upsert of a known record keeps the metadata it had.
AssignedKeeping(x, i, v) ==
    [x EXCEPT !.next = IF x.ids[i] = 0 THEN @ + 1 ELSE @,
              !.ids[i] = Num(x, i),
              !.meta[Num(x, i)] = IF x.ids[i] = 0 THEN v ELSE @]

\* assign_id: the number of the record, its metadata taken over.
Assigned(x, i, v) ==
    [x EXCEPT !.next = IF x.ids[i] = 0 THEN @ + 1 ELSE @,
              !.ids[i] = Num(x, i),
              !.meta[Num(x, i)] = v]

\* record_to_point: vector and metadata of the record; its id is not in the payload (and
\* here only says whose point it is).
RecordToPoint(c) == [id |-> c.id, val |-> c.val]

\* The record without its number: id_map, rev_map and meta_cache.
Removed(x, i) == [x EXCEPT !.ids[i] = 0, !.meta[x.ids[i]] = None]

\* The update of the shard and its flush; a crash in between leaves the segments
\* as they are before this step or after it.
Update(t, x) ==
    /\ Goto(t, "persist", call[t], at[t])
    /\ Kept([entry EXCEPT ![at[t]] = x])
    /\ disk' = IF at[t] \in live THEN [disk EXCEPT !.segs = x.points] ELSE disk

\* The shard refuses the update; what was done to the entry before stays done.
UpdateFails(t, x) ==
    /\ Return(t)
    /\ Kept([entry EXCEPT ![at[t]] = x])
    /\ UNCHANGED disk

ApplyUpsert(t) ==
    LET e == at[t]
        c == call[t]
        n == Num(entry[e], c.id)
        x == Assigned(entry[e], c.id, c.val)
    IN  /\ pc[t] = "update" /\ c.op = "upsert" /\ ~Locked(e)
        /\ n <= MaxNum
        /\ UNCHANGED <<regime, slot>>
        /\ \/ /\ c.dim = entry[e].shape.dim
              /\ Update(t, [x EXCEPT !.points[n] = RecordToPoint(c)])
           \/ UpdateFails(t, x)
        /\ Wanted(MayBe(c.id, c.val))

ApplyDelete(t) ==
    LET x == entry[at[t]]
        i == call[t].id
        n == x.ids[i]
    IN  /\ pc[t] = "update" /\ call[t].op = "delete" /\ ~Locked(at[t])
        /\ UNCHANGED <<regime, slot>>
        /\ \/ n = 0 /\ UpdateFails(t, x) /\ UNCHANGED want   \* Ok: nothing to do
           \/ n # 0 /\ UpdateFails(t, x) /\ Wanted(MayBe(i, None))
           \/ /\ n # 0 /\ Update(t, [Removed(x, i) EXCEPT !.points[n] = None])
              /\ Wanted(MayBe(i, None))

\* What persist_state writes: the segments are not part of it.
StateOf(x) == [shape |-> x.shape, next |-> x.next, ids |-> x.ids, meta |-> x.meta]

Acknowledged(c) == [want EXCEPT ![c.id] = IF c.op = "upsert" THEN {c.val} ELSE {None}]

\* A mistake: the state file is not written again.
PersistNot(t) ==
    /\ pc[t] = "persist"
    /\ UNCHANGED <<regime, slot, disk>>
    /\ Wanted(Acknowledged(call[t]))
    /\ Return(t)
    /\ Kept(entry)

\* The state file is replaced by a rename, in whatever directory has the name by
\* now; without a directory, or on an I/O error, the call fails.
Persist(t) ==
    /\ pc[t] = "persist"
    /\ UNCHANGED <<regime, slot>>
    /\ \/ /\ disk.dir
          /\ disk' = [disk EXCEPT !.state = StateOf(entry[at[t]])]
          /\ Wanted(Acknowledged(call[t]))
       \/ UNCHANGED <<disk, want>>
    /\ Return(t)
    /\ Kept(entry)

\* The process dies and starts again: what is on the disk stays.
Restart ==
    /\ slot' = None
    /\ entry' = [e \in Entries |-> None]
    /\ live' = {}
    /\ pc' = [t \in Threads |-> "idle"]
    /\ call' = [t \in Threads |-> None]
    /\ at' = [t \in Threads |-> None]
    /\ UNCHANGED <<regime, disk, want>>

Call(t, c) == Ensure(t, c) \/ Upsert(t, c) \/ Delete(t, c) \/ Drop(t, c)
Step(t) == \/ DropDir(t)
           \/ Find(t) \/ MakeFound(t) \/ MakeFails(t) \/ \E e \in Entries : Make(t, e)
           \/ ApplyUpsert(t) \/ ApplyDelete(t) \/ Persist(t)

Next == \/ \E t \in Threads : (\E c \in Inputs[regime] : Call(t, c)) \/ Step(t)
        \/ Restart

Spec == Init /\ [][Next]_vars
-----------------------------------------------------------------------------
\* The types of the variables; the entries that exist are those the map or a
\* thread refers to, no two threads are in the critical section of one, and an open
\* shard has its segments.
TypeOK ==
    /\ regime \in DOMAIN Inputs
    /\ slot \in Entries \cup {None}
    /\ entry \in [Entries -> Shards \cup {None}]
    /\ disk \in [dir : BOOLEAN, segs : Points \cup {None}, state : States \cup {None}]
    /\ disk.segs # None => disk.dir
    /\ live # {} => disk.segs # None
    /\ live \subseteq Entries
    /\ pc \in [Threads -> {"idle", "create", "make", "update", "persist", "rmdir"}]
    /\ call \in [Threads -> Calls \cup {None}]
    /\ at \in [Threads -> Entries \cup {None}]
    /\ want \in [Ids -> SUBSET (Vals \cup {None})]
    /\ \A e \in Entries : entry[e] # None <=> e = slot \/ \E t \in Threads : at[t] = e
    /\ \A t \in Threads : pc[t] \in {"update", "persist"} <=> at[t] # None
    /\ \A t, u \in Threads : pc[t] = "persist" /\ pc[u] = "persist" /\ at[t] = at[u]
                                => t = u

\* An entry, or a state file, never gives two records one number, nor a new one
\* a number that is taken, and keeps metadata exactly for the numbers in use:
\* through failed updates, restarts and state files of dropped collections.
Sound(x) ==
    /\ \A i, j \in Ids : x.ids[i] # 0 /\ x.ids[i] = x.ids[j] => i = j
    /\ \A i \in Ids : x.ids[i] < x.next
    /\ \A n \in Nums : x.meta[n] # None <=> \E i \in Ids : x.ids[i] = n
NumbersSound == /\ \A e \in Entries : entry[e] # None => Sound(entry[e])
                /\ disk.state # None => Sound(disk.state)

\* By the ids and metadata of x, search finds record i among points p with content w
\* (None: it finds none).
Found(x, p, i, w) ==
    IF w = None THEN x.ids[i] = 0 \/ p[x.ids[i]] = None
    ELSE x.ids[i] # 0 /\ p[x.ids[i]] = [id |-> i, val |-> w] /\ x.meta[x.ids[i]] = w
Settled(i, w) == regime = "calm" /\ want[i] = {w}

\* A record whose last upsert or delete was acknowledged, with no attempt since,
\* is found as acknowledged, with its own vector and metadata, whatever other
\* threads do, fail to do or left behind before a crash.
AckedFound ==
    slot # None => \A i \in Ids, w \in Vals \cup {None} :
        Settled(i, w) => Found(entry[slot], entry[slot].points, i, w)

\* And it is so for the next process: the segments and the state file agree on
\* every such record, at any instant the process may die.
AckedDurable ==
    \A i \in Ids, w \in Vals \cup {None} : Settled(i, w) =>
        IF disk.state = None \/ disk.segs = None THEN w = None
        ELSE Found(disk.state, disk.segs, i, w)

\* The inductive invariant.  A call is where its operation goes.
CallsUnderWay ==
    \A t \in Threads : /\ pc[t] # "idle" => call[t] # None
                       /\ pc[t] = "create" => call[t].op = "upsert"
                       /\ pc[t] = "make" => call[t].op \in {"ensure", "upsert"}
                       /\ pc[t] \in {"update", "persist"} => call[t].op \in {"upsert", "delete"}
                       /\ pc[t] = "rmdir" => call[t].op = "drop"

\* In the calm regime the directory is deleted while nothing is open and nobody else
\* is at work, and then every record may be gone.
DropsAlone ==
    regime = "calm" => \A t \in Threads : pc[t] = "rmdir" =>
        /\ slot = None
        /\ \A u \in Threads \ {t} : pc[u] = "idle"
        /\ \A i \in Ids : None \in want[i]

\* There a thread holds the entry of the map, whose points are those on the disk.
OpenOnDisk ==
    regime = "calm" => /\ \A t \in Threads : at[t] \in {slot, None}
                       /\ slot # None => slot \in live /\ disk.segs = entry[slot].points

\* There the state file is an older state of the open entry: a number below the
\* counter of the file means the same record in both.
StateIsOlder ==
    regime = "calm" /\ slot # None /\ disk.state # None =>
        /\ disk.state.next <= entry[slot].next
        /\ \A i \in Ids : \/ entry[slot].ids[i] \in {disk.state.ids[i], 0}
                           \/ entry[slot].ids[i] >= disk.state.next

\* There what a thread is about to persist is what its call asked for.
Written(c) == Found(entry[slot], entry[slot].points, c.id,
                    IF c.op = "upsert" THEN c.val ELSE None)
PersistsWritten ==
    regime = "calm" => \A t \in Threads : pc[t] = "persist" => Written(call[t])

\* What a search finds of record i by x and p, and what the next process would find.
Seen(x, p, i) == {w \in Vals \cup {None} : Found(x, p, i, w)}
OnDisk(i) == IF disk.state = None \/ disk.segs = None THEN {None} ELSE Seen(disk.state, disk.segs, i)
Shown(i) == IF slot = None THEN OnDisk(i) ELSE Seen(entry[slot], entry[slot].points, i)

\* There a content that is found was asked for and not replaced by an acknowledged call.
SeenWasTried ==
    regime = "calm" => \A i \in Ids : Shown(i) \cup OnDisk(i) \subseteq want[i]

IInv == /\ TypeOK /\ NumbersSound /\ AckedFound /\ AckedDurable
        /\ CallsUnderWay /\ DropsAlone /\ OpenOnDisk /\ StateIsOlder /\ PersistsWritten
        /\ SeenWasTried
        /\ \A i \in Ids : want[i] # {}

\* In the calm regime the edge store keeps the promise of VectorStore: through entries
\* that are opened and lost, numbers, segments and the state file, a search finds of each
\* record what the answers allow, and a call changes it for its own record only.  (What is
\* found while the collection is not open is what it holds when it is opened again.)
Store == INSTANCE VectorStore WITH
    Contents <- Vals, Absent <- None, truth <- want,
    found <- [i \in Ids |-> IF regime = "calm" THEN Shown(i) ELSE {None}],
    open <- regime = "calm" /\ slot # None
ImplementsVectorStore == Store!Spec

\* The tests say that a mismatch of the dimension is rejected: an ensure that
\* returns Ok has found or made a collection of the shape it asked for, also beside
\* another ensure that asks for another one.
EnsureAgrees ==
    [][\A t \in Threads :
          (MakeFound(t) \/ \E e \in Entries : Make(t, e)) /\ call[t].op = "ensure"
              => entry'[slot'].shape = call[t].shape]_vars
=============================================================================
