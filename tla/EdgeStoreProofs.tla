--------------------------- MODULE EdgeStoreProofs ---------------------------
(***************************************************************************)
(* The safety of the edge store for any number of threads, entries,        *)
(* records and contents and any sets of calls: IInv of EdgeStore is        *)
(* inductive, the invariants follow from it, and with it each step is one  *)
(* of VectorStore or a stutter.                                            *)
(***************************************************************************)
EXTENDS EdgeStore, TLAPS

\* A record of an entry is written under its number; no other record changes.
LEMMA AssignedFacts ==
    ASSUME NEW x \in Shards, Sound(x), NEW i \in Ids, NEW v \in Vals, Num(x, i) <= MaxNum
    PROVE  /\ Num(x, i) \in Nums
           /\ Assigned(x, i, v) \in Shards /\ Sound(Assigned(x, i, v))
           /\ Assigned(x, i, v).ids = [x.ids EXCEPT ![i] = Num(x, i)]
           /\ Assigned(x, i, v).meta = [x.meta EXCEPT ![Num(x, i)] = v]
           /\ Assigned(x, i, v).points = x.points
           /\ Assigned(x, i, v).shape = x.shape
           /\ x.next <= Assigned(x, i, v).next
           /\ x.ids[i] = 0 => Num(x, i) = x.next
           /\ \A j \in Ids \ {i} : x.ids[j] # Num(x, i)
<1> USE EdgeAssumption
<1>1. Num(x, i) \in Nums
  BY DEF Num, Nums, Shards
<1>2. \A j \in Ids \ {i} : x.ids[j] # Num(x, i)
  BY DEF Num, Sound, Shards
<1>3. /\ Assigned(x, i, v).ids = [x.ids EXCEPT ![i] = Num(x, i)]
      /\ Assigned(x, i, v).meta = [x.meta EXCEPT ![Num(x, i)] = v]
      /\ Assigned(x, i, v).points = x.points
      /\ Assigned(x, i, v).shape = x.shape
      /\ Assigned(x, i, v).next = IF x.ids[i] = 0 THEN x.next + 1 ELSE x.next
  BY DEF Assigned, Shards
<1>4. x.ids[i] = 0 => Num(x, i) = x.next
  BY DEF Num
<1>5. Assigned(x, i, v) \in Shards
  <2> DEFINE ids == [x.ids EXCEPT ![i] = Num(x, i)]
             meta == [x.meta EXCEPT ![Num(x, i)] = v]
             next == IF x.ids[i] = 0 THEN x.next + 1 ELSE x.next
  <2>1. /\ ids \in [Ids -> 0 .. MaxNum] /\ meta \in [Nums -> Vals \cup {None}]
        /\ next \in 1 .. MaxNum + 1
    BY <1>1, <1>4 DEF Shards, Nums
  <2>2. Assigned(x, i, v) = [x EXCEPT !.next = next, !.ids = ids, !.meta = meta]
    BY DEF Assigned, Shards
  <2> HIDE DEF ids, meta, next
  <2>3. QED
    BY <2>1, <2>2 DEF Shards
<1>6. Sound(Assigned(x, i, v))
  <2> DEFINE y == Assigned(x, i, v)
  <2>1. /\ y.ids[i] = Num(x, i) /\ \A j \in Ids \ {i} : y.ids[j] = x.ids[j]
        /\ y.meta[Num(x, i)] = v /\ \A n \in Nums \ {Num(x, i)} : y.meta[n] = x.meta[n]
    BY <1>1, <1>3 DEF Shards
  <2>2. v # None /\ x.next \in Nat /\ \A j \in Ids : x.ids[j] \in Nat
    BY DEF Shards
  <2>3. \A j \in Ids : y.ids[j] < y.next
    BY <1>3, <1>4, <2>1, <2>2 DEF Sound, Num
  <2>4. \A j, k \in Ids : y.ids[j] # 0 /\ y.ids[j] = y.ids[k] => j = k
    BY <1>2, <2>1 DEF Sound
  <2>5. \A n \in Nums : y.meta[n] # None <=> \E j \in Ids : y.ids[j] = n
    <3> SUFFICES ASSUME NEW n \in Nums
                 PROVE  y.meta[n] # None <=> \E j \in Ids : y.ids[j] = n
      OBVIOUS
    <3>1. CASE n = Num(x, i)
      BY <2>1, <2>2, <3>1
    <3>2. CASE n # Num(x, i)
      <4>1. x.ids[i] # n
        BY <3>2 DEF Num, Nums
      <4>2. QED
        BY <2>1, <3>2, <4>1 DEF Sound
    <3>3. QED
      BY <3>1, <3>2
  <2>6. QED
    BY <2>3, <2>4, <2>5 DEF Sound
<1>7. x.next <= Assigned(x, i, v).next
  BY <1>3 DEF Shards
<1>8. QED
  BY <1>1, <1>2, <1>3, <1>4, <1>5, <1>6, <1>7

\* A record of an entry is removed with its number; no other record changes.
LEMMA RemovedFacts ==
    ASSUME NEW x \in Shards, Sound(x), NEW i \in Ids, x.ids[i] # 0
    PROVE  /\ x.ids[i] \in Nums
           /\ Removed(x, i) \in Shards /\ Sound(Removed(x, i))
           /\ Removed(x, i).ids = [x.ids EXCEPT ![i] = 0]
           /\ Removed(x, i).meta = [x.meta EXCEPT ![x.ids[i]] = None]
           /\ Removed(x, i).points = x.points
           /\ Removed(x, i).next = x.next
<1> USE EdgeAssumption
<1> DEFINE y == Removed(x, i)
<1>1. x.ids[i] \in Nums
  BY DEF Nums, Shards
<1>2. /\ y.ids = [x.ids EXCEPT ![i] = 0]
      /\ y.meta = [x.meta EXCEPT ![x.ids[i]] = None]
      /\ y.points = x.points /\ y.next = x.next
  BY DEF Removed, Shards
<1>3. y \in Shards
  <2> DEFINE ids == [x.ids EXCEPT ![i] = 0]
             meta == [x.meta EXCEPT ![x.ids[i]] = None]
  <2>1. ids \in [Ids -> 0 .. MaxNum] /\ meta \in [Nums -> Vals \cup {None}]
    BY <1>1 DEF Shards
  <2>2. y = [x EXCEPT !.ids = ids, !.meta = meta]
    BY DEF Removed, Shards
  <2> HIDE DEF ids, meta
  <2>3. QED
    BY <2>1, <2>2 DEF Shards
<1>4. Sound(y)
  <2>1. /\ y.ids[i] = 0 /\ \A j \in Ids \ {i} : y.ids[j] = x.ids[j]
        /\ y.meta[x.ids[i]] = None /\ \A n \in Nums \ {x.ids[i]} : y.meta[n] = x.meta[n]
    BY <1>1, <1>2 DEF Shards
  <2>2. \A j \in Ids : y.ids[j] < y.next
    BY <1>2, <2>1 DEF Sound, Shards
  <2>3. \A j, k \in Ids : y.ids[j] # 0 /\ y.ids[j] = y.ids[k] => j = k
    BY <2>1 DEF Sound
  <2>4. \A n \in Nums : y.meta[n] # None <=> \E j \in Ids : y.ids[j] = n
    BY <2>1 DEF Sound, Nums
  <2>5. QED
    BY <2>2, <2>3, <2>4 DEF Sound
<1>5. QED
  BY <1>1, <1>2, <1>3, <1>4

\* What is loaded is the state file, or nothing, over the segments there are.
LEMMA LoadedFacts ==
    ASSUME IInv, NEW s \in Shapes, disk.state # None => disk.state.shape = s
    PROVE  /\ Loaded(s) \in Shards /\ Sound(Loaded(s))
           /\ Loaded(s).points = IF disk.segs = None THEN NoNums ELSE disk.segs
           /\ Loaded(s).next = IF disk.state = None THEN 1 ELSE disk.state.next
           /\ Loaded(s).ids = IF disk.state = None THEN NoIds ELSE disk.state.ids
           /\ Loaded(s).meta = IF disk.state = None THEN NoNums ELSE disk.state.meta
<1> USE EdgeAssumption
<1>1. NoNums \in Points /\ NoState(s) \in States /\ Sound(NoState(s))
  BY DEF NoNums, NoIds, NoState, Points, States, Sound, Nums
<1>2. CASE disk.state = None
  BY <1>1, <1>2 DEF Loaded, Opened, NoState, Shards, States, Sound, IInv, TypeOK
<1>3. CASE disk.state # None
  BY <1>1, <1>3 DEF Loaded, Opened, Shards, States, Sound, IInv, TypeOK, NumbersSound
<1>4. QED
  BY <1>2, <1>3

\* A record is found with one content at most.
LEMMA FoundOnce ==
    ASSUME NEW x, NEW p, NEW i \in Ids, NEW v \in Vals \cup {None}, NEW w \in Vals \cup {None},
           Found(x, p, i, v), Found(x, p, i, w)
    PROVE  v = w
<1>1. \A u \in Vals : [id |-> i, val |-> u] # None /\ u # None
  BY EdgeAssumption
<1>2. QED
  BY <1>1 DEF Found

\* Nothing is there when the process starts for the first time.
LEMMA InitIInv == Init => IInv
<1> SUFFICES ASSUME Init PROVE IInv
  OBVIOUS
<1> USE EdgeAssumption DEF Init
<1>1. TypeOK
  BY DEF TypeOK, NoDir
<1>2. NumbersSound /\ AckedFound /\ AckedDurable
  BY DEF NumbersSound, AckedFound, AckedDurable, Settled, NoDir
<1>3. CallsUnderWay /\ DropsAlone /\ OpenOnDisk /\ StateIsOlder /\ PersistsWritten
  BY DEF CallsUnderWay, DropsAlone, OpenOnDisk, StateIsOlder, PersistsWritten
<1>4. SeenWasTried
  BY DEF SeenWasTried, Shown, OnDisk, NoDir
<1>5. QED
  BY <1>1, <1>2, <1>3, <1>4 DEF IInv

\* Calls that look up the collection and go on, or return, at most make the directory.
LEMMA MoveIInv ==
    ASSUME IInv, NEW t \in Threads, NEW l, NEW c, NEW e, Goto(t, l, c, e),
           UNCHANGED <<regime, slot, entry, live, want>>,
           disk' = disk \/ disk' = [disk EXCEPT !.dir = TRUE],
           pc[t] \in {"idle", "create", "make"},
           \/ l = "idle" /\ c = None /\ e = None
           \/ l = "create" /\ c \in Calls /\ c.op = "upsert" /\ e = None
           \/ l = "make" /\ c \in Calls /\ c.op \in {"ensure", "upsert"} /\ e = None
           \/ l = "update" /\ c \in Calls /\ c.op \in {"upsert", "delete"} /\ e = slot /\ slot # None,
           regime = "calm" /\ l # "idle" => \A u \in Threads \ {t} : pc[u] # "rmdir"
    PROVE  IInv'
<1> USE EdgeAssumption DEF IInv
<1>1. /\ pc'[t] = l /\ call'[t] = c /\ at'[t] = e /\ at[t] = None
      /\ \A u \in Threads \ {t} : pc'[u] = pc[u] /\ call'[u] = call[u] /\ at'[u] = at[u]
  BY DEF Goto, TypeOK
<1>2. /\ disk'.segs = disk.segs /\ disk'.state = disk.state
      /\ disk' \in [dir : BOOLEAN, segs : Points \cup {None}, state : States \cup {None}]
      /\ disk'.segs # None => disk'.dir
  <2>1. CASE disk' = disk
    BY <2>1 DEF TypeOK
  <2>2. CASE disk' = [disk EXCEPT !.dir = TRUE]
    BY <2>2 DEF TypeOK
  <2>3. QED
    BY <2>1, <2>2
<1>3. TypeOK'
  <2>1. /\ pc' \in [Threads -> {"idle", "create", "make", "update", "persist", "rmdir"}]
        /\ call' \in [Threads -> Calls \cup {None}] /\ at' \in [Threads -> Entries \cup {None}]
    BY DEF Goto, TypeOK
  <2>2. \A f \in Entries : entry'[f] # None <=> f = slot' \/ \E u \in Threads : at'[u] = f
    BY <1>1 DEF TypeOK
  <2>3. \A u \in Threads : pc'[u] \in {"update", "persist"} <=> at'[u] # None
    BY <1>1 DEF TypeOK
  <2>4. \A u, v \in Threads : pc'[u] = "persist" /\ pc'[v] = "persist" /\ at'[u] = at'[v] => u = v
    BY <1>1 DEF TypeOK
  <2>5. QED
    BY <1>2, <2>1, <2>2, <2>3, <2>4 DEF TypeOK
<1>4. NumbersSound' /\ AckedFound' /\ AckedDurable'
  BY <1>2 DEF NumbersSound, AckedFound, AckedDurable, Settled
<1>5. CallsUnderWay'
  BY <1>1 DEF CallsUnderWay
<1>6. DropsAlone'
  BY <1>1 DEF DropsAlone
<1>7. OpenOnDisk'
  BY <1>1, <1>2 DEF OpenOnDisk
<1>8. StateIsOlder'
  BY <1>2 DEF StateIsOlder
<1>9. PersistsWritten'
  BY <1>1 DEF PersistsWritten, Written
<1>10. SeenWasTried'
  BY <1>2 DEF SeenWasTried, Shown, OnDisk, Seen
<1>11. QED
  BY <1>3, <1>4, <1>5, <1>6, <1>7, <1>8, <1>9, <1>10

\* An ensure of a collection that is not open goes on to make it.
LEMMA EnsureIInv == ASSUME IInv, NEW t \in Threads, NEW c \in Calls, Ensure(t, c) PROVE IInv'
BY MoveIInv DEF Ensure, Permitted, IInv, CallsUnderWay, TypeOK

\* An upsert goes on to the entry it found, or to make one.
LEMMA UpsertIInv == ASSUME IInv, NEW t \in Threads, NEW c \in Calls, Upsert(t, c) PROVE IInv'
BY MoveIInv DEF Upsert, Permitted, IInv, CallsUnderWay, TypeOK

\* A delete goes on to the entry it found.
LEMMA DeleteIInv == ASSUME IInv, NEW t \in Threads, NEW c \in Calls, Delete(t, c) PROVE IInv'
BY MoveIInv DEF Delete, Permitted, IInv, CallsUnderWay, TypeOK

\* Nobody drops the collection while a thread makes it or looks for it, in the calm regime.
LEMMA NoDropBeside ==
    ASSUME IInv, NEW t \in Threads, regime = "calm", pc[t] # "idle"
    PROVE  \A u \in Threads \ {t} : pc[u] # "rmdir"
BY DEF IInv, DropsAlone

\* get_or_create finds an entry, and may find one of another shape.
LEMMA FindIInv == ASSUME IInv, NEW t \in Threads, Find(t) PROVE IInv'
<1>1. call[t] \in Calls /\ call[t].op = "upsert"
  BY DEF Find, IInv, CallsUnderWay, TypeOK
<1>2. QED
  BY <1>1, MoveIInv, NoDropBeside DEF Find, Obtain, Return

\* It finds an entry that was made since, and does not look at its shape.
LEMMA MakeFoundIInv == ASSUME IInv, NEW t \in Threads, MakeFound(t) PROVE IInv'
<1>1. call[t] \in Calls /\ call[t].op \in {"ensure", "upsert"}
  BY DEF MakeFound, IInv, CallsUnderWay, TypeOK
<1>2. QED
  BY <1>1, MoveIInv, NoDropBeside DEF MakeFound, Obtain, Return

\* Nothing but the directory is made.
LEMMA MakeFailsIInv == ASSUME IInv, NEW t \in Threads, MakeFails(t) PROVE IInv'
BY MoveIInv DEF MakeFails, Return

\* What Kept leaves: the entries somebody refers to, as they are in x.
LEMMA KeptFacts ==
    ASSUME IInv, NEW x \in [Entries -> Shards \cup {None}], Kept(x),
           \A e \in Entries : (e = slot' \/ \E u \in Threads : at'[u] = e) => x[e] # None
    PROVE  /\ entry' \in [Entries -> Shards \cup {None}]
           /\ \A e \in Entries : entry'[e] # None <=> e = slot' \/ \E u \in Threads : at'[u] = e
           /\ \A e \in Entries : (e = slot' \/ \E u \in Threads : at'[u] = e) => entry'[e] = x[e]
           /\ \A e \in Entries : entry'[e] # None => entry'[e] = x[e]
           /\ live' \subseteq live /\ live \subseteq Entries
           /\ \A e \in live : entry'[e] # None => e \in live'
BY DEF Kept, IInv, TypeOK

\* A thread that returns without a change lets go of its entry.
LEMMA LeaveIInv ==
    ASSUME IInv, NEW t \in Threads, Return(t), Kept(entry), pc[t] \in {"update", "persist"},
           UNCHANGED <<regime, slot, disk, want>>
    PROVE  IInv'
<1> USE EdgeAssumption DEF IInv
<1>1. /\ pc'[t] = "idle" /\ call'[t] = None /\ at'[t] = None
      /\ \A u \in Threads \ {t} : pc'[u] = pc[u] /\ call'[u] = call[u] /\ at'[u] = at[u]
  BY DEF Return, Goto, TypeOK
<1>2. \A e \in Entries : (e = slot' \/ \E u \in Threads : at'[u] = e) => entry[e] # None
  BY <1>1 DEF TypeOK
<1>3. /\ entry' \in [Entries -> Shards \cup {None}]
      /\ \A e \in Entries : entry'[e] # None <=> e = slot' \/ \E u \in Threads : at'[u] = e
      /\ \A e \in Entries : (e = slot' \/ \E u \in Threads : at'[u] = e) => entry'[e] = entry[e]
      /\ \A e \in Entries : entry'[e] # None => entry'[e] = entry[e]
      /\ live' \subseteq live /\ live \subseteq Entries
      /\ \A e \in live : entry'[e] # None => e \in live'
  BY <1>2, KeptFacts DEF TypeOK
<1>4. slot # None => slot \in Entries /\ entry'[slot] = entry[slot]
  BY <1>3 DEF TypeOK
<1>5. TypeOK'
  <2>1. /\ pc' \in [Threads -> {"idle", "create", "make", "update", "persist", "rmdir"}]
        /\ call' \in [Threads -> Calls \cup {None}] /\ at' \in [Threads -> Entries \cup {None}]
    BY DEF Return, Goto, TypeOK
  <2>2. \A u \in Threads : pc'[u] \in {"update", "persist"} <=> at'[u] # None
    BY <1>1 DEF TypeOK
  <2>3. \A u, v \in Threads : pc'[u] = "persist" /\ pc'[v] = "persist" /\ at'[u] = at'[v] => u = v
    BY <1>1 DEF TypeOK
  <2>4. QED
    BY <1>3, <2>1, <2>2, <2>3 DEF TypeOK
<1>6. NumbersSound' /\ AckedFound' /\ AckedDurable'
  BY <1>3, <1>4 DEF NumbersSound, AckedFound, AckedDurable, Settled
<1>7. CallsUnderWay' /\ DropsAlone'
  BY <1>1 DEF CallsUnderWay, DropsAlone
<1>8. OpenOnDisk' /\ StateIsOlder'
  BY <1>1, <1>3, <1>4 DEF OpenOnDisk, StateIsOlder, TypeOK
<1>9. PersistsWritten'
  <2> SUFFICES ASSUME regime = "calm", NEW u \in Threads, pc'[u] = "persist"
               PROVE  Written(call[u])' /\ call'[u] = call[u]
    BY DEF PersistsWritten, Written
  <2>1. pc[u] = "persist" /\ call'[u] = call[u] /\ slot # None
    BY <1>1 DEF TypeOK, OpenOnDisk
  <2>2. QED
    BY <1>4, <2>1 DEF PersistsWritten, Written
<1>10. SeenWasTried'
  BY <1>4 DEF SeenWasTried, Shown, OnDisk, Seen
<1>11. QED
  BY <1>5, <1>6, <1>7, <1>8, <1>9, <1>10

\* The state file is replaced by the state of the entry, in the calm regime by that
\* of the open collection, which holds what the call wrote.
LEMMA PersistIInv == ASSUME IInv, NEW t \in Threads, Persist(t) PROVE IInv'
<1> USE EdgeAssumption DEF IInv
<1> DEFINE y == entry[at[t]]
<1>1. CASE UNCHANGED <<disk, want>>
  BY <1>1, LeaveIInv DEF Persist
<1>2. CASE /\ disk.dir /\ disk' = [disk EXCEPT !.state = StateOf(y)]
           /\ Wanted(Acknowledged(call[t]))
  <2>1. /\ pc'[t] = "idle" /\ call'[t] = None /\ at'[t] = None /\ pc[t] = "persist"
        /\ \A u \in Threads \ {t} : pc'[u] = pc[u] /\ call'[u] = call[u] /\ at'[u] = at[u]
    BY DEF Persist, Return, Goto, TypeOK
  <2>2. /\ at[t] \in Entries /\ y \in Shards /\ Sound(y) /\ StateOf(y) \in States
        /\ StateOf(y).ids = y.ids /\ StateOf(y).meta = y.meta /\ StateOf(y).next = y.next
    BY <2>1 DEF TypeOK, NumbersSound, StateOf, Shards, States
  <2>3. \A e \in Entries : (e = slot' \/ \E u \in Threads : at'[u] = e) => entry[e] # None
    BY <2>1 DEF TypeOK, Persist
  <2>4. /\ entry' \in [Entries -> Shards \cup {None}]
        /\ \A e \in Entries : entry'[e] # None <=> e = slot' \/ \E u \in Threads : at'[u] = e
        /\ \A e \in Entries : (e = slot' \/ \E u \in Threads : at'[u] = e) => entry'[e] = entry[e]
        /\ \A e \in Entries : entry'[e] # None => entry'[e] = entry[e]
        /\ live' \subseteq live /\ live \subseteq Entries
        /\ \A e \in live : entry'[e] # None => e \in live'
    BY <2>3, KeptFacts DEF TypeOK, Persist
  <2>5. slot' = slot /\ regime' = regime /\ (slot # None => slot \in Entries /\ entry'[slot] = entry[slot])
    BY <2>4 DEF TypeOK, Persist
  <2>6. /\ disk'.segs = disk.segs /\ disk'.dir = disk.dir /\ disk'.state = StateOf(y)
        /\ disk' \in [dir : BOOLEAN, segs : Points \cup {None}, state : States \cup {None}]
    BY <1>2, <2>2 DEF TypeOK
  <2>7. call[t] \in Calls /\ call[t].op \in {"upsert", "delete"}
    BY <2>1 DEF CallsUnderWay, TypeOK
  <2> DEFINE i == call[t].id
             w == IF call[t].op = "upsert" THEN call[t].val ELSE None
  <2>8. i \in Ids /\ w \in Vals \cup {None}
    BY <2>7 DEF Calls
  <2>9. want' = IF regime = "calm" THEN [want EXCEPT ![i] = {w}] ELSE want
    BY <1>2 DEF Wanted, Acknowledged
  <2>10. regime = "calm" => slot # None /\ at[t] = slot /\ disk.segs = y.points /\ disk.segs # None
    BY <2>1, <2>2 DEF OpenOnDisk, TypeOK, Shards
  <2>11. regime = "calm" => Found(y, y.points, i, w)
    BY <2>1, <2>10 DEF PersistsWritten, Written
  <2> HIDE DEF i, w
  <2>12. want' \in [Ids -> SUBSET (Vals \cup {None})] /\ \A j \in Ids : want'[j] # {}
    BY <2>8, <2>9 DEF TypeOK
  <2>13. \A j \in Ids, v \in Vals \cup {None} : Settled(j, v)' => Found(y, y.points, j, v)
    <3> SUFFICES ASSUME NEW j \in Ids, NEW v \in Vals \cup {None}, regime = "calm", want'[j] = {v}
                 PROVE  Found(y, y.points, j, v)
      BY <2>5 DEF Settled
    <3>1. CASE j = i
      <4>1. v = w
        BY <2>8, <2>9, <3>1 DEF TypeOK
      <4>2. QED
        BY <2>11, <3>1, <4>1
    <3>2. CASE j # i
      BY <2>8, <2>9, <2>10, <3>2 DEF TypeOK, AckedFound, Settled
    <3>3. QED
      BY <3>1, <3>2
  <2>14. TypeOK'
    <3>1. /\ pc' \in [Threads -> {"idle", "create", "make", "update", "persist", "rmdir"}]
          /\ call' \in [Threads -> Calls \cup {None}] /\ at' \in [Threads -> Entries \cup {None}]
      BY DEF Persist, Return, Goto, TypeOK
    <3>2. \A u \in Threads : pc'[u] \in {"update", "persist"} <=> at'[u] # None
      BY <2>1 DEF TypeOK
    <3>3. \A u, v \in Threads : pc'[u] = "persist" /\ pc'[v] = "persist" /\ at'[u] = at'[v] => u = v
      BY <2>1 DEF TypeOK
    <3>4. QED
      BY <1>2, <2>4, <2>5, <2>6, <2>12, <3>1, <3>2, <3>3 DEF TypeOK
  <2>15. NumbersSound'
    BY <2>2, <2>4, <2>6 DEF NumbersSound, Sound
  <2>16. AckedFound'
    <3> SUFFICES ASSUME NEW j \in Ids, NEW v \in Vals \cup {None}, Settled(j, v)', slot # None
                 PROVE  Found(entry'[slot], entry'[slot].points, j, v)
      BY <2>5 DEF AckedFound
    <3>1. entry'[slot] = y
      BY <2>5, <2>10 DEF Settled
    <3>2. QED
      BY <2>13, <3>1
  <2>17. AckedDurable'
    <3> SUFFICES ASSUME NEW j \in Ids, NEW v \in Vals \cup {None}, Settled(j, v)'
                 PROVE  disk'.state # None /\ disk'.segs # None /\ Found(disk'.state, disk'.segs, j, v)
      BY DEF AckedDurable
    <3>1. disk'.segs = y.points /\ disk'.segs # None
      BY <2>5, <2>6, <2>10 DEF Settled
    <3>2. Found(y, y.points, j, v)
      BY <2>13
    <3>3. disk'.state = StateOf(y) /\ disk'.state # None
      BY <2>2, <2>6
    <3>4. QED
      BY <2>2, <3>1, <3>2, <3>3 DEF Found
  <2>18. CallsUnderWay'
    BY <2>1 DEF CallsUnderWay
  <2>19. DropsAlone'
    BY <2>1, <2>5 DEF DropsAlone
  <2>20. OpenOnDisk' /\ StateIsOlder'
    BY <2>1, <2>2, <2>4, <2>5, <2>6, <2>10 DEF OpenOnDisk, StateIsOlder, TypeOK, Shards
  <2>21. PersistsWritten'
    <3> SUFFICES ASSUME regime = "calm", NEW u \in Threads, pc'[u] = "persist"
                 PROVE  FALSE
      BY <2>5 DEF PersistsWritten
    <3>1. u # t /\ pc[u] = "persist" /\ at[u] = at[t]
      BY <2>1, <2>10 DEF OpenOnDisk, TypeOK
    <3>2. QED
      BY <2>1, <3>1 DEF TypeOK
  <2>22. SeenWasTried'
    <3> SUFFICES ASSUME regime = "calm", NEW j \in Ids, NEW v \in Vals \cup {None},
                        Found(y, y.points, j, v)
                 PROVE  v \in want'[j]
      <4>1. regime = "calm" => /\ slot' # None /\ entry'[slot'] = y
                               /\ disk'.state # None /\ disk'.segs # None /\ disk'.segs = y.points
        BY <2>2, <2>5, <2>6, <2>10
      <4>2. \A j \in Ids, v \in Vals \cup {None} :
               Found(StateOf(y), y.points, j, v) <=> Found(y, y.points, j, v)
        BY <2>2 DEF Found
      <4>3. regime' = regime /\ disk'.state = StateOf(y)
        BY <2>5, <2>6
      <4>4. QED
        BY <4>1, <4>2, <4>3 DEF SeenWasTried, Shown, OnDisk, Seen
    <3>1. CASE j = i
      BY <2>8, <2>9, <2>11, <3>1, FoundOnce DEF TypeOK
    <3>2. CASE j # i
      <4>1. v \in want[j]
        BY <2>10 DEF SeenWasTried, Shown, Seen
      <4>2. QED
        BY <2>8, <2>9, <3>2, <4>1 DEF TypeOK
    <3>3. QED
      BY <3>1, <3>2
  <2>23. QED
    BY <2>12, <2>14, <2>15, <2>16, <2>17, <2>18, <2>19, <2>20, <2>21, <2>22
<1>3. QED
  BY <1>1, <1>2 DEF Persist

\* From entry y to x, record i has got or lost number n, and nothing else is touched.
Renumbered(y, x, i, n) ==
    /\ x \in Shards /\ Sound(x)
    /\ n = y.ids[i] \/ n = y.next
    /\ x.ids[i] \in {0, n} /\ y.next <= x.next
    /\ \A j \in Ids \ {i} : x.ids[j] = y.ids[j] /\ y.ids[j] # n
    /\ \A m \in Nums \ {n} : x.meta[m] = y.meta[m] /\ x.points[m] = y.points[m]

\* A thread writes (w) or removes (None) record i, or the shard refuses its update.
Applies(t, y, x, i, n, w) ==
    /\ pc[t] = "update" /\ ~Locked(at[t]) /\ UNCHANGED <<regime, slot>>
    /\ i = call[t].id /\ w = IF call[t].op = "upsert" THEN call[t].val ELSE None
    /\ Wanted(MayBe(i, w))
    /\ \/ /\ Update(t, x) /\ Found(x, x.points, i, w)
          /\ x.points[n] = IF w = None THEN None ELSE [id |-> i, val |-> w]
       \/ /\ UpdateFails(t, x) /\ x.points = y.points
          /\ Found(y, y.points, i, w) => Found(x, x.points, i, w)
          /\ \A v \in Vals \cup {None} :
                Found(x, x.points, i, v) => v = w \/ Found(y, y.points, i, v)

\* Every other record is found as before.
LEMMA OthersFound ==
    ASSUME NEW y \in Shards, NEW x, NEW i \in Ids, NEW n, Renumbered(y, x, i, n),
           NEW j \in Ids \ {i}, NEW v
    PROVE  Found(x, x.points, j, v) <=> Found(y, y.points, j, v)
<1> DEFINE m == y.ids[j]
<1>1. x.ids[j] = m /\ (m = 0 \/ m \in Nums \ {n})
  BY EdgeAssumption DEF Renumbered, Shards, Nums
<1>2. CASE m = 0
  BY <1>1, <1>2 DEF Found
<1>3. CASE m # 0
  <2>1. x.points[m] = y.points[m] /\ x.meta[m] = y.meta[m]
    BY <1>1, <1>3 DEF Renumbered
  <2> HIDE DEF m
  <2>2. Found(x, x.points, j, v) <=> IF v = None THEN m = 0 \/ x.points[m] = None
                                    ELSE m # 0 /\ x.points[m] = [id |-> j, val |-> v] /\ x.meta[m] = v
    BY <1>1 DEF Found
  <2>3. Found(y, y.points, j, v) <=> IF v = None THEN m = 0 \/ y.points[m] = None
                                    ELSE m # 0 /\ y.points[m] = [id |-> j, val |-> v] /\ y.meta[m] = v
    BY DEF Found, m
  <2>4. QED
    BY <2>1, <2>2, <2>3
<1>4. QED
  BY <1>2, <1>3

\* A number that the state file gives to a record is written for that record only.
LEMMA SameNumber ==
    ASSUME IInv, regime = "calm", slot # None, disk.state # None,
           NEW y, y = entry[slot], y \in Shards, NEW i \in Ids, NEW j \in Ids, NEW n \in Nums,
           n = y.ids[i] \/ n = y.next, disk.state.ids[j] = n
    PROVE  j = i
<1> USE DEF IInv
<1>1. disk.state \in States /\ Sound(disk.state)
  BY DEF TypeOK, NumbersSound
<1>2. n < disk.state.next /\ disk.state.next <= y.next /\ n # 0
  BY <1>1 DEF Sound, StateIsOlder, Nums
<1>3. n = y.ids[i]
  BY <1>1, <1>2, EdgeAssumption DEF Shards, States, Nums
<1>4. y.ids[i] \in {disk.state.ids[i], 0} \/ n >= disk.state.next
  BY <1>3 DEF StateIsOlder
<1>5. ~(n >= disk.state.next)
  BY <1>1, <1>2, EdgeAssumption DEF Nums, States
<1>6. y.ids[i] \in {disk.state.ids[i]}
  BY <1>2, <1>3, <1>4, <1>5
<1>7. QED
  BY <1>1, <1>2, <1>3, <1>6 DEF Sound

\* A record of the open entry is written or removed under its number, and with it the
\* point on the disk, or the shard refuses the update.
LEMMA ApplyIInv ==
    ASSUME IInv, NEW t \in Threads, NEW x, NEW i \in Ids, NEW n \in Nums,
           NEW w \in Vals \cup {None},
           Renumbered(entry[at[t]], x, i, n), Applies(t, entry[at[t]], x, i, n, w)
    PROVE  IInv'
<1> USE EdgeAssumption DEF IInv, Renumbered, Applies
<1> DEFINE y == entry[at[t]]
<1>1. at[t] \in Entries /\ y \in Shards /\ Sound(y)
  BY DEF TypeOK, NumbersSound
<1>2. /\ pc'[t] \in {"idle", "persist"}
      /\ pc'[t] = "idle" => call'[t] = None /\ at'[t] = None
      /\ pc'[t] = "persist" => call'[t] = call[t] /\ at'[t] = at[t]
      /\ \A u \in Threads \ {t} : pc'[u] = pc[u] /\ call'[u] = call[u] /\ at'[u] = at[u]
  BY DEF Update, UpdateFails, Return, Goto, TypeOK
<1>others. \A j \in Ids \ {i}, v \in Vals \cup {None} :
          Found(x, x.points, j, v) <=> Found(y, y.points, j, v)
  <2>1. Renumbered(y, x, i, n)
    OBVIOUS
  <2> HIDE DEF y, Renumbered, Applies, IInv
  <2>2. QED
    BY <1>1, <2>1, OthersFound
<1> DEFINE z == [entry EXCEPT ![at[t]] = x]
<1>3. /\ z \in [Entries -> Shards \cup {None}]
      /\ \A e \in Entries : z[e] = IF e = at[t] THEN x ELSE entry[e]
  BY <1>1 DEF TypeOK
<1>5. Kept(z)
  BY DEF Update, UpdateFails
<1> HIDE DEF z
<1>4. \A e \in Entries : (e = slot' \/ \E u \in Threads : at'[u] = e) => z[e] # None
  BY <1>1, <1>2, <1>3 DEF TypeOK
<1>6. /\ entry' \in [Entries -> Shards \cup {None}]
      /\ \A e \in Entries : entry'[e] # None <=> e = slot' \/ \E u \in Threads : at'[u] = e
      /\ \A e \in Entries : (e = slot' \/ \E u \in Threads : at'[u] = e)
                                => entry'[e] = IF e = at[t] THEN x ELSE entry[e]
      /\ \A e \in Entries : entry'[e] # None => entry'[e] = IF e = at[t] THEN x ELSE entry[e]
      /\ live' \subseteq live /\ live \subseteq Entries
      /\ \A e \in live : entry'[e] # None => e \in live'
  BY <1>3, <1>4, <1>5, KeptFacts
<1>7. /\ disk' \in [dir : BOOLEAN, segs : Points \cup {None}, state : States \cup {None}]
      /\ disk'.state = disk.state /\ disk'.dir = disk.dir
      /\ disk'.segs = None => disk.segs = None
  <2>1. CASE disk' = disk
    BY <2>1 DEF TypeOK
  <2>2. CASE at[t] \in live /\ disk' = [disk EXCEPT !.segs = x.points]
    BY <2>2 DEF TypeOK, Shards
  <2>3. QED
    BY <2>1, <2>2 DEF Update, UpdateFails
<1>8. want' \in [Ids -> SUBSET (Vals \cup {None})] /\ \A j \in Ids : want'[j] # {}
  BY DEF Wanted, MayBe, TypeOK
<1>9. ASSUME NEW j \in Ids, NEW v \in Vals \cup {None}, Settled(j, v)'
      PROVE  Settled(j, v) /\ (j = i => v = w)
  <2>1. regime = "calm" /\ want'[j] = {v} /\ want' = [want EXCEPT ![i] = @ \cup {w}]
    BY <1>9 DEF Settled, Wanted, MayBe
  <2>2. /\ want \in [Ids -> SUBSET (Vals \cup {None})]
        /\ j = i => want'[j] = want[j] \cup {w}
        /\ j # i => want'[j] = want[j]
    <3>1. want \in [Ids -> SUBSET (Vals \cup {None})]
      BY DEF TypeOK
    <3>2. QED
      BY <2>1, <3>1
  <2>3. (j = i => w \in {v}) /\ want[j] \subseteq {v} /\ want[j] # {}
    BY <2>1, <2>2
  <2>4. want[j] = {v}
    BY <2>3
  <2>5. QED
    BY <2>1, <2>3, <2>4 DEF Settled
<1>10. regime = "calm" => /\ slot # None /\ slot \in Entries /\ at[t] = slot /\ slot \in live
                          /\ entry'[slot] = x /\ slot \in live'
                          /\ disk.segs = y.points /\ disk'.segs = x.points
                          /\ y.points # None /\ x.points # None
  <2>1. regime = "calm" => /\ slot # None /\ slot \in Entries /\ at[t] = slot /\ slot \in live
                           /\ disk.segs = y.points
    BY <1>1 DEF OpenOnDisk, TypeOK
  <2>2. y.points # None /\ x.points # None /\ x # None
    BY <1>1 DEF Shards
  <2>3. regime = "calm" => entry'[slot] = x /\ slot \in live'
    BY <1>6, <2>1, <2>2
  <2>4. regime = "calm" => disk'.segs = x.points
    BY <2>1 DEF Update, UpdateFails, TypeOK
  <2>5. QED
    BY <2>1, <2>2, <2>3, <2>4
<1>11. TypeOK'
  <2>1. /\ pc' \in [Threads -> {"idle", "create", "make", "update", "persist", "rmdir"}]
        /\ call' \in [Threads -> Calls \cup {None}] /\ at' \in [Threads -> Entries \cup {None}]
    BY DEF Update, UpdateFails, Return, Goto, TypeOK
  <2>2. \A u \in Threads : pc'[u] \in {"update", "persist"} <=> at'[u] # None
    BY <1>1, <1>2 DEF TypeOK
  <2>3. \A u, v \in Threads : pc'[u] = "persist" /\ pc'[v] = "persist" /\ at'[u] = at'[v] => u = v
    BY <1>2 DEF TypeOK, Locked
  <2>4. disk'.segs # None => disk'.dir
    BY <1>7 DEF Update, UpdateFails, TypeOK
  <2>5. live' # {} => disk'.segs # None
    BY <1>6, <1>7 DEF TypeOK
  <2>6. QED
    BY <1>6, <1>7, <1>8, <2>1, <2>2, <2>3, <2>4, <2>5 DEF TypeOK
<1>12. NumbersSound'
  BY <1>6, <1>7 DEF NumbersSound
<1>13. AckedFound'
  <2> SUFFICES ASSUME NEW j \in Ids, NEW v \in Vals \cup {None}, Settled(j, v)'
               PROVE  Found(x, x.points, j, v)
    BY <1>10 DEF AckedFound, Settled
  <2>1. Settled(j, v) /\ (j = i => v = w)
    BY <1>9
  <2>2. Found(y, y.points, j, v)
    BY <1>10, <2>1 DEF AckedFound, Settled
  <2>3. CASE j = i
    BY <2>1, <2>2, <2>3
  <2>4. CASE j # i
    BY <1>others, <2>2, <2>4
  <2>5. QED
    BY <2>3, <2>4
<1>14. AckedDurable'
  <2> SUFFICES ASSUME NEW j \in Ids, NEW v \in Vals \cup {None}, Settled(j, v)'
               PROVE  IF disk.state = None THEN v = None ELSE Found(disk.state, x.points, j, v)
    BY <1>7, <1>10 DEF AckedDurable, Settled
  <2>1. Settled(j, v) /\ (j = i => v = w)
    BY <1>9
  <2>2. IF disk.state = None THEN v = None ELSE Found(disk.state, y.points, j, v)
    BY <1>10, <2>1 DEF AckedDurable, Settled
  <2>3. CASE disk.state # None
    <3>1. disk.state \in States /\ Sound(disk.state)
      BY <2>3 DEF TypeOK, NumbersSound
    <3>2. CASE disk.state.ids[j] # n
      <4>1. disk.state.ids[j] = 0 \/ disk.state.ids[j] \in Nums \ {n}
        BY <3>1, <3>2 DEF States, Nums
      <4>2. disk.state.ids[j] # 0 => x.points[disk.state.ids[j]] = y.points[disk.state.ids[j]]
        BY <4>1
      <4>3. QED
        BY <2>2, <2>3, <4>2 DEF Found
    <3>3. CASE disk.state.ids[j] = n
      <4>1. j = i /\ v = w
        BY <1>1, <1>10, <2>1, <2>3, <3>3, SameNumber DEF Settled
      <4>2. Found(disk.state, y.points, i, w)
        BY <2>2, <2>3, <4>1
      <4>3. QED
        BY <2>3, <3>3, <4>1, <4>2 DEF Found
    <3>4. QED
      BY <3>2, <3>3
  <2>4. QED
    BY <2>2, <2>3
<1>15. CallsUnderWay'
  BY <1>2 DEF CallsUnderWay
<1>16. DropsAlone'
  BY <1>2 DEF DropsAlone
<1>17. OpenOnDisk'
  BY <1>2, <1>10 DEF OpenOnDisk
<1>18. StateIsOlder'
  <2> SUFFICES ASSUME regime = "calm", disk.state # None
               PROVE  /\ disk.state.next <= x.next
                      /\ \A j \in Ids : \/ x.ids[j] \in {disk.state.ids[j], 0}
                                        \/ x.ids[j] >= disk.state.next
    BY <1>7, <1>10 DEF StateIsOlder
  <2>1. disk.state.next \in Nat /\ y.next \in Nat /\ x.next \in Nat
    BY <1>1 DEF TypeOK, States, Shards
  <2>2. disk.state.next <= y.next
    BY <1>10 DEF StateIsOlder
  <2>3. \A j \in Ids : y.ids[j] \in {disk.state.ids[j], 0} \/ y.ids[j] >= disk.state.next
    BY <1>10 DEF StateIsOlder
  <2>4. QED
    BY <2>1, <2>2, <2>3
<1>19. PersistsWritten'
  <2> SUFFICES ASSUME regime = "calm", NEW u \in Threads, pc'[u] = "persist"
               PROVE  u = t /\ call'[u] = call[t] /\ Found(x, x.points, i, w)
    BY <1>10 DEF PersistsWritten, Written
  <2>1. u = t
    BY <1>2, <1>10 DEF OpenOnDisk, TypeOK, Locked
  <2>2. QED
    BY <1>2, <2>1 DEF UpdateFails, Return, Goto, TypeOK
<1>20. SeenWasTried'
  <2> SUFFICES ASSUME regime = "calm", NEW j \in Ids, NEW v \in Vals \cup {None}
               PROVE  /\ Found(x, x.points, j, v) => v \in want'[j]
                      /\ IF disk.state = None THEN None \in want'[j]
                         ELSE Found(disk.state, x.points, j, v) => v \in want'[j]
    BY <1>7, <1>10 DEF SeenWasTried, Shown, OnDisk, Seen
  <2>1. want[j] \subseteq want'[j] /\ (j = i => w \in want'[j])
    BY DEF Wanted, MayBe, TypeOK
  <2>2. /\ Found(y, y.points, j, v) => v \in want[j]
        /\ IF disk.state = None THEN None \in want[j]
           ELSE Found(disk.state, y.points, j, v) => v \in want[j]
    BY <1>10 DEF SeenWasTried, Shown, OnDisk, Seen
  <2>3. ASSUME Found(x, x.points, j, v) PROVE v \in want'[j]
    <3>1. CASE j = i
      <4>1. v = w \/ Found(y, y.points, i, v)
        BY <2>3, <3>1, FoundOnce
      <4>2. QED
        BY <2>1, <2>2, <3>1, <4>1
    <3>2. CASE j # i
      BY <1>others, <2>1, <2>2, <2>3, <3>2
    <3>3. QED
      BY <3>1, <3>2
  <2>4. ASSUME disk.state # None, Found(disk.state, x.points, j, v) PROVE v \in want'[j]
    <3>1. disk.state \in States /\ Sound(disk.state)
      BY <2>4 DEF TypeOK, NumbersSound
    <3>2. CASE disk.state.ids[j] # n
      <4>1. disk.state.ids[j] = 0 \/ disk.state.ids[j] \in Nums \ {n}
        BY <3>1, <3>2 DEF States, Nums
      <4>2. disk.state.ids[j] # 0 => x.points[disk.state.ids[j]] = y.points[disk.state.ids[j]]
        BY <4>1
      <4>3. Found(disk.state, y.points, j, v)
        BY <2>4, <4>2 DEF Found
      <4>4. QED
        BY <2>1, <2>2, <2>4, <4>3
    <3>3. CASE disk.state.ids[j] = n
      <4>1. j = i
        BY <1>1, <1>10, <2>4, <3>1, <3>3, SameNumber
      <4>2. x.points = y.points \/ x.points[n] = IF w = None THEN None ELSE [id |-> i, val |-> w]
        OBVIOUS
      <4>3. CASE x.points = y.points
        BY <2>1, <2>2, <2>4, <4>3
      <4>4. CASE x.points[n] = IF w = None THEN None ELSE [id |-> i, val |-> w]
        <5>1. n # 0 /\ \A u \in Vals : [id |-> i, val |-> u] # None /\ u # None
          BY DEF Nums
        <5>2. IF v = None THEN x.points[n] = None ELSE x.points[n] = [id |-> i, val |-> v]
          BY <2>4, <3>3, <4>1, <5>1 DEF Found
        <5>3. v = w
          BY <4>4, <5>1, <5>2
        <5>4. QED
          BY <2>1, <4>1, <5>3
      <4>5. QED
        BY <4>2, <4>3, <4>4
    <3>4. QED
      BY <3>2, <3>3
  <2>5. QED
    BY <2>1, <2>2, <2>3, <2>4
<1>21. QED
  BY <1>8, <1>11, <1>12, <1>13, <1>14, <1>15, <1>16, <1>17, <1>18, <1>19, <1>20

\* So does a thread that applies its call.
Applied(t) ==
    \E x \in Shards, i \in Ids, n \in Nums, w \in Vals \cup {None} :
        Renumbered(entry[at[t]], x, i, n) /\ Applies(t, entry[at[t]], x, i, n, w)

\* The update of an upsert, and the one the shard refuses.
LEMMA UpsertApplies == ASSUME IInv, NEW t \in Threads, ApplyUpsert(t) PROVE Applied(t)
<1> USE EdgeAssumption DEF IInv
<1> DEFINE y == entry[at[t]]
           i == call[t].id
           v == call[t].val
           n == Num(y, i)
           a == Assigned(y, i, v)
           x == [a EXCEPT !.points[n] = RecordToPoint(call[t])]
<1>1. y \in Shards /\ Sound(y)
  BY DEF ApplyUpsert, TypeOK, NumbersSound
<1>2. i \in Ids /\ v \in Vals /\ v # None /\ call[t].op = "upsert"
  BY DEF ApplyUpsert, CallsUnderWay, TypeOK, Calls
<1>3. n <= MaxNum
  BY DEF ApplyUpsert
<1>4. /\ n \in Nums
      /\ a \in Shards /\ Sound(a)
      /\ a.ids = [y.ids EXCEPT ![i] = n] /\ a.meta = [y.meta EXCEPT ![n] = v]
      /\ a.points = y.points /\ y.next <= a.next
      /\ y.ids[i] = 0 => n = y.next
      /\ \A j \in Ids \ {i} : y.ids[j] # n
  BY <1>1, <1>2, <1>3, AssignedFacts
<1>5. y.ids[i] # 0 => n = y.ids[i]
  BY DEF Num
<1>6. /\ pc[t] = "update" /\ ~Locked(at[t]) /\ UNCHANGED <<regime, slot>>
      /\ Wanted(MayBe(i, v))
      /\ Update(t, x) \/ UpdateFails(t, a)
  BY DEF ApplyUpsert
<1>7. /\ a.ids[i] = n /\ a.meta[n] = v
      /\ \A j \in Ids \ {i} : a.ids[j] = y.ids[j]
      /\ \A m \in Nums \ {n} : a.meta[m] = y.meta[m]
  BY <1>1, <1>2, <1>4 DEF Shards
<1>8. [id |-> i, val |-> v] = RecordToPoint(call[t]) /\ RecordToPoint(call[t]) \in [id : Ids, val : Vals]
  BY <1>2 DEF RecordToPoint
<1>9. /\ x \in Shards /\ x.ids = a.ids /\ x.meta = a.meta /\ x.next = a.next
      /\ x.points[n] = RecordToPoint(call[t])
      /\ \A m \in Nums \ {n} : x.points[m] = y.points[m]
  <2> DEFINE points == [a.points EXCEPT ![n] = RecordToPoint(call[t])]
  <2>1. points \in Points /\ points[n] = RecordToPoint(call[t])
        /\ \A m \in Nums \ {n} : points[m] = y.points[m]
    BY <1>1, <1>4, <1>8 DEF Shards, Points
  <2>2. x = [a EXCEPT !.points = points]
    BY <1>4 DEF Shards
  <2> HIDE DEF points, a, x, n
  <2>3. QED
    BY <1>4, <2>1, <2>2 DEF Shards
<1>10. Found(y, y.points, i, v) => Found(a, a.points, i, v)
  <2>1. n # 0 /\ a.ids[i] = n /\ a.meta[n] = v /\ a.points = y.points
    BY <1>4, <1>7 DEF Nums
  <2>2. Found(y, y.points, i, v) => y.points[n] = [id |-> i, val |-> v]
    BY <1>2, <1>5 DEF Found
  <2>3. y.points[n] = [id |-> i, val |-> v] => Found(a, a.points, i, v)
    BY <1>2, <2>1 DEF Found
  <2>4. QED
    BY <2>2, <2>3
<1>tried. ASSUME NEW u \in Vals \cup {None}, Found(a, a.points, i, u)
       PROVE  u = v \/ Found(y, y.points, i, u)
  <2>1. n # 0 /\ a.ids[i] = n /\ a.meta[n] = v /\ a.points = y.points
    BY <1>4, <1>7 DEF Nums
  <2>2. u # None => u = v
    BY <1>tried, <2>1 DEF Found
  <2>3. u = None => y.points[n] = None
    BY <1>tried, <2>1 DEF Found
  <2>4. u = None => Found(y, y.points, i, u)
    BY <1>5, <2>3 DEF Found
  <2>5. QED
    BY <2>2, <2>4
<1> HIDE DEF y, i, v, n, a, x
<1>11. Sound(x)
  BY <1>4, <1>9 DEF Sound
<1>12. Found(x, x.points, i, v)
  BY <1>2, <1>4, <1>7, <1>8, <1>9 DEF Found, Nums
<1>13. CASE Update(t, x)
  <2>1. Renumbered(y, x, i, n)
    BY <1>1, <1>2, <1>4, <1>5, <1>7, <1>9, <1>11 DEF Renumbered
  <2>2. Applies(t, y, x, i, n, v)
    BY <1>2, <1>6, <1>8, <1>9, <1>12, <1>13 DEF Applies, i, v
  <2>3. QED
    BY <1>2, <1>4, <1>9, <2>1, <2>2 DEF Applied, y
<1>14. CASE UpdateFails(t, a)
  <2>1. Renumbered(y, a, i, n)
    BY <1>1, <1>2, <1>4, <1>5, <1>7 DEF Renumbered
  <2>2. Applies(t, y, a, i, n, v)
    BY <1>2, <1>4, <1>6, <1>10, <1>14, <1>tried DEF Applies, i, v
  <2>3. QED
    BY <1>2, <1>4, <2>1, <2>2 DEF Applied, y
<1>15. QED
  BY <1>6, <1>13, <1>14

\* The update of a delete, the one the shard refuses, and one with nothing to do.
LEMMA DeleteApplies ==
    ASSUME IInv, NEW t \in Threads, ApplyDelete(t)
    PROVE  \/ Applied(t)
           \/ /\ pc[t] = "update" /\ Return(t) /\ Kept(entry)
              /\ UNCHANGED <<regime, slot, disk, want>>
<1> USE EdgeAssumption DEF IInv
<1> DEFINE y == entry[at[t]]
           i == call[t].id
           n == y.ids[i]
           a == Removed(y, i)
           x == [a EXCEPT !.points[n] = None]
<1>1. at[t] \in Entries /\ y \in Shards /\ Sound(y)
  BY DEF ApplyDelete, TypeOK, NumbersSound
<1>2. i \in Ids /\ call[t].op = "delete"
  BY DEF ApplyDelete, CallsUnderWay, TypeOK, Calls
<1>3. /\ pc[t] = "update" /\ ~Locked(at[t]) /\ UNCHANGED <<regime, slot>>
      /\ \/ n = 0 /\ UpdateFails(t, y) /\ UNCHANGED want
         \/ n # 0 /\ UpdateFails(t, y) /\ Wanted(MayBe(i, None))
         \/ n # 0 /\ Update(t, x) /\ Wanted(MayBe(i, None))
  BY DEF ApplyDelete
<1>4. CASE n = 0 /\ UpdateFails(t, y) /\ UNCHANGED want
  <2>1. Kept(entry)
    <3>1. [entry EXCEPT ![at[t]] = y] = entry
      BY DEF TypeOK
    <3>2. QED
      BY <1>4, <3>1 DEF UpdateFails
  <2>2. QED
    BY <1>3, <1>4, <2>1 DEF UpdateFails
<1>5. ASSUME n # 0
      PROVE  /\ n \in Nums
             /\ a \in Shards /\ Sound(a)
             /\ a.ids = [y.ids EXCEPT ![i] = 0] /\ a.meta = [y.meta EXCEPT ![n] = None]
             /\ a.points = y.points /\ a.next = y.next
             /\ \A j \in Ids \ {i} : y.ids[j] # n
  <2>1. \A j \in Ids \ {i} : y.ids[j] # n
    BY <1>1, <1>2, <1>5 DEF Sound
  <2>2. QED
    BY <1>1, <1>2, <1>5, <2>1, RemovedFacts
<1>6. ASSUME n # 0
      PROVE  /\ x \in Shards /\ Sound(x) /\ x.next = y.next /\ x.ids[i] = 0
             /\ x.points[n] = None
             /\ \A m \in Nums \ {n} : x.points[m] = y.points[m] /\ x.meta[m] = y.meta[m]
             /\ \A j \in Ids \ {i} : x.ids[j] = y.ids[j]
             /\ Found(x, x.points, i, None)
  <2> DEFINE points == [a.points EXCEPT ![n] = None]
  <2>1. points \in Points /\ points[n] = None /\ \A m \in Nums \ {n} : points[m] = y.points[m]
    BY <1>1, <1>5, <1>6 DEF Shards, Points
  <2>2. x = [a EXCEPT !.points = points]
    BY <1>5, <1>6 DEF Shards
  <2>3. /\ a \in Shards /\ Sound(a) /\ a.next = y.next /\ a.ids[i] = 0
        /\ \A m \in Nums \ {n} : a.meta[m] = y.meta[m]
        /\ \A j \in Ids \ {i} : a.ids[j] = y.ids[j]
    BY <1>1, <1>2, <1>5, <1>6 DEF Shards
  <2> HIDE DEF points, a, x, n
  <2>4. /\ x \in Shards /\ x.ids = a.ids /\ x.meta = a.meta /\ x.next = a.next
        /\ x.points = points
    BY <2>1, <2>2, <2>3 DEF Shards
  <2>5. Sound(x)
    BY <2>3, <2>4 DEF Sound
  <2>6. QED
    BY <2>1, <2>3, <2>4, <2>5 DEF Found
<1> HIDE DEF y, i, n, a, x
<1>7. CASE n # 0 /\ Update(t, x) /\ Wanted(MayBe(i, None))
  <2>1. Renumbered(y, x, i, n)
    BY <1>1, <1>5, <1>6, <1>7 DEF Renumbered, Shards, n
  <2>2. Applies(t, y, x, i, n, None)
    BY <1>2, <1>3, <1>6, <1>7 DEF Applies, i
  <2>3. QED
    BY <1>2, <1>5, <1>6, <1>7, <2>1, <2>2 DEF Applied, y
<1>8. CASE n # 0 /\ UpdateFails(t, y) /\ Wanted(MayBe(i, None))
  <2>1. Renumbered(y, y, i, n)
    BY <1>1, <1>5, <1>8 DEF Renumbered, Shards, n
  <2>2. Applies(t, y, y, i, n, None)
    BY <1>2, <1>3, <1>8 DEF Applies, i
  <2>3. QED
    BY <1>1, <1>2, <1>5, <1>8, <2>1, <2>2 DEF Applied, y
<1>9. QED
  BY <1>3, <1>4, <1>7, <1>8 DEF y, i, n, x

\* Applied, an upsert and a delete preserve the invariant.
LEMMA AppliedIInv == ASSUME IInv, NEW t \in Threads, Applied(t) PROVE IInv'
<1>1. PICK x \in Shards, i \in Ids, n \in Nums, w \in Vals \cup {None} :
        Renumbered(entry[at[t]], x, i, n) /\ Applies(t, entry[at[t]], x, i, n, w)
  BY DEF Applied
<1>2. QED
  BY <1>1, ApplyIInv

LEMMA ApplyUpsertIInv == ASSUME IInv, NEW t \in Threads, ApplyUpsert(t) PROVE IInv'
BY UpsertApplies, AppliedIInv

LEMMA ApplyDeleteIInv == ASSUME IInv, NEW t \in Threads, ApplyDelete(t) PROVE IInv'
BY DeleteApplies, AppliedIInv, LeaveIInv

\* A shard is opened over the segments and the state file there are.
LEMMA MakeIInv ==
    ASSUME IInv, NEW t \in Threads, NEW e \in Entries, Make(t, e) PROVE IInv'
<1> USE EdgeAssumption DEF IInv
<1> DEFINE x == Loaded(AskedShape(t))
<1>1. call[t] \in Calls /\ call[t].op \in {"ensure", "upsert"} /\ at[t] = None /\ pc[t] = "make"
  BY DEF Make, CallsUnderWay, TypeOK
<1>2. AskedShape(t) \in Shapes
  BY <1>1 DEF AskedShape, Calls, Shapes, Distances
<1>3. /\ x \in Shards /\ Sound(x)
      /\ x.points = IF disk.segs = None THEN NoNums ELSE disk.segs
      /\ x.next = IF disk.state = None THEN 1 ELSE disk.state.next
      /\ x.ids = IF disk.state = None THEN NoIds ELSE disk.state.ids
      /\ x.meta = IF disk.state = None THEN NoNums ELSE disk.state.meta
  BY <1>2, LoadedFacts DEF Make
<1>4. entry' = [entry EXCEPT ![e] = x] /\ slot = None /\ slot' = e /\ entry[e] = None
      /\ live' = live \cup {e} /\ regime' = regime /\ want' = want
  BY DEF Make
<1> HIDE DEF x
<1>5. /\ disk' \in [dir : BOOLEAN, segs : Points \cup {None}, state : States \cup {None}]
      /\ disk'.state = disk.state /\ disk'.segs = x.points /\ disk'.dir
      /\ x.points \in Points /\ x.points # None /\ x # None
  BY <1>3 DEF Make, TypeOK, Shards
<1>6. /\ \/ pc'[t] = "idle" /\ call'[t] = None /\ at'[t] = None
         \/ pc'[t] = "update" /\ call'[t] = call[t] /\ call[t].op = "upsert" /\ at'[t] = e
      /\ \A u \in Threads \ {t} : pc'[u] = pc[u] /\ call'[u] = call[u] /\ at'[u] = at[u]
  BY <1>1 DEF Make, Obtain, Return, Goto, TypeOK
<1>7. \A i \in Ids, w \in Vals \cup {None} : Settled(i, w) => Found(x, x.points, i, w)
  <2> SUFFICES ASSUME NEW i \in Ids, NEW w \in Vals \cup {None}, Settled(i, w)
               PROVE  Found(x, x.points, i, w)
    OBVIOUS
  <2>1. CASE disk.state = None
    BY <1>3, <2>1 DEF AckedDurable, Found, NoIds
  <2>2. CASE disk.state # None /\ disk.segs = None
    <3>1. w = None
      BY <2>2 DEF AckedDurable
    <3>2. x.ids[i] = 0 \/ x.ids[i] \in Nums
      BY <1>3 DEF Shards, Nums
    <3>3. QED
      BY <1>3, <2>2, <3>1, <3>2 DEF Found, NoNums
  <2>3. CASE disk.state # None /\ disk.segs # None
    BY <1>3, <2>3 DEF AckedDurable, Found
  <2>4. QED
    BY <2>1, <2>2, <2>3
<1>8. TypeOK'
  <2>1. /\ pc' \in [Threads -> {"idle", "create", "make", "update", "persist", "rmdir"}]
        /\ call' \in [Threads -> Calls \cup {None}] /\ at' \in [Threads -> Entries \cup {None}]
    BY <1>1 DEF Make, Obtain, Return, Goto, TypeOK
  <2>2. \A f \in Entries : entry'[f] # None <=> f = slot' \/ \E u \in Threads : at'[u] = f
    BY <1>1, <1>4, <1>5, <1>6 DEF TypeOK
  <2>3. \A u \in Threads : pc'[u] \in {"update", "persist"} <=> at'[u] # None
    BY <1>6 DEF TypeOK
  <2>4. \A u, v \in Threads : pc'[u] = "persist" /\ pc'[v] = "persist" /\ at'[u] = at'[v] => u = v
    BY <1>6 DEF TypeOK
  <2>5. entry' \in [Entries -> Shards \cup {None}]
    BY <1>3, <1>4 DEF TypeOK
  <2>6. QED
    BY <1>4, <1>5, <2>1, <2>2, <2>3, <2>4, <2>5 DEF TypeOK
<1>9. NumbersSound'
  BY <1>3, <1>4, <1>5 DEF NumbersSound, TypeOK
<1>10. entry'[slot'] = x
  BY <1>4 DEF TypeOK
<1>11. AckedFound'
  BY <1>4, <1>7, <1>10 DEF AckedFound, Settled
<1>12. AckedDurable'
  <2> SUFFICES ASSUME NEW i \in Ids, NEW w \in Vals \cup {None}, Settled(i, w)
               PROVE  IF disk.state = None THEN w = None ELSE Found(disk.state, x.points, i, w)
    BY <1>4, <1>5 DEF AckedDurable, Settled
  <2>1. CASE disk.state = None
    BY <2>1 DEF AckedDurable
  <2>2. CASE disk.state # None
    BY <1>3, <1>7, <2>2 DEF Found
  <2>3. QED
    BY <2>1, <2>2
<1>13. CallsUnderWay'
  BY <1>1, <1>6 DEF CallsUnderWay
<1>14. DropsAlone'
  BY <1>1, <1>4, <1>6 DEF DropsAlone
<1>15. OpenOnDisk'
  BY <1>4, <1>5, <1>6, <1>10 DEF OpenOnDisk
<1>16. StateIsOlder'
  BY <1>3, <1>4, <1>5, <1>10 DEF StateIsOlder, TypeOK, States
<1>17. PersistsWritten'
  BY <1>4, <1>6 DEF PersistsWritten, OpenOnDisk, TypeOK
<1>18. SeenWasTried'
  <2> SUFFICES ASSUME regime = "calm", NEW i \in Ids, NEW v \in Vals \cup {None}
               PROVE  /\ Found(x, x.points, i, v) => v \in want[i]
                      /\ IF disk.state = None THEN None \in want[i]
                         ELSE Found(disk.state, x.points, i, v) => v \in want[i]
    BY <1>4, <1>5, <1>10 DEF SeenWasTried, Shown, OnDisk, Seen
  <2>1. IF disk.state = None \/ disk.segs = None THEN None \in want[i]
        ELSE Found(disk.state, disk.segs, i, v) => v \in want[i]
    BY DEF SeenWasTried, OnDisk, Seen
  <2>2. CASE disk.state = None
    BY <1>3, <2>1, <2>2 DEF Found, NoIds
  <2>3. CASE disk.state # None
    <3>1. Found(x, x.points, i, v) <=> Found(disk.state, x.points, i, v)
      BY <1>3, <2>3 DEF Found
    <3>2. CASE disk.segs = None
      <4>1. x.points = NoNums /\ (x.ids[i] = 0 \/ x.ids[i] \in Nums)
        BY <1>3, <3>2 DEF Shards, Nums
      <4>2. Found(x, x.points, i, None)
        BY <4>1 DEF Found, NoNums
      <4>3. Found(x, x.points, i, v) => v = None
        BY <4>2, FoundOnce
      <4>4. QED
        BY <2>1, <2>3, <3>1, <3>2, <4>3
    <3>3. CASE disk.segs # None
      BY <1>3, <2>1, <2>3, <3>1, <3>3
    <3>4. QED
      BY <3>2, <3>3
  <2>4. QED
    BY <2>2, <2>3
<1>19. QED
  BY <1>4, <1>8, <1>9, <1>11, <1>12, <1>13, <1>14, <1>15, <1>16, <1>17, <1>18

\* The entry leaves the map: from now on every record may be gone.
LEMMA DropIInv == ASSUME IInv, NEW t \in Threads, NEW c \in Calls, Drop(t, c) PROVE IInv'
<1> USE EdgeAssumption DEF IInv
<1>1. /\ pc'[t] = "rmdir" /\ call'[t] = c /\ at'[t] = None /\ c.op = "drop"
      /\ pc[t] = "idle" /\ at[t] = None
      /\ \A u \in Threads \ {t} : pc'[u] = pc[u] /\ call'[u] = call[u] /\ at'[u] = at[u]
      /\ slot' = None /\ UNCHANGED <<regime, disk>>
  BY DEF Drop, Permitted, Goto, TypeOK
<1>2. regime = "calm" => \A u \in Threads \ {t} : pc[u] = "idle" /\ at[u] = None
  BY <1>1 DEF Drop, Permitted, TypeOK
<1>3. \A e \in Entries : (e = slot' \/ \E u \in Threads : at'[u] = e) => entry[e] # None
  BY <1>1 DEF TypeOK
<1>4. /\ entry' \in [Entries -> Shards \cup {None}]
      /\ \A e \in Entries : entry'[e] # None <=> e = slot' \/ \E u \in Threads : at'[u] = e
      /\ \A e \in Entries : entry'[e] # None => entry'[e] = entry[e]
      /\ live' \subseteq live /\ live \subseteq Entries
  BY <1>3, KeptFacts DEF Drop, TypeOK
<1>5. want' = IF regime = "calm" THEN [i \in Ids |-> want[i] \cup {None}] ELSE want
  BY DEF Drop, Wanted
<1>6. /\ want' \in [Ids -> SUBSET (Vals \cup {None})]
      /\ \A i \in Ids : want'[i] # {} /\ want[i] \subseteq want'[i]
      /\ regime = "calm" => \A i \in Ids : None \in want'[i]
  BY <1>5 DEF TypeOK
<1>7. TypeOK'
  <2>1. /\ pc' \in [Threads -> {"idle", "create", "make", "update", "persist", "rmdir"}]
        /\ call' \in [Threads -> Calls \cup {None}] /\ at' \in [Threads -> Entries \cup {None}]
    BY DEF Drop, Goto, TypeOK
  <2>2. \A u \in Threads : pc'[u] \in {"update", "persist"} <=> at'[u] # None
    BY <1>1 DEF TypeOK
  <2>3. \A u, v \in Threads : pc'[u] = "persist" /\ pc'[v] = "persist" /\ at'[u] = at'[v] => u = v
    BY <1>1 DEF TypeOK
  <2>4. QED
    BY <1>1, <1>4, <1>6, <2>1, <2>2, <2>3 DEF TypeOK
<1>8. NumbersSound'
  BY <1>1, <1>4 DEF NumbersSound
<1>9. AckedFound' /\ StateIsOlder'
  BY <1>1 DEF AckedFound, StateIsOlder
<1>10. AckedDurable'
  <2>1. ASSUME NEW i \in Ids, NEW w \in Vals \cup {None}, Settled(i, w)'
        PROVE  Settled(i, w)
    <3>1. regime = "calm" /\ want'[i] = {w}
      BY <1>1, <2>1 DEF Settled
    <3>2. want[i] \subseteq {w} /\ want[i] # {}
      BY <1>6, <3>1
    <3>3. want[i] = {w}
      BY <3>2
    <3>4. QED
      BY <3>1, <3>3 DEF Settled
  <2>2. QED
    BY <1>1, <2>1 DEF AckedDurable
<1>11. CallsUnderWay'
  BY <1>1 DEF CallsUnderWay, Calls
<1>12. DropsAlone'
  BY <1>1, <1>2, <1>6 DEF DropsAlone
<1>13. OpenOnDisk' /\ PersistsWritten'
  BY <1>1, <1>2 DEF OpenOnDisk, PersistsWritten
<1>14. SeenWasTried'
  <2>1. regime' = regime /\ slot' = None /\ \A i : OnDisk(i)' = OnDisk(i)
    BY <1>1 DEF OnDisk
  <2>2. QED
    BY <1>6, <2>1 DEF SeenWasTried, Shown
<1>15. QED
  BY <1>6, <1>7, <1>8, <1>9, <1>10, <1>11, <1>12, <1>13, <1>14

\* The directory is deleted, or a part of it: what is left answers for no record.
LEMMA DropDirIInv == ASSUME IInv, NEW t \in Threads, DropDir(t) PROVE IInv'
<1> USE EdgeAssumption DEF IInv
<1>1. /\ pc'[t] = "idle" /\ call'[t] = None /\ at'[t] = None /\ pc[t] = "rmdir" /\ at[t] = None
      /\ \A u \in Threads \ {t} : pc'[u] = pc[u] /\ call'[u] = call[u] /\ at'[u] = at[u]
      /\ UNCHANGED <<regime, slot, entry>>
  BY DEF DropDir, Return, Goto, TypeOK
<1>2. /\ disk' \in [dir : BOOLEAN, segs : Points \cup {None}, state : States \cup {None}]
      /\ disk'.segs # None => disk'.dir
      /\ live' \subseteq live /\ (live' # {} => disk'.segs # None)
      /\ disk'.state \in {disk.state, None} /\ disk'.segs \in {disk.segs, None}
  <2>1. CASE disk' = NoDir /\ live' = {}
    BY <2>1 DEF NoDir
  <2>2. CASE disk' = [disk EXCEPT !.segs = None] /\ live' = {}
    BY <2>2 DEF TypeOK
  <2>3. CASE disk' = disk /\ live' = live
    BY <2>3 DEF TypeOK
  <2>4. CASE disk' = [disk EXCEPT !.state = None] /\ live' = live
    BY <2>4 DEF TypeOK
  <2>5. QED
    BY <2>1, <2>2, <2>3, <2>4 DEF DropDir
<1>3. want' = want \/ (want' = [i \in Ids |-> {None}])
  BY DEF DropDir, Wanted
<1>4. want' \in [Ids -> SUBSET (Vals \cup {None})] /\ \A i \in Ids : want'[i] # {}
  BY <1>3 DEF TypeOK
<1>5. TypeOK'
  <2>1. /\ pc' \in [Threads -> {"idle", "create", "make", "update", "persist", "rmdir"}]
        /\ call' \in [Threads -> Calls \cup {None}] /\ at' \in [Threads -> Entries \cup {None}]
    BY DEF DropDir, Return, Goto, TypeOK
  <2>2. \A u \in Threads : pc'[u] \in {"update", "persist"} <=> at'[u] # None
    BY <1>1 DEF TypeOK
  <2>3. \A u, v \in Threads : pc'[u] = "persist" /\ pc'[v] = "persist" /\ at'[u] = at'[v] => u = v
    BY <1>1 DEF TypeOK
  <2>4. \A e \in Entries : entry'[e] # None <=> e = slot' \/ \E u \in Threads : at'[u] = e
    BY <1>1 DEF TypeOK
  <2>5. QED
    BY <1>1, <1>2, <1>4, <2>1, <2>2, <2>3, <2>4 DEF TypeOK
<1>6. NumbersSound'
  BY <1>1, <1>2 DEF NumbersSound
<1>7. regime = "calm" => /\ slot = None /\ \A u \in Threads : at[u] = None
                         /\ \A i \in Ids : None \in want'[i]
  BY <1>1, <1>3 DEF DropsAlone, TypeOK
<1>8. AckedFound' /\ OpenOnDisk' /\ StateIsOlder'
  BY <1>1, <1>7 DEF AckedFound, OpenOnDisk, StateIsOlder, Settled
<1>9. AckedDurable'
  <2> SUFFICES ASSUME NEW i \in Ids, NEW w \in Vals \cup {None}, Settled(i, w)'
               PROVE  /\ w = None
                      /\ disk'.state # None /\ disk'.segs # None => Found(disk'.state, disk'.segs, i, w)
    BY DEF AckedDurable
  <2>1. regime = "calm" /\ want'[i] = {w} /\ w = None
    BY <1>1, <1>7 DEF Settled
  <2>2. CASE disk'.state # None /\ disk'.segs # None
    <3>1. disk'.state = disk.state /\ disk'.segs = disk.segs
      BY <1>2, <2>2
    <3>2. want' = want
      BY <2>2 DEF DropDir, NoDir
    <3>3. Found(disk.state, disk.segs, i, w)
      BY <2>1, <2>2, <3>1, <3>2 DEF AckedDurable, Settled
    <3>4. QED
      BY <2>1, <3>1, <3>3
  <2>3. QED
    BY <2>1, <2>2
<1>10. CallsUnderWay' /\ DropsAlone'
  BY <1>1 DEF CallsUnderWay, DropsAlone
<1>11. PersistsWritten'
  BY <1>1, <1>7 DEF PersistsWritten, TypeOK
<1>12. SeenWasTried'
  <2> SUFFICES ASSUME regime = "calm", NEW i \in Ids PROVE OnDisk(i)' \subseteq want'[i]
    BY <1>1, <1>7 DEF SeenWasTried, Shown
  <2>1. CASE disk'.state = None \/ disk'.segs = None
    BY <1>7, <2>1 DEF OnDisk
  <2>2. CASE disk'.state # None /\ disk'.segs # None
    <3>1. disk'.state = disk.state /\ disk'.segs = disk.segs
      BY <1>2, <2>2
    <3>2. want' = want
      BY <2>2 DEF DropDir, NoDir
    <3>3. OnDisk(i)' = OnDisk(i)
      BY <3>1 DEF OnDisk, Seen
    <3>4. QED
      BY <3>2, <3>3 DEF SeenWasTried
  <2>3. QED
    BY <2>1, <2>2
<1>13. QED
  BY <1>4, <1>5, <1>6, <1>8, <1>9, <1>10, <1>11, <1>12

\* The process that starts again has nothing open.
LEMMA RestartIInv == ASSUME IInv, Restart PROVE IInv'
<1> USE EdgeAssumption DEF IInv, Restart
<1>1. TypeOK'
  BY DEF TypeOK
<1>2. NumbersSound' /\ AckedFound' /\ AckedDurable'
  BY DEF NumbersSound, AckedFound, AckedDurable, Settled
<1>3. CallsUnderWay' /\ DropsAlone' /\ OpenOnDisk' /\ StateIsOlder' /\ PersistsWritten'
  BY DEF CallsUnderWay, DropsAlone, OpenOnDisk, StateIsOlder, PersistsWritten
<1>4. SeenWasTried'
  BY DEF SeenWasTried, Shown, OnDisk
<1>5. QED
  BY <1>1, <1>2, <1>3, <1>4

LEMMA StutterIInv == ASSUME IInv, UNCHANGED vars PROVE IInv'
BY DEF IInv, vars, TypeOK, NumbersSound, AckedFound, AckedDurable, Settled, CallsUnderWay,
    DropsAlone, OpenOnDisk, StateIsOlder, PersistsWritten, Written, SeenWasTried, Shown, OnDisk

\* Every step preserves it.
LEMMA NextIInv == ASSUME IInv, [Next]_vars PROVE IInv'
<1>1. ASSUME NEW t \in Threads, NEW c \in Inputs[regime], Call(t, c) PROVE IInv'
  <2>1. c \in Calls
    BY EdgeAssumption DEF IInv, TypeOK
  <2>2. QED
    BY <1>1, <2>1, EnsureIInv, UpsertIInv, DeleteIInv, DropIInv DEF Call
<1>2. ASSUME NEW t \in Threads, Step(t) PROVE IInv'
  BY <1>2, DropDirIInv, FindIInv, MakeFoundIInv, MakeFailsIInv, MakeIInv, ApplyUpsertIInv,
     ApplyDeleteIInv, PersistIInv DEF Step
<1>3. CASE Restart
  BY <1>3, RestartIInv
<1>4. CASE UNCHANGED vars
  BY <1>4, StutterIInv
<1>5. QED
  BY <1>1, <1>2, <1>3, <1>4 DEF Next

\* The inductive invariant holds in every reachable state.
THEOREM Invariance == Spec => []IInv
<1>1. IInv /\ [Next]_vars => IInv'
  BY NextIInv
<1>2. QED
  BY InitIInv, <1>1, PTL DEF Spec

\* The variables keep their types; entries exist as long as somebody refers to them,
\* and one thread at a time is in the critical section of one.
THEOREM TypeCorrect == Spec => []TypeOK
<1>1. IInv => TypeOK
  BY DEF IInv
<1>2. QED
  BY <1>1, Invariance, PTL

\* In both regimes, the numbers of records are distinct, below the counter, and have
\* metadata exactly if they are in use, in every entry and in the state file.
THEOREM NumbersAreSound == Spec => []NumbersSound
<1>1. IInv => NumbersSound
  BY DEF IInv
<1>2. QED
  BY <1>1, Invariance, PTL

\* In the calm regime an acknowledged record is found as acknowledged.
THEOREM AckedIsFound == Spec => []AckedFound
<1>1. IInv => AckedFound
  BY DEF IInv
<1>2. QED
  BY <1>1, Invariance, PTL

\* And the next process finds it so, whenever this one dies.
THEOREM AckedIsDurable == Spec => []AckedDurable
<1>1. IInv => AckedDurable
  BY DEF IInv
<1>2. QED
  BY <1>1, Invariance, PTL

\* In the calm regime what is found is what the answers allow.
LEMMA ShownIsFindable == IInv /\ regime = "calm" => Store!AllFindable
<1> SUFFICES ASSUME IInv, regime = "calm", NEW i \in Ids
             PROVE  Shown(i) \in Store!Findable(want[i])
  BY DEF Store!AllFindable
<1> USE DEF IInv
<1>1. Shown(i) \subseteq want[i]
  BY DEF SeenWasTried
<1>2. \A v, w \in Shown(i) : v = w
  BY FoundOnce DEF Shown, OnDisk, Seen
<1>3. ASSUME NEW w \in want[i], want[i] = {w} PROVE Shown(i) = {w}
  <2>1. w \in Vals \cup {None} /\ Settled(i, w)
    BY <1>3 DEF TypeOK, Settled
  <2>2. w \in Shown(i)
    BY <2>1 DEF AckedFound, AckedDurable, Shown, OnDisk, Seen
  <2>3. QED
    BY <1>2, <2>2
<1>4. Shown(i) = {} \/ \E w \in want[i] : Shown(i) = {w}
  BY <1>1, <1>2
<1>5. QED
  BY <1>3, <1>4 DEF Store!Findable

LEMMA ShownIsFindableNext == IInv' /\ regime' = "calm" => Store!AllFindable'
<1>1. (IInv /\ regime = "calm" => Store!AllFindable)'
  BY ShownIsFindable, PTL
<1>2. QED
  BY <1>1

\* The racing regime is outside of the refinement.
LEMMA RacingStutters ==
    ASSUME IInv, [Next]_vars, regime # "calm" PROVE UNCHANGED Store!vars
<1>1. regime' = regime /\ want' = want
  BY DEF vars, Next, Call, Step, Ensure, Upsert, Delete, Drop, DropDir, Find, MakeFound, MakeFails,
     Make, ApplyUpsert, ApplyDelete, Persist, Restart, Wanted
<1>2. QED
  BY <1>1 DEF Store!vars

\* Neither lookups nor failures to make a shard change what is found, or what is open.
LEMMA MoveStutters ==
    ASSUME UNCHANGED <<regime, slot, entry, want>>,
           disk' = disk \/ disk' = [disk EXCEPT !.dir = TRUE], IInv
    PROVE  UNCHANGED Store!vars
<1>1. disk'.segs = disk.segs /\ disk'.state = disk.state
  BY DEF IInv, TypeOK
<1>2. \A i \in Ids : Shown(i)' = Shown(i)
  BY <1>1 DEF Shown, OnDisk, Seen
<1>3. QED
  BY <1>2 DEF Store!vars

\* Nor does a thread that returns without a change.
LEMMA LeaveStutters ==
    ASSUME IInv, Kept(entry), UNCHANGED <<regime, slot, disk, want>>
    PROVE  UNCHANGED Store!vars
<1>1. slot # None => slot \in Entries /\ entry'[slot] = entry[slot]
  BY DEF Kept, IInv, TypeOK
<1>2. \A i \in Ids : Shown(i)' = Shown(i)
  BY <1>1 DEF Shown, OnDisk, Seen
<1>3. QED
  BY <1>2 DEF Store!vars

\* Opened, the collection shows what is on the disk.
LEMMA MakeOpens ==
    ASSUME IInv, regime = "calm", NEW t \in Threads, NEW e \in Entries, Make(t, e)
    PROVE  Store!Open
<1> USE EdgeAssumption DEF IInv
<1> DEFINE x == Loaded(AskedShape(t))
<1>1. call[t] \in Calls /\ call[t].op \in {"ensure", "upsert"}
  BY DEF Make, CallsUnderWay, TypeOK
<1>2. AskedShape(t) \in Shapes
  BY <1>1 DEF AskedShape, Calls, Shapes, Distances
<1>3. /\ x \in Shards
      /\ x.points = IF disk.segs = None THEN NoNums ELSE disk.segs
      /\ x.ids = IF disk.state = None THEN NoIds ELSE disk.state.ids
      /\ x.meta = IF disk.state = None THEN NoNums ELSE disk.state.meta
  BY <1>2, LoadedFacts DEF Make
<1>4. /\ slot = None /\ slot' = e /\ e # None /\ entry'[slot'] = x
      /\ UNCHANGED <<regime, want>>
  BY DEF Make, TypeOK
<1> HIDE DEF x
<1>5. ASSUME NEW i \in Ids PROVE Seen(x, x.points, i) = OnDisk(i)
  <2>1. CASE disk.state # None /\ disk.segs # None
    BY <1>3, <2>1 DEF OnDisk, Seen, Found
  <2>2. CASE disk.state = None \/ disk.segs = None
    <3>1. Found(x, x.points, i, None)
      <4>1. x.ids[i] = 0 \/ x.ids[i] \in Nums
        BY <1>3 DEF Shards, Nums
      <4>2. CASE disk.state = None
        BY <1>3, <4>2 DEF Found, NoIds
      <4>3. CASE disk.segs = None
        BY <1>3, <4>1, <4>3 DEF Found, NoNums
      <4>4. QED
        BY <2>2, <4>2, <4>3
    <3>2. QED
      BY <2>2, <3>1, FoundOnce DEF OnDisk, Seen
  <2>3. QED
    BY <2>1, <2>2
<1>6. \A i \in Ids : Shown(i)' = Shown(i)
  BY <1>4, <1>5 DEF Shown, Seen
<1>7. QED
  BY <1>4, <1>6 DEF Store!Open

\* An upsert and a delete that are applied, or refused, try a content of their record.
LEMMA AppliedTries ==
    ASSUME IInv, IInv', regime = "calm", NEW t \in Threads, Applied(t)
    PROVE  \E i \in Ids, w \in Vals \cup {None} : Store!Try(i, w)
<1> USE EdgeAssumption
<1> DEFINE y == entry[at[t]]
<1>1. PICK x \in Shards, i \in Ids, n \in Nums, w \in Vals \cup {None} :
        Renumbered(y, x, i, n) /\ Applies(t, y, x, i, n, w)
  BY DEF Applied
<1>2. /\ UNCHANGED <<regime, slot>> /\ pc[t] = "update"
      /\ want' = [want EXCEPT ![i] = @ \cup {w}]
      /\ Kept([entry EXCEPT ![at[t]] = x])
  BY <1>1 DEF Applies, Wanted, MayBe, Update, UpdateFails
<1>3. slot # None /\ slot \in Entries /\ at[t] = slot /\ y \in Shards
  BY <1>2 DEF IInv, TypeOK, OpenOnDisk
<1>4. entry'[slot'] = x
  BY <1>2, <1>3 DEF IInv, TypeOK, Kept
<1>5. \A j \in Ids \ {i} : Seen(x, x.points, j) = Seen(y, y.points, j)
  <2>1. Renumbered(y, x, i, n)
    BY <1>1
  <2> HIDE DEF y
  <2>2. QED
    BY <1>3, <2>1, OthersFound DEF Seen
<1>6. \A j \in Ids \ {i} : Shown(j)' = Shown(j)
  BY <1>2, <1>3, <1>4, <1>5 DEF Shown, Seen
<1>7. Store!AllFindable'
  BY <1>2, ShownIsFindableNext
<1>8. Store!Try(i, w)
  BY <1>2, <1>3, <1>6, <1>7 DEF Store!Try
<1>9. QED
  BY <1>8

\* Acknowledged, what was written is confirmed.
LEMMA PersistConfirms ==
    ASSUME IInv, regime = "calm", NEW t \in Threads, Persist(t)
    PROVE  \/ UNCHANGED Store!vars
           \/ \E i \in Ids, w \in Vals \cup {None} : Store!Confirm(i, w)
<1> USE EdgeAssumption DEF IInv
<1>1. pc[t] = "persist" /\ Kept(entry) /\ UNCHANGED <<regime, slot>>
  BY DEF Persist
<1>2. CASE UNCHANGED <<disk, want>>
  BY <1>1, <1>2, LeaveStutters
<1>3. CASE /\ disk' = [disk EXCEPT !.state = StateOf(entry[at[t]])]
           /\ Wanted(Acknowledged(call[t]))
  <2> DEFINE i == call[t].id
             w == IF call[t].op = "upsert" THEN call[t].val ELSE None
  <2>1. i \in Ids /\ w \in Vals \cup {None}
    BY <1>1 DEF CallsUnderWay, TypeOK, Calls
  <2>2. want' = [want EXCEPT ![i] = {w}]
    BY <1>3 DEF Wanted, Acknowledged
  <2>3. slot # None /\ slot \in Entries /\ Found(entry[slot], entry[slot].points, i, w)
    BY <1>1 DEF OpenOnDisk, PersistsWritten, Written, TypeOK
  <2> HIDE DEF i, w
  <2>4. Shown(i) = {w}
    BY <2>1, <2>3, FoundOnce DEF Shown, Seen
  <2>5. entry'[slot'] = entry[slot] /\ slot' = slot
    BY <1>1, <2>3 DEF Kept, TypeOK
  <2>6. \A j \in Ids : Shown(j)' = Shown(j)
    BY <2>3, <2>5 DEF Shown, Seen
  <2>7. Store!Confirm(i, w)
    BY <1>1, <2>1, <2>2, <2>3, <2>4, <2>6 DEF Store!Confirm
  <2>8. QED
    BY <2>1, <2>7
<1>4. QED
  BY <1>2, <1>3 DEF Persist

\* A drop begins when the entry leaves the map.
LEMMA DropBegins ==
    ASSUME IInv', regime = "calm", NEW t \in Threads, NEW c \in Calls, Drop(t, c)
    PROVE  Store!DropBegins
<1>1. /\ UNCHANGED regime /\ slot' = None
      /\ want' = [i \in Ids |-> want[i] \cup {None}]
  BY DEF Drop, Wanted
<1>2. Store!AllFindable'
  BY <1>1, ShownIsFindableNext
<1>3. QED
  BY <1>1, <1>2 DEF Store!DropBegins

\* It ends when the directory is deleted; a part of that may be found missing.
LEMMA DropEnds ==
    ASSUME IInv, IInv', regime = "calm", NEW t \in Threads, DropDir(t)
    PROVE  Store!DropEnds \/ Store!Interrupted
<1>1. /\ UNCHANGED <<regime, slot>> /\ slot = None
      /\ \A i \in Ids : None \in want[i]
  BY DEF DropDir, IInv, DropsAlone
<1>2. CASE UNCHANGED want
  <2>1. Store!AllFindable'
    BY <1>1, ShownIsFindableNext
  <2>2. QED
    BY <1>1, <1>2, <2>1 DEF Store!Interrupted
<1>3. CASE disk' = NoDir /\ Wanted([i \in Ids |-> {None}])
  <2>1. \A i \in Ids : Shown(i)' = {None}
    BY <1>1, <1>3 DEF Shown, OnDisk, NoDir
  <2>2. want' = [i \in Ids |-> {None}]
    BY <1>3 DEF Wanted
  <2>3. QED
    BY <1>1, <2>1, <2>2 DEF Store!DropEnds
<1>4. QED
  BY <1>2, <1>3 DEF DropDir

\* A crash interrupts the calls.
LEMMA RestartInterrupts ==
    ASSUME IInv', regime = "calm", Restart PROVE Store!Interrupted
<1>1. slot' = None /\ UNCHANGED <<regime, want>>
  BY DEF Restart
<1>2. Store!AllFindable'
  BY <1>1, ShownIsFindableNext
<1>3. QED
  BY <1>1, <1>2 DEF Store!Interrupted

\* A step of the edge store is one of VectorStore, or changes nothing there.
LEMMA NextRefines ==
    ASSUME IInv, IInv', [Next]_vars PROVE [Store!Next]_(Store!vars)
<1>1. CASE regime # "calm"
  BY <1>1, RacingStutters
<1>2. CASE regime = "calm"
  <2>1. ASSUME NEW t \in Threads, NEW c \in Inputs[regime], Call(t, c)
        PROVE  [Store!Next]_(Store!vars)
    <3>1. c \in Calls
      BY EdgeAssumption DEF IInv, TypeOK
    <3>2. CASE Ensure(t, c) \/ Upsert(t, c) \/ Delete(t, c)
      BY <3>2, MoveStutters DEF Ensure, Upsert, Delete
    <3>3. CASE Drop(t, c)
      BY <1>2, <3>1, <3>3, DropBegins DEF Store!Next
    <3>4. QED
      BY <2>1, <3>2, <3>3 DEF Call
  <2>2. ASSUME NEW t \in Threads, Step(t) PROVE [Store!Next]_(Store!vars)
    <3>1. CASE DropDir(t)
      BY <1>2, <3>1, DropEnds DEF Store!Next
    <3>2. CASE Find(t) \/ MakeFound(t) \/ MakeFails(t)
      BY <3>2, MoveStutters DEF Find, MakeFound, MakeFails
    <3>3. CASE \E e \in Entries : Make(t, e)
      BY <1>2, <3>3, MakeOpens DEF Store!Next
    <3>4. CASE Applied(t)
      BY <1>2, <3>4, AppliedTries DEF Store!Next
    <3>5. CASE ApplyUpsert(t)
      BY <3>4, <3>5, UpsertApplies
    <3>6. CASE ApplyDelete(t)
      BY <3>4, <3>6, DeleteApplies, LeaveStutters
    <3>7. CASE Persist(t)
      BY <1>2, <3>7, PersistConfirms DEF Store!Next
    <3>8. QED
      BY <2>2, <3>1, <3>2, <3>3, <3>5, <3>6, <3>7 DEF Step
  <2>3. CASE Restart
    BY <1>2, <2>3, RestartInterrupts DEF Store!Next
  <2>4. CASE UNCHANGED vars
    BY <2>4, MoveStutters DEF vars
  <2>5. QED
    BY <2>1, <2>2, <2>3, <2>4 DEF Next
<1>3. QED
  BY <1>1, <1>2

\* In the calm regime the edge store implements VectorStore: calls, failures, drops and
\* crashes included, a search finds of each record what the answers allow, and no call
\* changes what is found of another record.
THEOREM Implementation == Spec => ImplementsVectorStore
<1>1. Init => Store!Init
  BY DEF Init, Store!Init, Shown, OnDisk, NoDir
<1>2. IInv /\ IInv' /\ [Next]_vars => [Store!Next]_(Store!vars)
  BY NextRefines
<1>3. QED
  BY <1>1, <1>2, Invariance, PTL DEF Spec, ImplementsVectorStore, Store!Spec
=============================================================================
