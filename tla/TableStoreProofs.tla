-------------------------- MODULE TableStoreProofs --------------------------
(***************************************************************************)
(* The safety of the table stores for any number of threads and processes, *)
(* any batch and any shapes: IInv of TableStore is inductive, and the      *)
(* properties follow from it.                                              *)
(***************************************************************************)
EXTENDS TableStore, TLAPS

\* A new table has the shape it was created with and no record.
LEMMA EmptyTable ==
    ASSUME NEW s, s.dim \in Dims, s.distance \in Distances
    PROVE  /\ Empty(s) \in Tables /\ Empty(s) # None
           /\ Empty(s).dim = s.dim /\ Empty(s).distance = s.distance
           /\ \A i, j \in Ids : Empty(s).recs[i] = Empty(s).recs[j]
<1>1. Empty(s) \in Tables
  BY DEF Empty, Tables
<1>2. Empty(s) # None
  BY <1>1, TableAssumption
<1>3. QED
  BY <1>1, <1>2 DEF Empty

\* Writing records keeps the shape of a table.
LEMMA WrittenTable ==
    ASSUME NEW x \in Tables, NEW n, NEW v \in Vals
    PROVE  /\ Written(x, n, v) \in Tables /\ Written(x, n, v) # None
           /\ Written(x, n, v).dim = x.dim /\ Written(x, n, v).distance = x.distance
<1>1. Written(x, n, v) \in Tables
  BY DEF Written, Tables
<1>2. Written(x, n, v) # None
  BY <1>1, TableAssumption
<1>3. QED
  BY <1>1, <1>2 DEF Written, Tables

\* A batch that is written to its end has written every record.
LEMMA WrittenWhole ==
    ASSUME NEW x \in Tables, NEW v \in Vals
    PROVE  \A i \in Ids : Written(x, Len(Order), v).recs[i] = v
<1> SUFFICES ASSUME NEW i \in Ids PROVE Written(x, Len(Order), v).recs[i] = v
  OBVIOUS
<1>1. PICK j \in DOMAIN Order : Order[j] = i
  BY DEF Ids
<1>2. j \in 1 .. Len(Order)
  BY TableAssumption
<1>3. QED
  BY <1>1, <1>2 DEF Written, Tables

\* The last record of a batch has a position.
LEMMA OrderLength == Len(Order) \in Nat \ {0}
BY TableAssumption


\* The shape of the process of a thread.
LEMMA ShapeTypes ==
    ASSUME NEW t \in Threads
    PROVE  /\ ProcOf[t] \in Procs /\ ProcOf[t] # Shared
           /\ Shape(t).dim \in Dims /\ Shape(t).distance \in Distances
BY TableAssumption DEF Shape

\* Nothing is there when the processes start.
LEMMA InitIInv == Init => IInv
<1> SUFFICES ASSUME Init PROVE IInv
  OBVIOUS
<1> USE TableAssumption, OrderLength DEF Init
<1>1. TypeOK
  BY DEF TypeOK
<1>2. BatchesWhole /\ AckedKept /\ Located /\ Asked /\ CleanEnsure /\ KnownNoted
  BY DEF BatchesWhole, AckedKept, Located, Asked, CleanEnsure, KnownNoted, Places
<1>3. QED
  BY <1>1, <1>2 DEF IInv

\* A table that is put where the table of a thread is: its records are of one
\* batch, or its process is alone with it and asked for its distance.
LEMMA PutTable ==
    ASSUME IInv, NEW t \in Threads, NEW x \in Tables, Put(t, x), backend' = backend,
           backend # "memory" => \A i, j \in Ids : x.recs[i] = x.recs[j],
           backend = "memory" => x.distance = Shape(t).distance
    PROVE  /\ table' \in [Places -> Tables \cup {None}]
           /\ BatchesWhole'
           /\ x # None /\ table'[Place(t)] = x
           /\ \A h \in Places : table'[h] = None => table[h] = None
           /\ backend = "memory" => table'[Shared] = table[Shared]
           /\ backend # "memory" => Place(t) = Shared
           /\ \A p \in Procs : table'[p] # None => table'[p].distance = ShapeOf[p].distance
<1>1. Place(t) \in Places
  BY ShapeTypes DEF Place, Places
<1>2. x # None
  BY TableAssumption
<1>3. table' \in [Places -> Tables \cup {None}]
  BY <1>1 DEF IInv, TypeOK, Put
<1>4. \A h \in Places : table'[h] = IF h = Place(t) THEN x ELSE table[h]
  BY <1>1 DEF IInv, TypeOK, Put
<1>5. BatchesWhole'
  BY <1>4 DEF IInv, BatchesWhole
<1>6. /\ backend = "memory" => Place(t) = ProcOf[t]
      /\ backend # "memory" => Place(t) = Shared
  BY DEF Place
<1>7. backend = "memory" => table'[Shared] = table[Shared]
  BY <1>4, <1>6, ShapeTypes DEF Places
<1>8. ASSUME NEW p \in Procs, table'[p] # None
      PROVE  table'[p].distance = ShapeOf[p].distance
  <2>1. p \in Places /\ p # Shared
    BY TableAssumption DEF Places
  <2>2. CASE p = Place(t)
    BY <2>1, <2>2, <1>4, <1>6 DEF Shape
  <2>3. CASE p # Place(t)
    BY <2>1, <2>3, <1>4, <1>8 DEF IInv, Asked
  <2>4. QED
    BY <2>2, <2>3
<1>9. QED
  BY <1>1, <1>2, <1>3, <1>4, <1>5, <1>6, <1>7, <1>8

\* A table that is gone.
LEMMA PutNone ==
    ASSUME IInv, NEW t \in Threads, Put(t, None), backend' = backend
    PROVE  /\ table' \in [Places -> Tables \cup {None}]
           /\ BatchesWhole'
           /\ \A h \in Places : h # Place(t) => table'[h] = table[h]
           /\ backend = "memory" => Place(t) = ProcOf[t] /\ table'[Shared] = table[Shared]
           /\ backend # "memory" => Place(t) = Shared
           /\ \A p \in Procs : table'[p] # None => table'[p].distance = ShapeOf[p].distance
<1>1. Place(t) \in Places
  BY ShapeTypes DEF Place, Places
<1>2. table' \in [Places -> Tables \cup {None}]
  BY <1>1 DEF IInv, TypeOK, Put
<1>3. \A h \in Places : table'[h] = IF h = Place(t) THEN None ELSE table[h]
  BY <1>1 DEF IInv, TypeOK, Put
<1>4. BatchesWhole'
  BY <1>3 DEF IInv, BatchesWhole
<1>5. /\ backend = "memory" => Place(t) = ProcOf[t]
      /\ backend # "memory" => Place(t) = Shared
  BY DEF Place
<1>6. backend = "memory" => table'[Shared] = table[Shared]
  BY <1>3, <1>5, ShapeTypes DEF Places
<1>7. \A p \in Procs : table'[p] # None => table'[p].distance = ShapeOf[p].distance
  BY <1>3 DEF IInv, Asked, Places
<1>8. QED
  BY <1>2, <1>3, <1>4, <1>5, <1>6, <1>7

\* ensure of pgvector creates a table, or finds one.
LEMMA PgCreateIInv == ASSUME IInv, NEW t \in Threads, PgCreate(t) PROVE IInv'
<1> USE TableAssumption, OrderLength, ShapeTypes DEF IInv
<1> DEFINE x == IF Table(t) = None THEN Empty(Shape(t)) ELSE Table(t)
<1>1. Table(t) \in Tables \cup {None} /\ Place(t) \in Places
  BY DEF TypeOK, Table, Place, Places
<1>2. /\ x \in Tables /\ x # None
      /\ backend # "memory" => \A i, j \in Ids : x.recs[i] = x.recs[j]
      /\ backend = "memory" => x.distance = Shape(t).distance
      /\ Table(t) # None => x = Table(t)
  BY <1>1, EmptyTable DEF PgCreate, TypeOK, Located, Table, Place, Places, BatchesWhole, Asked, Shape, Tables, Batches
<1>3. Put(t, x) /\ backend' = backend
  BY DEF PgCreate
<1> HIDE DEF x
<1>4. /\ table' \in [Places -> Tables \cup {None}] /\ BatchesWhole'
      /\ table'[Place(t)] = x
      /\ \A h \in Places : table'[h] = None => table[h] = None
      /\ backend = "memory" => table'[Shared] = table[Shared]
      /\ backend # "memory" => Place(t) = Shared
      /\ \A p \in Procs : table'[p] # None => table'[p].distance = ShapeOf[p].distance
  BY <1>2, <1>3, PutTable
<1>5. TypeOK'
  BY <1>1, <1>2, <1>4 DEF PgCreate, TypeOK, Goto, EnsureBegins, Shape, Table, Place, Places, Located
<1>6. AckedKept'
  BY <1>1, <1>2, <1>4 DEF PgCreate, AckedKept, Goto, EnsureBegins, Shape, Places, TypeOK, Table, Place
<1>7. Located'
  BY DEF PgCreate, Located, Goto, EnsureBegins, Shape, TypeOK
<1>8. Asked'
  BY <1>1, <1>2, <1>4 DEF PgCreate, Asked, Goto, EnsureBegins, Shape, TypeOK, Places
<1>9. CleanEnsure'
  BY DEF PgCreate, CleanEnsure, Goto, EnsureBegins, Shape, TypeOK, Located
<1>10. KnownNoted'
  BY <1>1, <1>2, <1>4 DEF PgCreate, KnownNoted, Goto, EnsureBegins, Shape, TypeOK, Located, Asked, CleanEnsure, Places, Table, Place
<1>11. QED
  BY <1>4, <1>5, <1>6, <1>7, <1>8, <1>9, <1>10

\* ensure of pgvector notes the distance.
LEMMA PgNoteIInv == ASSUME IInv, NEW t \in Threads, PgNote(t) PROVE IInv'
<1> USE TableAssumption, OrderLength, ShapeTypes DEF IInv
<1>1. TypeOK'
  BY DEF PgNote, TypeOK, Note, Goto, EnsureOk, Shape, Table, Place
<1>2. BatchesWhole'
  BY DEF PgNote, BatchesWhole, Note, Goto, EnsureOk, Shape, Places, TypeOK
<1>3. AckedKept'
  BY DEF PgNote, AckedKept, Note, Goto, EnsureOk, Shape, Places, TypeOK
<1>4. Located'
  BY DEF PgNote, Located, Note, Goto, EnsureOk, Shape, TypeOK
<1>5. Asked'
  BY DEF PgNote, Asked, Note, Goto, EnsureOk, Shape, TypeOK, Places
<1>6. CleanEnsure'
  BY DEF PgNote, CleanEnsure, Note, Goto, EnsureOk, Shape, TypeOK, Located, Asked
<1>7. KnownNoted'
  BY DEF PgNote, KnownNoted, Note, Goto, EnsureOk, Shape, TypeOK, Located, Asked, CleanEnsure, Places, Table, Place
<1>8. QED
  BY <1>1, <1>2, <1>3, <1>4, <1>5, <1>6, <1>7

\* A drop of pgvector waits for the open transactions.
LEMMA PgDropIInv == ASSUME IInv, NEW t \in Threads, PgDrop(t) PROVE IInv'
<1> USE TableAssumption, OrderLength, ShapeTypes DEF IInv
<1>1. Put(t, None) /\ backend' = backend
  BY DEF PgDrop
<1>2. /\ table' \in [Places -> Tables \cup {None}] /\ BatchesWhole'
      /\ \A h \in Places : h # Place(t) => table'[h] = table[h]
      /\ backend = "memory" => Place(t) = ProcOf[t] /\ table'[Shared] = table[Shared]
      /\ backend # "memory" => Place(t) = Shared
      /\ \A p \in Procs : table'[p] # None => table'[p].distance = ShapeOf[p].distance
  BY <1>1, PutNone
<1>3. TypeOK'
  BY <1>2 DEF PgDrop, TypeOK, Goto, DropBegins, Shape, Table, Place, Places, Located
<1>4. AckedKept'
  BY <1>2 DEF PgDrop, AckedKept, Goto, DropBegins, Shape, Places, TypeOK, Table, Place
<1>5. Located'
  BY DEF PgDrop, Located, Goto, DropBegins, Shape, TypeOK
<1>6. Asked'
  BY <1>2 DEF PgDrop, Asked, Goto, DropBegins, Shape, TypeOK, Places
<1>7. CleanEnsure'
  BY DEF PgDrop, CleanEnsure
<1>8. KnownNoted'
  BY <1>2 DEF PgDrop, KnownNoted, Goto, DropBegins, Shape, TypeOK, Located, Asked, CleanEnsure, Places, Table, Place
<1>9. QED
  BY <1>2, <1>3, <1>4, <1>5, <1>6, <1>7, <1>8

\* The entry is forgotten after the drop.
LEMMA PgForgetIInv == ASSUME IInv, NEW t \in Threads, PgForget(t) PROVE IInv'
<1> USE TableAssumption, OrderLength, ShapeTypes DEF IInv
<1>1. TypeOK'
  BY DEF PgForget, TypeOK, Forget, Goto, Shape, Table, Place
<1>2. BatchesWhole'
  BY DEF PgForget, BatchesWhole, Forget, Goto, Shape, Places, TypeOK
<1>3. AckedKept'
  BY DEF PgForget, AckedKept, Forget, Goto, Shape, Places, TypeOK
<1>4. Located'
  BY DEF PgForget, Located, Forget, Goto, Shape, TypeOK
<1>5. Asked'
  BY DEF PgForget, Asked, Forget, Goto, Shape, TypeOK, Places
<1>6. CleanEnsure'
  BY DEF PgForget, CleanEnsure, Located
<1>7. KnownNoted'
  BY DEF PgForget, KnownNoted, Forget, Goto, Shape, TypeOK, Located, Asked, CleanEnsure, Places, Table, Place
<1>8. QED
  BY <1>1, <1>2, <1>3, <1>4, <1>5, <1>6, <1>7

\* ensure of LanceDB notes the distance first.
LEMMA LanceNoteIInv == ASSUME IInv, NEW t \in Threads, LanceNote(t) PROVE IInv'
<1> USE TableAssumption, OrderLength, ShapeTypes DEF IInv
<1>1. TypeOK'
  BY DEF LanceNote, TypeOK, Note, Goto, EnsureBegins, Shape, Table, Place
<1>2. BatchesWhole'
  BY DEF LanceNote, BatchesWhole, Note, Goto, EnsureBegins, Shape, Places, TypeOK
<1>3. AckedKept'
  BY DEF LanceNote, AckedKept, Note, Goto, EnsureBegins, Shape, Places, TypeOK
<1>4. Located'
  BY DEF LanceNote, Located, Note, Goto, EnsureBegins, Shape, TypeOK
<1>5. Asked'
  BY DEF LanceNote, Asked, Note, Goto, EnsureBegins, Shape, TypeOK, Places
<1>6. CleanEnsure'
  BY DEF LanceNote, CleanEnsure, Goto, EnsureBegins, Shape, TypeOK, Note
<1>7. KnownNoted'
  BY DEF LanceNote, KnownNoted, Note, Goto, EnsureBegins, Shape, TypeOK, Located, Asked, CleanEnsure, Places, Table, Place
<1>8. QED
  BY <1>1, <1>2, <1>3, <1>4, <1>5, <1>6, <1>7

\* ensure of LanceDB looks for the table.
LEMMA LanceListIInv == ASSUME IInv, NEW t \in Threads, LanceList(t) PROVE IInv'
<1> USE TableAssumption, OrderLength, ShapeTypes DEF IInv
<1>1. TypeOK'
  BY DEF LanceList, TypeOK, Goto, EnsureOk, Shape, Table, Place
<1>2. BatchesWhole'
  BY DEF LanceList, BatchesWhole, Goto, EnsureOk, Shape, Places, TypeOK
<1>3. AckedKept'
  BY DEF LanceList, AckedKept, Goto, EnsureOk, Shape, Places, TypeOK
<1>4. Located'
  BY DEF LanceList, Located, Goto, EnsureOk, Shape, TypeOK
<1>5. Asked'
  BY DEF LanceList, Asked, Goto, EnsureOk, Shape, TypeOK, Places
<1>6. CleanEnsure'
  BY DEF LanceList, CleanEnsure, Goto, EnsureOk, Shape, TypeOK, Located, Asked
<1>7. KnownNoted'
  BY DEF LanceList, KnownNoted, Goto, EnsureOk, Shape, TypeOK, Located, Asked, CleanEnsure, Places, Table, Place
<1>8. QED
  BY <1>1, <1>2, <1>3, <1>4, <1>5, <1>6, <1>7

\* Only a missing table is created.
LEMMA LanceCreateIInv == ASSUME IInv, NEW t \in Threads, LanceCreate(t) PROVE IInv'
<1> USE TableAssumption, OrderLength, ShapeTypes DEF IInv
<1> DEFINE x == IF Table(t) = None THEN Empty(Shape(t)) ELSE Table(t)
<1>1. Table(t) \in Tables \cup {None} /\ Place(t) \in Places
  BY DEF TypeOK, Table, Place, Places
<1>2. /\ x \in Tables /\ x # None
      /\ backend # "memory" => \A i, j \in Ids : x.recs[i] = x.recs[j]
      /\ backend = "memory" => x.distance = Shape(t).distance
      /\ Table(t) # None => x = Table(t)
  BY <1>1, EmptyTable DEF LanceCreate, TypeOK, Located, Table, Place, Places, BatchesWhole, Asked, Shape, Tables, Batches
<1>3. Put(t, x) /\ backend' = backend
  <2>1. CASE Table(t) = None
    BY <2>1 DEF LanceCreate
  <2>2. CASE Table(t) # None
    BY <1>1, <2>2 DEF LanceCreate, Put, TypeOK, Table
  <2>3. QED
    BY <2>1, <2>2
<1> HIDE DEF x
<1>4. /\ table' \in [Places -> Tables \cup {None}] /\ BatchesWhole'
      /\ table'[Place(t)] = x
      /\ \A h \in Places : table'[h] = None => table[h] = None
      /\ backend = "memory" => table'[Shared] = table[Shared]
      /\ backend # "memory" => Place(t) = Shared
      /\ \A p \in Procs : table'[p] # None => table'[p].distance = ShapeOf[p].distance
  BY <1>2, <1>3, PutTable
<1>5. TypeOK'
  <2>1. clean' \in [Threads -> BOOLEAN] /\ known' \in [Procs -> BOOLEAN]
    BY DEF LanceCreate, EnsureOk, TypeOK
  <2>2. \A u \in Threads : done'[u] > 0 => Table(u)' # None
    BY <1>4 DEF LanceCreate, TypeOK, Located, Table, Place, Places
  <2>3. QED
    BY <1>4, <2>1, <2>2 DEF LanceCreate, Goto, TypeOK
<1>6. AckedKept'
  BY <1>1, <1>2, <1>4 DEF LanceCreate, AckedKept, Goto, EnsureOk, Shape, Places, TypeOK, Table, Place
<1>7. Located'
  BY DEF LanceCreate, Located, Goto, EnsureOk, Shape, TypeOK
<1>8. Asked'
  BY <1>1, <1>2, <1>4 DEF LanceCreate, Asked, Goto, EnsureOk, Shape, TypeOK, Places
<1>9. CleanEnsure'
  BY DEF LanceCreate, CleanEnsure, Goto, EnsureOk, Shape, TypeOK, Located, Asked
<1>10. KnownNoted'
  <2> SUFFICES ASSUME NEW p \in Procs, known'[p] PROVE distances[p] # None
    BY DEF LanceCreate, KnownNoted
  <2>1. known[p] \/ (p = ProcOf[t] /\ clean[t])
    BY DEF LanceCreate, EnsureOk, TypeOK
  <2>2. CASE known[p]
    BY <2>2 DEF LanceCreate, KnownNoted
  <2>3. CASE p = ProcOf[t] /\ clean[t]
    <3>1. distances[p] = Shape(t).distance
      BY <2>3 DEF LanceCreate, CleanEnsure
    <3>2. QED
      BY <3>1
  <2>4. QED
    BY <2>1, <2>2, <2>3
<1>11. QED
  BY <1>4, <1>5, <1>6, <1>7, <1>8, <1>9, <1>10

\* A drop of LanceDB forgets first.
LEMMA LanceForgetIInv == ASSUME IInv, NEW t \in Threads, LanceForget(t) PROVE IInv'
<1> USE TableAssumption, OrderLength, ShapeTypes DEF IInv
<1>1. TypeOK'
  BY DEF LanceForget, TypeOK, Forget, Goto, DropBegins, Shape, Table, Place
<1>2. BatchesWhole'
  BY DEF LanceForget, BatchesWhole, Forget, Goto, DropBegins, Shape, Places, TypeOK
<1>3. AckedKept'
  BY DEF LanceForget, AckedKept, Forget, Goto, DropBegins, Shape, Places, TypeOK
<1>4. Located'
  BY DEF LanceForget, Located, Forget, Goto, DropBegins, Shape, TypeOK
<1>5. Asked'
  BY DEF LanceForget, Asked, Forget, Goto, DropBegins, Shape, TypeOK, Places
<1>6. CleanEnsure'
  BY DEF LanceForget, CleanEnsure, Forget, Goto, DropBegins, Shape, TypeOK, Located, Asked
<1>7. KnownNoted'
  BY DEF LanceForget, KnownNoted, Forget, Goto, DropBegins, Shape, TypeOK, Located, Asked, CleanEnsure, Places, Table, Place
<1>8. QED
  BY <1>1, <1>2, <1>3, <1>4, <1>5, <1>6, <1>7

\* The table of LanceDB is dropped with its records.
LEMMA LanceDropIInv == ASSUME IInv, NEW t \in Threads, LanceDrop(t) PROVE IInv'
<1> USE TableAssumption, OrderLength, ShapeTypes DEF IInv
<1>1. Put(t, None) /\ backend' = backend
  BY DEF LanceDrop
<1>2. /\ table' \in [Places -> Tables \cup {None}] /\ BatchesWhole'
      /\ \A h \in Places : h # Place(t) => table'[h] = table[h]
      /\ backend = "memory" => Place(t) = ProcOf[t] /\ table'[Shared] = table[Shared]
      /\ backend # "memory" => Place(t) = Shared
      /\ \A p \in Procs : table'[p] # None => table'[p].distance = ShapeOf[p].distance
  BY <1>1, PutNone
<1>3. TypeOK'
  BY <1>2 DEF LanceDrop, TypeOK, Goto, Shape, Table, Place, Places, Located
<1>4. AckedKept'
  BY <1>2 DEF LanceDrop, AckedKept, Goto, Shape, Places, TypeOK, Table, Place
<1>5. Located'
  BY DEF LanceDrop, Located, Goto, Shape, TypeOK
<1>6. Asked'
  BY <1>2 DEF LanceDrop, Asked, Goto, Shape, TypeOK, Places
<1>7. CleanEnsure'
  BY DEF LanceDrop, CleanEnsure, Goto, Shape, TypeOK, Located, Asked
<1>8. KnownNoted'
  BY <1>2 DEF LanceDrop, KnownNoted, Goto, Shape, TypeOK, Located, Asked, CleanEnsure, Places, Table, Place
<1>9. QED
  BY <1>2, <1>3, <1>4, <1>5, <1>6, <1>7, <1>8

\* A transaction begins.
LEMMA PgBeginIInv == ASSUME IInv, NEW t \in Threads, NEW b \in Batches, PgBegin(t, b) PROVE IInv'
<1> USE TableAssumption, OrderLength, ShapeTypes DEF IInv
<1>1. TypeOK'
  BY DEF PgBegin, TypeOK, Goto, Shape, Table, Place
<1>2. BatchesWhole'
  BY DEF PgBegin, BatchesWhole, Goto, Shape, Places, TypeOK
<1>3. AckedKept'
  BY DEF PgBegin, AckedKept, Goto, Shape, Places, TypeOK
<1>4. Located'
  BY DEF PgBegin, Located, Goto, Shape, TypeOK
<1>5. Asked'
  BY DEF PgBegin, Asked, Goto, Shape, TypeOK, Places
<1>6. CleanEnsure'
  BY DEF PgBegin, CleanEnsure, Goto, Shape, TypeOK, Located, Asked
<1>7. KnownNoted'
  BY DEF PgBegin, KnownNoted, Goto, Shape, TypeOK, Located, Asked, CleanEnsure, Places, Table, Place
<1>8. QED
  BY <1>1, <1>2, <1>3, <1>4, <1>5, <1>6, <1>7

\* A row is inserted into the table, which no other transaction sees.
LEMMA PgInsertIInv == ASSUME IInv, NEW t \in Threads, PgInsert(t) PROVE IInv'
<1> USE TableAssumption, OrderLength, ShapeTypes DEF IInv
<1>1. TypeOK'
  BY DEF PgInsert, TypeOK, Ready, Shape, Table, Place
<1>2. BatchesWhole'
  BY DEF PgInsert, BatchesWhole, Ready, Shape, Places, TypeOK
<1>3. AckedKept'
  BY DEF PgInsert, AckedKept, Ready, Shape, Places, TypeOK
<1>4. Located'
  BY DEF PgInsert, Located, Ready, Shape, TypeOK
<1>5. Asked'
  BY DEF PgInsert, Asked, Ready, Shape, TypeOK, Places
<1>6. CleanEnsure'
  BY DEF PgInsert, CleanEnsure, Ready, Shape, TypeOK, Located, Asked
<1>7. KnownNoted'
  BY DEF PgInsert, KnownNoted, Ready, Shape, TypeOK, Located, Asked, CleanEnsure, Places, Table, Place
<1>8. QED
  BY <1>1, <1>2, <1>3, <1>4, <1>5, <1>6, <1>7

\* A transaction commits its whole batch.
LEMMA PgCommitIInv == ASSUME IInv, NEW t \in Threads, PgCommit(t) PROVE IInv'
<1> USE TableAssumption, OrderLength, ShapeTypes DEF IInv
<1> DEFINE x == Written(Table(t), Len(Order), batch[t].val)
<1>1. Table(t) \in Tables \cup {None} /\ Place(t) \in Places
  BY DEF TypeOK, Table, Place, Places
<1>2. /\ x \in Tables /\ x # None
      /\ backend # "memory" => \A i, j \in Ids : x.recs[i] = x.recs[j]
      /\ backend = "memory" => x.distance = Shape(t).distance
      /\ batch[t].val \in Vals /\ \A i \in Ids : x.recs[i] = batch[t].val
  <2>1. Table(t) \in Tables /\ batch[t].val \in Vals
    BY <1>1 DEF PgCommit, TypeOK, Batches
  <2>2. backend # "memory"
    BY DEF PgCommit, Located
  <2>3. QED
    BY <2>1, <2>2, WrittenTable, WrittenWhole
<1>3. Put(t, x) /\ backend' = backend
  BY DEF PgCommit
<1> HIDE DEF x
<1>4. /\ table' \in [Places -> Tables \cup {None}] /\ BatchesWhole'
      /\ table'[Place(t)] = x
      /\ \A h \in Places : table'[h] = None => table[h] = None
      /\ backend = "memory" => table'[Shared] = table[Shared]
      /\ backend # "memory" => Place(t) = Shared
      /\ \A p \in Procs : table'[p] # None => table'[p].distance = ShapeOf[p].distance
  BY <1>2, <1>3, PutTable
<1>5. TypeOK'
  BY <1>1, <1>2, <1>4 DEF PgCommit, TypeOK, Goto, Shape, Table, Place, Places, Located
<1>6. AckedKept'
  BY <1>2, <1>4 DEF PgCommit, AckedKept, Located
<1>7. Located'
  BY DEF PgCommit, Located, Goto, Shape, TypeOK
<1>8. Asked'
  BY <1>1, <1>2, <1>4 DEF PgCommit, Asked, Goto, Shape, TypeOK, Places
<1>9. CleanEnsure'
  BY DEF PgCommit, CleanEnsure, Goto, Shape, TypeOK, Located, Asked
<1>10. KnownNoted'
  BY <1>1, <1>2, <1>4 DEF PgCommit, KnownNoted, Goto, Shape, TypeOK, Located, Asked, CleanEnsure, Places, Table, Place
<1>11. QED
  BY <1>4, <1>5, <1>6, <1>7, <1>8, <1>9, <1>10

\* LanceDB opens the table.
LEMMA LanceOpenIInv == ASSUME IInv, NEW t \in Threads, NEW b \in Batches, LanceOpen(t, b) PROVE IInv'
<1> USE TableAssumption, OrderLength, ShapeTypes DEF IInv
<1>1. TypeOK'
  BY DEF LanceOpen, TypeOK, Goto, Shape, Table, Place
<1>2. BatchesWhole'
  BY DEF LanceOpen, BatchesWhole, Goto, Shape, Places, TypeOK
<1>3. AckedKept'
  BY DEF LanceOpen, AckedKept, Goto, Shape, Places, TypeOK
<1>4. Located'
  BY DEF LanceOpen, Located, Goto, Shape, TypeOK
<1>5. Asked'
  BY DEF LanceOpen, Asked, Goto, Shape, TypeOK, Places
<1>6. CleanEnsure'
  BY DEF LanceOpen, CleanEnsure, Goto, Shape, TypeOK, Located, Asked
<1>7. KnownNoted'
  BY DEF LanceOpen, KnownNoted, Goto, Shape, TypeOK, Located, Asked, CleanEnsure, Places, Table, Place
<1>8. QED
  BY <1>1, <1>2, <1>3, <1>4, <1>5, <1>6, <1>7

\* LanceDB merges a batch as a whole.
LEMMA LanceMergeIInv == ASSUME IInv, NEW t \in Threads, LanceMerge(t) PROVE IInv'
<1> USE TableAssumption, OrderLength, ShapeTypes DEF IInv
<1> DEFINE x == Written(Table(t), Len(Order), batch[t].val)
<1>1. Table(t) \in Tables \cup {None} /\ Place(t) \in Places
  BY DEF TypeOK, Table, Place, Places
<1>2. /\ x \in Tables /\ x # None
      /\ backend # "memory" => \A i, j \in Ids : x.recs[i] = x.recs[j]
      /\ backend = "memory" => x.distance = Shape(t).distance
      /\ batch[t].val \in Vals /\ \A i \in Ids : x.recs[i] = batch[t].val
  <2>1. Table(t) \in Tables /\ batch[t].val \in Vals
    BY <1>1 DEF LanceMerge, TypeOK, Batches
  <2>2. backend # "memory"
    BY DEF LanceMerge, Located
  <2>3. QED
    BY <2>1, <2>2, WrittenTable, WrittenWhole
<1>3. Put(t, x) /\ backend' = backend
  BY DEF LanceMerge
<1> HIDE DEF x
<1>4. /\ table' \in [Places -> Tables \cup {None}] /\ BatchesWhole'
      /\ table'[Place(t)] = x
      /\ \A h \in Places : table'[h] = None => table[h] = None
      /\ backend = "memory" => table'[Shared] = table[Shared]
      /\ backend # "memory" => Place(t) = Shared
      /\ \A p \in Procs : table'[p] # None => table'[p].distance = ShapeOf[p].distance
  BY <1>2, <1>3, PutTable
<1>5. TypeOK'
  BY <1>1, <1>2, <1>4 DEF LanceMerge, TypeOK, Goto, Shape, Table, Place, Places, Located
<1>6. AckedKept'
  BY <1>2, <1>4 DEF LanceMerge, AckedKept, Located
<1>7. Located'
  BY DEF LanceMerge, Located, Goto, Shape, TypeOK
<1>8. Asked'
  BY <1>1, <1>2, <1>4 DEF LanceMerge, Asked, Goto, Shape, TypeOK, Places
<1>9. CleanEnsure'
  BY DEF LanceMerge, CleanEnsure, Goto, Shape, TypeOK, Located, Asked
<1>10. KnownNoted'
  BY <1>1, <1>2, <1>4 DEF LanceMerge, KnownNoted, Goto, Shape, TypeOK, Located, Asked, CleanEnsure, Places, Table, Place
<1>11. QED
  BY <1>4, <1>5, <1>6, <1>7, <1>8, <1>9, <1>10

\* A delete of all records leaves an empty table.
LEMMA TableDeleteIInv == ASSUME IInv, NEW t \in Threads, TableDelete(t) PROVE IInv'
<1> USE TableAssumption, OrderLength, ShapeTypes DEF IInv
<1> DEFINE x == Empty(Table(t))
<1>1. Table(t) \in Tables \cup {None} /\ Place(t) \in Places
  BY DEF TypeOK, Table, Place, Places
<1>2. /\ x \in Tables /\ x # None
      /\ backend # "memory" => \A i, j \in Ids : x.recs[i] = x.recs[j]
      /\ backend = "memory" => x.distance = Shape(t).distance
  BY <1>1, EmptyTable DEF TableDelete, TypeOK, Located, Table, Place, Places, BatchesWhole, Asked, Shape, Tables, Batches
<1>3. Put(t, x) /\ backend' = backend
  BY DEF TableDelete
<1> HIDE DEF x
<1>4. /\ table' \in [Places -> Tables \cup {None}] /\ BatchesWhole'
      /\ table'[Place(t)] = x
      /\ \A h \in Places : table'[h] = None => table[h] = None
      /\ backend = "memory" => table'[Shared] = table[Shared]
      /\ backend # "memory" => Place(t) = Shared
      /\ \A p \in Procs : table'[p] # None => table'[p].distance = ShapeOf[p].distance
  BY <1>2, <1>3, PutTable
<1>5. TypeOK'
  BY <1>1, <1>2, <1>4 DEF TableDelete, TypeOK, Shape, Table, Place, Places, Located
<1>6. AckedKept'
  BY <1>1, <1>2, <1>4 DEF TableDelete, AckedKept, Shape, Places, TypeOK, Table, Place
<1>7. Located'
  BY DEF TableDelete, Located, Shape, TypeOK
<1>8. Asked'
  BY <1>1, <1>2, <1>4 DEF TableDelete, Asked, Shape, TypeOK, Places
<1>9. CleanEnsure'
  BY DEF TableDelete, CleanEnsure, Shape, TypeOK, Located, Asked
<1>10. KnownNoted'
  BY <1>1, <1>2, <1>4 DEF TableDelete, KnownNoted, Shape, TypeOK, Located, Asked, CleanEnsure, Places, Table, Place
<1>11. QED
  BY <1>4, <1>5, <1>6, <1>7, <1>8, <1>9, <1>10

\* The client of the server looks for the collection.
LEMMA QdrantExistsIInv == ASSUME IInv, NEW t \in Threads, QdrantExists(t) PROVE IInv'
<1> USE TableAssumption, OrderLength, ShapeTypes DEF IInv
<1>1. TypeOK'
  BY DEF QdrantExists, TypeOK, Goto, Shape, Table, Place
<1>2. BatchesWhole'
  BY DEF QdrantExists, BatchesWhole, Goto, Shape, Places, TypeOK
<1>3. AckedKept'
  BY DEF QdrantExists, AckedKept, Goto, Shape, Places, TypeOK
<1>4. Located'
  BY DEF QdrantExists, Located, Goto, Shape, TypeOK
<1>5. Asked'
  BY DEF QdrantExists, Asked, Goto, Shape, TypeOK, Places
<1>6. CleanEnsure'
  BY DEF QdrantExists, CleanEnsure, Goto, Shape, TypeOK, Located, Asked
<1>7. KnownNoted'
  BY DEF QdrantExists, KnownNoted, Goto, Shape, TypeOK, Located, Asked, CleanEnsure, Places, Table, Place
<1>8. QED
  BY <1>1, <1>2, <1>3, <1>4, <1>5, <1>6, <1>7

\* Only a missing collection is created.
LEMMA QdrantCreateIInv == ASSUME IInv, NEW t \in Threads, QdrantCreate(t) PROVE IInv'
<1> USE TableAssumption, OrderLength, ShapeTypes DEF IInv
<1> DEFINE x == Empty(Shape(t))
<1>1. Table(t) \in Tables \cup {None} /\ Place(t) \in Places
  BY DEF TypeOK, Table, Place, Places
<1>2. /\ x \in Tables /\ x # None
      /\ backend # "memory" => \A i, j \in Ids : x.recs[i] = x.recs[j]
      /\ backend = "memory" => x.distance = Shape(t).distance
  BY <1>1, EmptyTable DEF QdrantCreate, TypeOK, Located, Table, Place, Places, BatchesWhole, Asked, Shape, Tables, Batches
<1>3. Put(t, x) /\ backend' = backend
  BY DEF QdrantCreate
<1> HIDE DEF x
<1>4. /\ table' \in [Places -> Tables \cup {None}] /\ BatchesWhole'
      /\ table'[Place(t)] = x
      /\ \A h \in Places : table'[h] = None => table[h] = None
      /\ backend = "memory" => table'[Shared] = table[Shared]
      /\ backend # "memory" => Place(t) = Shared
      /\ \A p \in Procs : table'[p] # None => table'[p].distance = ShapeOf[p].distance
  BY <1>2, <1>3, PutTable
<1>5. TypeOK'
  BY <1>1, <1>2, <1>4 DEF QdrantCreate, TypeOK, Goto, Shape, Table, Place, Places, Located
<1>6. AckedKept'
  BY <1>1, <1>2, <1>4 DEF QdrantCreate, AckedKept, Goto, Shape, Places, TypeOK, Table, Place
<1>7. Located'
  BY DEF QdrantCreate, Located, Goto, Shape, TypeOK
<1>8. Asked'
  BY <1>1, <1>2, <1>4 DEF QdrantCreate, Asked, Goto, Shape, TypeOK, Places
<1>9. CleanEnsure'
  BY DEF QdrantCreate, CleanEnsure, Goto, Shape, TypeOK, Located, Asked
<1>10. KnownNoted'
  BY <1>1, <1>2, <1>4 DEF QdrantCreate, KnownNoted, Goto, Shape, TypeOK, Located, Asked, CleanEnsure, Places, Table, Place
<1>11. QED
  BY <1>4, <1>5, <1>6, <1>7, <1>8, <1>9, <1>10

\* The server drops the collection with its records.
LEMMA QdrantDropIInv == ASSUME IInv, NEW t \in Threads, QdrantDrop(t) PROVE IInv'
<1> USE TableAssumption, OrderLength, ShapeTypes DEF IInv
<1>1. Put(t, None) /\ backend' = backend
  BY DEF QdrantDrop
<1>2. /\ table' \in [Places -> Tables \cup {None}] /\ BatchesWhole'
      /\ \A h \in Places : h # Place(t) => table'[h] = table[h]
      /\ backend = "memory" => Place(t) = ProcOf[t] /\ table'[Shared] = table[Shared]
      /\ backend # "memory" => Place(t) = Shared
      /\ \A p \in Procs : table'[p] # None => table'[p].distance = ShapeOf[p].distance
  BY <1>1, PutNone
<1>3. TypeOK'
  BY <1>2 DEF QdrantDrop, TypeOK, Shape, Table, Place, Places, Located
<1>4. AckedKept'
  BY <1>2 DEF QdrantDrop, AckedKept, Shape, Places, TypeOK, Table, Place
<1>5. Located'
  BY DEF QdrantDrop, Located, Shape, TypeOK
<1>6. Asked'
  BY <1>2 DEF QdrantDrop, Asked, Shape, TypeOK, Places
<1>7. CleanEnsure'
  BY DEF QdrantDrop, CleanEnsure, Shape, TypeOK, Located, Asked
<1>8. KnownNoted'
  BY <1>2 DEF QdrantDrop, KnownNoted, Shape, TypeOK, Located, Asked, CleanEnsure, Places, Table, Place
<1>9. QED
  BY <1>2, <1>3, <1>4, <1>5, <1>6, <1>7, <1>8

\* The server applies a batch as a whole.
LEMMA QdrantUpsertIInv == ASSUME IInv, NEW t \in Threads, NEW b \in Batches, QdrantUpsert(t, b) PROVE IInv'
<1> USE TableAssumption, OrderLength, ShapeTypes DEF IInv
<1> DEFINE x == Written(Table(t), Len(Order), b.val)
<1>1. Table(t) \in Tables \cup {None} /\ Place(t) \in Places
  BY DEF TypeOK, Table, Place, Places
<1>2. /\ x \in Tables /\ x # None
      /\ backend # "memory" => \A i, j \in Ids : x.recs[i] = x.recs[j]
      /\ backend = "memory" => x.distance = Shape(t).distance
      /\ b.val \in Vals /\ \A i \in Ids : x.recs[i] = b.val
  <2>1. Table(t) \in Tables /\ b.val \in Vals
    BY <1>1 DEF QdrantUpsert, Batches
  <2>2. backend # "memory"
    BY DEF QdrantUpsert
  <2>3. QED
    BY <2>1, <2>2, WrittenTable, WrittenWhole
<1>3. Put(t, x) /\ backend' = backend
  BY DEF QdrantUpsert
<1> HIDE DEF x
<1>4. /\ table' \in [Places -> Tables \cup {None}] /\ BatchesWhole'
      /\ table'[Place(t)] = x
      /\ \A h \in Places : table'[h] = None => table[h] = None
      /\ backend = "memory" => table'[Shared] = table[Shared]
      /\ backend # "memory" => Place(t) = Shared
      /\ \A p \in Procs : table'[p] # None => table'[p].distance = ShapeOf[p].distance
  BY <1>2, <1>3, PutTable
<1>5. TypeOK'
  BY <1>1, <1>2, <1>4 DEF QdrantUpsert, TypeOK, Shape, Table, Place, Places, Located
<1>6. AckedKept'
  BY <1>1, <1>2, <1>4 DEF QdrantUpsert, AckedKept, Shape, Places, TypeOK, Table, Place
<1>7. Located'
  BY DEF QdrantUpsert, Located, Shape, TypeOK
<1>8. Asked'
  BY <1>1, <1>2, <1>4 DEF QdrantUpsert, Asked, Shape, TypeOK, Places
<1>9. CleanEnsure'
  BY DEF QdrantUpsert, CleanEnsure, Shape, TypeOK, Located, Asked
<1>10. KnownNoted'
  BY <1>1, <1>2, <1>4 DEF QdrantUpsert, KnownNoted, Shape, TypeOK, Located, Asked, CleanEnsure, Places, Table, Place
<1>11. QED
  BY <1>4, <1>5, <1>6, <1>7, <1>8, <1>9, <1>10

\* The memory store creates a collection of its own process.
LEMMA MemoryEnsureIInv == ASSUME IInv, NEW t \in Threads, MemoryEnsure(t) PROVE IInv'
<1> USE TableAssumption, OrderLength, ShapeTypes DEF IInv
<1> DEFINE x == Empty(Shape(t))
<1>1. Table(t) \in Tables \cup {None} /\ Place(t) \in Places
  BY DEF TypeOK, Table, Place, Places
<1>2. /\ x \in Tables /\ x # None
      /\ backend # "memory" => \A i, j \in Ids : x.recs[i] = x.recs[j]
      /\ backend = "memory" => x.distance = Shape(t).distance
  BY <1>1, EmptyTable DEF MemoryEnsure, TypeOK, Located, Table, Place, Places, BatchesWhole, Asked, Shape, Tables, Batches
<1>3. Put(t, x) /\ backend' = backend
  BY DEF MemoryEnsure
<1> HIDE DEF x
<1>4. /\ table' \in [Places -> Tables \cup {None}] /\ BatchesWhole'
      /\ table'[Place(t)] = x
      /\ \A h \in Places : table'[h] = None => table[h] = None
      /\ backend = "memory" => table'[Shared] = table[Shared]
      /\ backend # "memory" => Place(t) = Shared
      /\ \A p \in Procs : table'[p] # None => table'[p].distance = ShapeOf[p].distance
  BY <1>2, <1>3, PutTable
<1>5. TypeOK'
  BY <1>1, <1>2, <1>4 DEF MemoryEnsure, TypeOK, Shape, Table, Place, Places, Located
<1>6. AckedKept'
  BY <1>1, <1>2, <1>4 DEF MemoryEnsure, AckedKept, Shape, Places, TypeOK, Table, Place
<1>7. Located'
  BY DEF MemoryEnsure, Located, Shape, TypeOK
<1>8. Asked'
  BY <1>1, <1>2, <1>4 DEF MemoryEnsure, Asked, Shape, TypeOK, Places
<1>9. CleanEnsure'
  BY DEF MemoryEnsure, CleanEnsure, Shape, TypeOK, Located, Asked
<1>10. KnownNoted'
  BY <1>1, <1>2, <1>4 DEF MemoryEnsure, KnownNoted, Shape, TypeOK, Located, Asked, CleanEnsure, Places, Table, Place
<1>11. QED
  BY <1>4, <1>5, <1>6, <1>7, <1>8, <1>9, <1>10

\* The memory store drops it.
LEMMA MemoryDropIInv == ASSUME IInv, NEW t \in Threads, MemoryDrop(t) PROVE IInv'
<1> USE TableAssumption, OrderLength, ShapeTypes DEF IInv
<1>1. Put(t, None) /\ backend' = backend
  BY DEF MemoryDrop
<1>2. /\ table' \in [Places -> Tables \cup {None}] /\ BatchesWhole'
      /\ \A h \in Places : h # Place(t) => table'[h] = table[h]
      /\ backend = "memory" => Place(t) = ProcOf[t] /\ table'[Shared] = table[Shared]
      /\ backend # "memory" => Place(t) = Shared
      /\ \A p \in Procs : table'[p] # None => table'[p].distance = ShapeOf[p].distance
  BY <1>1, PutNone
<1>3. TypeOK'
  BY <1>2 DEF MemoryDrop, TypeOK, Shape, Table, Place, Places, Located
<1>4. AckedKept'
  BY <1>2 DEF MemoryDrop, AckedKept, Shape, Places, TypeOK, Table, Place
<1>5. Located'
  BY DEF MemoryDrop, Located, Shape, TypeOK
<1>6. Asked'
  BY <1>2 DEF MemoryDrop, Asked, Shape, TypeOK, Places
<1>7. CleanEnsure'
  BY DEF MemoryDrop, CleanEnsure, Shape, TypeOK, Located, Asked
<1>8. KnownNoted'
  BY <1>2 DEF MemoryDrop, KnownNoted, Shape, TypeOK, Located, Asked, CleanEnsure, Places, Table, Place
<1>9. QED
  BY <1>2, <1>3, <1>4, <1>5, <1>6, <1>7, <1>8

\* The memory store may write the first part of a batch: no other process sees it.
LEMMA MemoryUpsertIInv == ASSUME IInv, NEW t \in Threads, NEW b \in Batches, MemoryUpsert(t, b) PROVE IInv'
<1> USE TableAssumption, OrderLength, ShapeTypes DEF IInv
<1> PICK n \in Fitting(t, b) : Put(t, Written(Table(t), n, b.val))
  BY DEF MemoryUpsert
<1> DEFINE x == Written(Table(t), n, b.val)
<1>1. Table(t) \in Tables \cup {None} /\ Place(t) \in Places
  BY DEF TypeOK, Table, Place, Places
<1>2. /\ x \in Tables /\ x # None
      /\ backend # "memory" => \A i, j \in Ids : x.recs[i] = x.recs[j]
      /\ backend = "memory" => x.distance = Shape(t).distance
  BY <1>1, WrittenTable, WrittenWhole DEF MemoryUpsert, TypeOK, Located, Table, Place, Places, BatchesWhole, Asked, Shape, Tables, Batches
<1>3. Put(t, x) /\ backend' = backend
  BY DEF MemoryUpsert
<1> HIDE DEF x
<1>4. /\ table' \in [Places -> Tables \cup {None}] /\ BatchesWhole'
      /\ table'[Place(t)] = x
      /\ \A h \in Places : table'[h] = None => table[h] = None
      /\ backend = "memory" => table'[Shared] = table[Shared]
      /\ backend # "memory" => Place(t) = Shared
      /\ \A p \in Procs : table'[p] # None => table'[p].distance = ShapeOf[p].distance
  BY <1>2, <1>3, PutTable
<1>5. TypeOK'
  BY <1>1, <1>2, <1>4 DEF MemoryUpsert, TypeOK, Shape, Fitting, Table, Place, Places, Located
<1>6. AckedKept'
  BY <1>1, <1>2, <1>4 DEF MemoryUpsert, AckedKept, Shape, Fitting, Places, TypeOK, Table, Place
<1>7. Located'
  BY DEF MemoryUpsert, Located, Shape, Fitting, TypeOK
<1>8. Asked'
  BY <1>1, <1>2, <1>4 DEF MemoryUpsert, Asked, Shape, Fitting, TypeOK, Places
<1>9. CleanEnsure'
  BY DEF MemoryUpsert, CleanEnsure, Shape, Fitting, TypeOK, Located, Asked
<1>10. KnownNoted'
  BY <1>1, <1>2, <1>4 DEF MemoryUpsert, KnownNoted, Shape, Fitting, TypeOK, Located, Asked, CleanEnsure, Places, Table, Place
<1>11. QED
  BY <1>4, <1>5, <1>6, <1>7, <1>8, <1>9, <1>10

\* The memory store deletes the records.
LEMMA MemoryDeleteIInv == ASSUME IInv, NEW t \in Threads, MemoryDelete(t) PROVE IInv'
<1> USE TableAssumption, OrderLength, ShapeTypes DEF IInv
<1> DEFINE x == Empty(Table(t))
<1>1. Table(t) \in Tables \cup {None} /\ Place(t) \in Places
  BY DEF TypeOK, Table, Place, Places
<1>2. /\ x \in Tables /\ x # None
      /\ backend # "memory" => \A i, j \in Ids : x.recs[i] = x.recs[j]
      /\ backend = "memory" => x.distance = Shape(t).distance
  BY <1>1, EmptyTable DEF MemoryDelete, TypeOK, Located, Table, Place, Places, BatchesWhole, Asked, Shape, Tables, Batches
<1>3. Put(t, x) /\ backend' = backend
  BY DEF MemoryDelete
<1> HIDE DEF x
<1>4. /\ table' \in [Places -> Tables \cup {None}] /\ BatchesWhole'
      /\ table'[Place(t)] = x
      /\ \A h \in Places : table'[h] = None => table[h] = None
      /\ backend = "memory" => table'[Shared] = table[Shared]
      /\ backend # "memory" => Place(t) = Shared
      /\ \A p \in Procs : table'[p] # None => table'[p].distance = ShapeOf[p].distance
  BY <1>2, <1>3, PutTable
<1>5. TypeOK'
  BY <1>1, <1>2, <1>4 DEF MemoryDelete, TypeOK, Shape, Table, Place, Places, Located
<1>6. AckedKept'
  BY <1>1, <1>2, <1>4 DEF MemoryDelete, AckedKept, Shape, Places, TypeOK, Table, Place
<1>7. Located'
  BY DEF MemoryDelete, Located, Shape, TypeOK
<1>8. Asked'
  BY <1>1, <1>2, <1>4 DEF MemoryDelete, Asked, Shape, TypeOK, Places
<1>9. CleanEnsure'
  BY DEF MemoryDelete, CleanEnsure, Shape, TypeOK, Located, Asked
<1>10. KnownNoted'
  BY <1>1, <1>2, <1>4 DEF MemoryDelete, KnownNoted, Shape, TypeOK, Located, Asked, CleanEnsure, Places, Table, Place
<1>11. QED
  BY <1>4, <1>5, <1>6, <1>7, <1>8, <1>9, <1>10

\* A call that fails has changed nothing the others rely on.
LEMMA FailIInv == ASSUME IInv, NEW t \in Threads, Fail(t) PROVE IInv'
<1> USE TableAssumption, OrderLength, ShapeTypes DEF IInv
<1>1. TypeOK'
  BY DEF Fail, TypeOK, Goto, Shape, Table, Place
<1>2. BatchesWhole'
  BY DEF Fail, BatchesWhole, Goto, Shape, Places, TypeOK
<1>3. AckedKept'
  BY DEF Fail, AckedKept, Goto, Shape, Places, TypeOK
<1>4. Located'
  BY DEF Fail, Located, Goto, Shape, TypeOK
<1>5. Asked'
  BY DEF Fail, Asked, Goto, Shape, TypeOK, Places
<1>6. CleanEnsure'
  BY DEF Fail, CleanEnsure, Goto, Shape, TypeOK, Located, Asked
<1>7. KnownNoted'
  BY DEF Fail, KnownNoted, Goto, Shape, TypeOK, Located, Asked, CleanEnsure, Places, Table, Place
<1>8. QED
  BY <1>1, <1>2, <1>3, <1>4, <1>5, <1>6, <1>7

\* A process that restarts forgets what it noted and its own tables; the shared
\* table stays.
LEMMA RestartIInv == ASSUME IInv, NEW p \in Procs, Restart(p) PROVE IInv'
<1> USE TableAssumption, OrderLength, ShapeTypes DEF IInv
<1>1. /\ table' \in [Places -> Tables \cup {None}] /\ p \in Places /\ p # Shared
      /\ \A h \in Places : table'[h] = IF h = p THEN None ELSE table[h]
  BY DEF Restart, TypeOK, Places
<1>2. /\ \A t \in Threads : ProcOf[t] = p =>
            pc'[t] = "idle" /\ batch'[t] = None /\ done'[t] = 0 /\ ~clean'[t]
      /\ \A t \in Threads : ProcOf[t] # p =>
            /\ pc'[t] = pc[t] /\ batch'[t] = batch[t] /\ done'[t] = done[t]
            /\ clean'[t] <=> clean[t]
      /\ ~known'[p] /\ distances'[p] = None
      /\ \A r \in Procs \ {p} : distances'[r] = distances[r] /\ (known'[r] <=> known[r])
  BY DEF Restart, TypeOK
<1>3. TypeOK'
  <2>1. \A t \in Threads : done'[t] > 0 => Table(t)' # None
    BY <1>1, <1>2 DEF Restart, TypeOK, Located, Table, Place, Places
  <2>2. clean' \in [Threads -> BOOLEAN] /\ known' \in [Procs -> BOOLEAN]
    BY DEF Restart, TypeOK
  <2>3. distances' \in [Procs -> Distances \cup {None}]
    BY DEF Restart, TypeOK
  <2>4. batch' \in [Threads -> Batches \cup {None}] /\ done' \in [Threads -> 0 .. Len(Order)]
    BY DEF Restart, TypeOK
  <2>5. pc' \in [Threads -> {"idle", "note", "forget", "list", "create", "drop",
                             "insert", "merge"}]
    BY DEF Restart, TypeOK
  <2>6. \A t \in Threads : /\ batch'[t] # None <=> pc'[t] \in {"insert", "merge"}
                           /\ done'[t] > 0 => pc'[t] = "insert"
    BY <1>2 DEF TypeOK
  <2>7. QED
    BY <1>1, <2>1, <2>2, <2>3, <2>4, <2>5, <2>6 DEF Restart, TypeOK
<1>4. BatchesWhole'
  BY <1>1 DEF Restart, BatchesWhole
<1>5. AckedKept'
  BY <1>1 DEF Restart, AckedKept, Places
<1>6. Located'
  BY <1>2 DEF Restart, Located
<1>7. Asked'
  BY <1>1, <1>2 DEF Restart, Asked, Places
<1>8. CleanEnsure'
  BY <1>2 DEF Restart, CleanEnsure, Shape
<1>9. KnownNoted'
  BY <1>1, <1>2 DEF Restart, KnownNoted, Places
<1>10. QED
  BY <1>3, <1>4, <1>5, <1>6, <1>7, <1>8, <1>9

LEMMA StutterIInv == ASSUME IInv, UNCHANGED vars PROVE IInv'
BY DEF IInv, vars, TypeOK, BatchesWhole, AckedKept, Located, Asked, CleanEnsure, KnownNoted,
    Table, Place, Shape

\* The inductive invariant holds in every reachable state.
THEOREM Invariance == Spec => []IInv
<1>1. IInv /\ [Next]_vars => IInv'
  <2> SUFFICES ASSUME IInv, [Next]_vars PROVE IInv'
    OBVIOUS
  <2>1. ASSUME NEW t \in Threads, Pg(t) PROVE IInv'
    BY <2>1, PgCreateIInv, PgNoteIInv, PgDropIInv, PgForgetIInv, PgBeginIInv, PgInsertIInv,
       PgCommitIInv DEF Pg
  <2>2. ASSUME NEW t \in Threads, Lance(t) PROVE IInv'
    BY <2>2, LanceNoteIInv, LanceListIInv, LanceCreateIInv, LanceForgetIInv, LanceDropIInv,
       LanceOpenIInv, LanceMergeIInv DEF Lance
  <2>3. ASSUME NEW t \in Threads, Server(t) PROVE IInv'
    BY <2>3, QdrantExistsIInv, QdrantCreateIInv, QdrantDropIInv, QdrantUpsertIInv DEF Server
  <2>4. ASSUME NEW t \in Threads, Memory(t) PROVE IInv'
    BY <2>4, MemoryEnsureIInv, MemoryDropIInv, MemoryDeleteIInv, MemoryUpsertIInv DEF Memory
  <2>5. ASSUME NEW t \in Threads, TableDelete(t) \/ Fail(t) PROVE IInv'
    BY <2>5, TableDeleteIInv, FailIInv
  <2>6. ASSUME NEW p \in Procs, Restart(p) PROVE IInv'
    BY <2>6, RestartIInv
  <2>7. CASE UNCHANGED vars
    BY <2>7, StutterIInv
  <2>8. QED
    BY <2>1, <2>2, <2>3, <2>4, <2>5, <2>6, <2>7 DEF Next
<1>2. QED
  BY InitIInv, <1>1, PTL DEF Spec

\* The variables keep their types, and a transaction that has inserted records has
\* its table until it ends: DROP TABLE waits for it.
THEOREM TypeCorrect == Spec => []TypeOK
<1>1. IInv => TypeOK
  BY DEF IInv
<1>2. QED
  BY <1>1, Invariance, PTL

\* Records that were upserted together are found together in every shared table.
THEOREM BatchesAreWhole == Spec => []BatchesWhole
<1>1. IInv => BatchesWhole
  BY DEF IInv
<1>2. QED
  BY <1>1, Invariance, PTL

\* An acknowledged batch is found until a delete, a drop or another upsert.
THEOREM AckedAreKept == Spec => []AckedKept
<1>1. IInv => AckedKept
  BY DEF IInv
<1>2. QED
  BY <1>1, Invariance, PTL

\* After an ensure during which it began no drop a process searches with the distance it
\* asked for, until a drop of its own begins or ends; otherwise it may search by cosine,
\* and by nothing else.
THEOREM SearchesAsAsked == Spec => []SearchesAsEnsured
<1>1. IInv => SearchesAsEnsured
  BY TableAssumption DEF IInv, SearchesAsEnsured, DistanceOf, Asked, KnownNoted
<1>2. QED
  BY <1>1, Invariance, PTL
=============================================================================
