--------------------------- MODULE ScriptsProofs ---------------------------
(***************************************************************************)
(* From the directory to the pool, for any files, pool size and scripts:   *)
(* IInv of Scripts is inductive, so load_dir pairs the files it should,    *)
(* and the runner and the rest of the application never hold one           *)
(* connection together.  PoolInv is inductive beside it, so what is        *)
(* recorded is in effect, and BracketInv beside both, so that BEGIN and    *)
(* COMMIT make a script atomic on an undisturbed connection.               *)
(***************************************************************************)
EXTENDS Scripts, SequenceTheorems, TLAPS

\* Nothing is listed and no connection is open at first.
LEMMA InitIInv == Init => IInv
<1> SUFFICES ASSUME Init PROVE IInv
  OBVIOUS
<1>1. DOMAIN <<>> = {}
  OBVIOUS
<1>2. TypeOK
  BY <1>1, ScriptsAssumption DEF Init, TypeOK, Fresh
<1>3. Listed /\ ReadAsSeen /\ NothingRead
  BY <1>1 DEF Init, Listed, ReadAsSeen, NothingRead
<1>4. QED
  BY <1>2, <1>3 DEF IInv

\* What is read of the files does not change when nothing is listed or read.
LEMMA LoadFrame ==
    ASSUME IInv, UNCHANGED <<dir, loadVars>>,
           pc' \notin {"list", "failed"} => unread = {},
           pc' \in {"idle", "pick", "acquire", "execute"} => DOMAIN loaded = DOMAIN seen,
           pc' = "list" => loaded = <<>>
    PROVE  Listed' /\ ReadAsSeen' /\ NothingRead'
<1>1. Listed'
  BY DEF IInv, Listed, loadVars
<1>2. ReadAsSeen'
  BY DEF IInv, ReadAsSeen, File, Down, loadVars
<1>3. NothingRead'
  BY DEF NothingRead, loadVars
<1>4. QED
  BY <1>1, <1>2, <1>3

\* The listing adds a version with each up file, or replaces its name.
LEMMA ListEntryIInv == ASSUME IInv, NEW f \in dir, ListEntry(f) PROVE IInv'
<1>1. /\ pc = "list" /\ f \in unread /\ unread' = unread \ {f}
      /\ UNCHANGED <<input, loaded, runVars, poolVars, app>>
      /\ loaded = <<>>
  BY DEF IInv, NothingRead, ListEntry
<1>2. DOMAIN seen' = IF f.kind = "up" THEN DOMAIN seen \cup {f.version} ELSE DOMAIN seen
  BY DEF ListEntry, Insert
<1>3. DOMAIN loaded = {}
  BY <1>1
<1>4. TypeOK'
  BY <1>1, <1>2, <1>3 DEF IInv, TypeOK, input, runVars, poolVars
<1>5. Listed'
  BY <1>1, <1>2 DEF IInv, Listed, input, runVars
<1>6. ReadAsSeen' /\ NothingRead'
  BY <1>1, <1>3 DEF ReadAsSeen, NothingRead
<1>7. QED
  BY <1>4, <1>5, <1>6 DEF IInv
\* The scripts of the next version are those of the name that was seen for it.
LEMMA ReadScriptsIInv ==
    ASSUME IInv, NEW v \in DOMAIN seen, ReadScripts(v) PROVE IInv'
<1>1. PICK f \in File(v, "up") : loaded' = Insert(loaded, v,
           [name |-> f.name, up |-> f.script, down |-> {d.script : d \in Down(v)}])
  BY DEF ReadScripts
<1>2. /\ pc = "read" /\ UNCHANGED <<input, unread, seen, runVars, poolVars, app>>
  BY DEF ReadScripts
<1>3. DOMAIN loaded' = DOMAIN loaded \cup {v}
  BY <1>1 DEF Insert
<1>4. TypeOK'
  BY <1>2, <1>3 DEF IInv, TypeOK, input, runVars, poolVars
<1>5. Listed' /\ NothingRead'
  BY <1>2 DEF IInv, Listed, NothingRead, input, runVars
<1>6. ReadAsSeen'
  <2>1. \A u, k : File(u, k)' = File(u, k)
    BY <1>2 DEF File, input
  <2>2. \A u : Down(u)' = Down(u)
    BY <2>1 DEF Down
  <2>3. ASSUME NEW u \in DOMAIN loaded'
        PROVE  \E g \in File(u, "up") :
                  loaded'[u] = [name |-> g.name, up |-> g.script,
                                down |-> {d.script : d \in Down(u)}]
    <3>1. CASE u = v
      BY <1>1, <3>1 DEF Insert
    <3>2. CASE u # v
      <4>1. u \in DOMAIN loaded /\ loaded'[u] = loaded[u]
        BY <1>1, <1>3, <3>2 DEF Insert
      <4>2. QED
        BY <4>1 DEF IInv, ReadAsSeen
    <3>3. QED
      BY <3>1, <3>2
  <2>4. QED
    BY <2>1, <2>2, <2>3 DEF ReadAsSeen
<1>7. QED
  BY <1>4, <1>5, <1>6 DEF IInv

\* The ends of listing and reading.
LEMMA LoadStepIInv == ASSUME IInv, ListEnds \/ LoadEnds \/ LoadFails PROVE IInv'
<1>1. /\ UNCHANGED <<input, loadVars, todo, left, mine, poolVars, app>>
      /\ pc \in {"list", "read"} /\ pc' \in {"read", "idle", "failed"}
      /\ pc' # "failed" => unread = {}
      /\ pc' = "idle" => DOMAIN loaded = DOMAIN seen
  BY DEF IInv, Listed, ListEnds, LoadEnds, LoadFails
<1>2. TypeOK'
  BY <1>1 DEF IInv, TypeOK, input, loadVars, poolVars
<1>3. Listed' /\ ReadAsSeen' /\ NothingRead'
  BY <1>1, LoadFrame DEF input
<1>4. QED
  BY <1>2, <1>3 DEF IInv
-----------------------------------------------------------------------------
\* The state of a connection: nothing is pending outside of a transaction.
Settled(x) == /\ DOMAIN x = DOMAIN Fresh
              /\ x.tx \in BOOLEAN /\ x.aborted \in BOOLEAN
              /\ ~x.tx => x.writes = {} /\ ~x.aborted

LEMMA FreshSettled == Settled(Fresh)
BY DEF Settled, Fresh

\* A statement, be it BEGIN, COMMIT, another one or a failing one, keeps the
\* connections open and settled.
LEMMA StatementSettles ==
    ASSUME TypeOK, NEW c \in 1 .. size,
           UNCHANGED poolVars \/ Fails(c) \/ \E s : Runs(c, s)
    PROVE  /\ open' = open /\ DOMAIN conn' = 1 .. size
           /\ \A d \in 1 .. size : Settled(conn'[d])
<1>1. DOMAIN conn = 1 .. size /\ \A d \in 1 .. size : Settled(conn[d])
  BY DEF TypeOK, Settled
<1>2. DOMAIN Fresh = {"tx", "writes", "aborted"}
  BY DEF Fresh
<1>3. SUFFICES /\ open' = open /\ DOMAIN conn' = DOMAIN conn
               /\ \A d \in 1 .. size \ {c} : conn'[d] = conn[d]
               /\ Settled(conn'[c])
  BY <1>1
<1>4. CASE UNCHANGED poolVars
  BY <1>1, <1>4 DEF poolVars
<1>5. CASE Fails(c)
  <2>1. conn'[c] = [conn[c] EXCEPT !.aborted = conn[c].tx /\ db = "postgres"]
    BY <1>1, <1>5, Zenon DEF Fails
  <2>2. /\ DOMAIN conn'[c] = DOMAIN conn[c]
        /\ conn'[c].tx = conn[c].tx /\ conn'[c].writes = conn[c].writes
    BY <1>1, <1>2, <2>1 DEF Settled
  <2>3. conn'[c].aborted = (conn[c].tx /\ db = "postgres")
    BY <1>1, <1>2, <2>1, Zenon DEF Settled
  <2>4. Settled(conn'[c])
    BY <1>1, <2>2, <2>3, Zenon DEF Settled
  <2>5. QED
    BY <1>1, <1>5, <2>4 DEF Fails
<1>6. CASE \E s : Runs(c, s)
  <2>1. PICK s : Runs(c, s)
    BY <1>6
  <2>2. /\ open' = open
        /\ \/ conn' = conn
           \/ conn' = [conn EXCEPT ![c] = Fresh]
           \/ ~conn[c].aborted /\ conn' = [conn EXCEPT ![c].tx = TRUE]
           \/ conn[c].tx /\ conn' = [conn EXCEPT ![c].writes = @ \cup {s}]
    <3>1. <<"BEGIN">> # <<"COMMIT">>
      OBVIOUS
    <3>2. CASE s = <<"BEGIN">>
      BY <2>1, <3>1, <3>2, Zenon DEF Runs
    <3>3. CASE s = <<"COMMIT">>
      BY <2>1, <3>1, <3>3, Zenon DEF Runs
    <3>4. CASE s # <<"BEGIN">> /\ s # <<"COMMIT">>
      BY <2>1, <3>4, Zenon DEF Runs
    <3>5. QED
      BY <3>2, <3>3, <3>4
  <2>3. CASE conn' = conn
    BY <1>1, <2>2, <2>3
  <2>4. CASE conn' = [conn EXCEPT ![c] = Fresh]
    BY <1>1, <2>2, <2>4, FreshSettled
  <2>5. CASE conn' = [conn EXCEPT ![c].tx = TRUE]
    <3>1. conn'[c] = [conn[c] EXCEPT !.tx = TRUE]
      BY <1>1, <2>5
    <3>2. Settled(conn'[c])
      BY <1>1, <1>2, <3>1 DEF Settled
    <3>3. QED
      BY <1>1, <2>2, <2>5, <3>2
  <2>6. CASE conn[c].tx /\ conn' = [conn EXCEPT ![c].writes = @ \cup {s}]
    <3>1. conn'[c] = [conn[c] EXCEPT !.writes = @ \cup {s}]
      BY <1>1, <2>6
    <3>2. Settled(conn'[c])
      BY <1>1, <1>2, <2>6, <3>1 DEF Settled
    <3>3. QED
      BY <1>1, <2>2, <2>6, <3>2
  <2>7. QED
    BY <2>2, <2>3, <2>4, <2>5, <2>6
<1>7. QED
  BY <1>4, <1>5, <1>6

\* A chunk is one statement or none.
LEMMA ExecutesSettles ==
    ASSUME NEW c, Executes(c)
    PROVE  UNCHANGED poolVars \/ \E s : Runs(c, s)
BY DEF Executes

\* A step beside or after the loading: it leaves the migrations alone, settles the
\* connections and gives each connection to one caller at most.
LEMMA RunStepIInv ==
    ASSUME IInv, UNCHANGED <<input, loadVars>>,
           pc \in {"idle", "pick", "acquire", "execute"} \/ pc' = pc,
           pc' \in {"idle", "pick", "acquire", "execute"} \/ pc' = pc,
           todo' \subseteq DOMAIN loaded,
           DOMAIN conn' = 1 .. size, open' \subseteq 1 .. size,
           \A c \in 1 .. size : Settled(conn'[c]),
           {mine', app'} \subseteq open' \cup {None},
           mine' # None => mine' # app',
           pc' = "execute" <=> mine' # None
    PROVE  IInv'
<1>1. TypeOK'
  BY DEF IInv, TypeOK, Settled, input, loadVars
<1>2. pc' \notin {"list", "failed"} => unread = {}
  BY DEF IInv, Listed
<1>3. pc' \in {"idle", "pick", "acquire", "execute"} => DOMAIN loaded = DOMAIN seen
  BY DEF IInv, Listed
<1>4. pc' = "list" => loaded = <<>>
  BY DEF IInv, NothingRead
<1>5. Listed' /\ ReadAsSeen' /\ NothingRead'
  BY <1>2, <1>3, <1>4, LoadFrame DEF input
<1>6. QED
  BY <1>1, <1>5 DEF IInv

\* What TypeOK says of the pool, in the terms of RunStepIInv.
LEMMA PoolFacts ==
    ASSUME IInv
    PROVE  /\ DOMAIN conn = 1 .. size /\ open \subseteq 1 .. size /\ None \notin 1 .. size
           /\ \A c \in 1 .. size : Settled(conn[c])
           /\ {mine, app} \subseteq open \cup {None}
           /\ mine # None => mine # app
           /\ (pc = "execute" <=> mine # None)
           /\ todo \subseteq DOMAIN loaded
BY DEF IInv, TypeOK, Settled

\* The steps of the runner that touch no connection.
LEMMA CallIInv ==
    ASSUME IInv, (\E c \in DOMAIN conn : Up(c)) \/ (\E v \in DOMAIN loaded : Apply(v))
                 \/ UpReturns
    PROVE  IInv'
<1>1. /\ UNCHANGED <<input, loadVars, mine, poolVars, app>>
      /\ pc \in {"idle", "pick"} /\ pc' \in {"idle", "pick", "acquire"}
      /\ todo' \subseteq DOMAIN loaded
  BY PoolFacts DEF Up, Apply, UpReturns
<1>2. QED
  BY <1>1, PoolFacts, RunStepIInv DEF poolVars

\* A connection goes from the idle ones to one caller.
LEMMA AcquireIInv ==
    ASSUME IInv, NEW c \in DOMAIN conn, Acquire(c) \/ AppAcquire(c) PROVE IInv'
<1>1. c \in open /\ c # None /\ c # mine /\ c # app
  BY PoolFacts DEF Acquire, AppAcquire, Idle
<1>2. UNCHANGED <<input, loadVars, todo, poolVars>>
  BY DEF Acquire, AppAcquire, runVars
<1>3. CASE Acquire(c)
  BY <1>1, <1>2, <1>3, PoolFacts, RunStepIInv DEF Acquire, poolVars
<1>4. CASE AppAcquire(c)
  BY <1>1, <1>2, <1>4, PoolFacts, RunStepIInv DEF AppAcquire, poolVars, runVars
<1>5. QED
  BY <1>3, <1>4

\* The pool opens connections, closes only idle ones, and is closed.
LEMMA PoolIInv ==
    ASSUME IInv, Close \/ \E c \in DOMAIN conn : Grow(c) \/ Reap(c) PROVE IInv'
<1>1. UNCHANGED <<input, loadVars, runVars, app>>
  BY DEF Close, Grow, Reap
<1>2. /\ DOMAIN conn' = 1 .. size /\ open' \subseteq 1 .. size
      /\ \A c \in 1 .. size : Settled(conn'[c])
      /\ {mine, app} \subseteq open' \cup {None}
  <2>1. CASE Close
    BY <2>1, PoolFacts DEF Close
  <2>2. ASSUME NEW c \in DOMAIN conn, Grow(c)
        PROVE  conn' = conn /\ open' = open \cup {c}
    BY <2>2 DEF Grow
  <2>3. ASSUME NEW c \in DOMAIN conn, Reap(c)
        PROVE  /\ c \notin {mine, app}
               /\ conn' = [conn EXCEPT ![c] = Fresh] /\ open' = open \ {c}
    BY <2>3 DEF Reap, Idle
  <2>4. QED
    BY <2>1, <2>2, <2>3, PoolFacts, FreshSettled
<1>3. QED
  BY <1>1, <1>2, PoolFacts, RunStepIInv DEF runVars

\* A statement is executed by the one who holds the connection, who gives it back.
LEMMA StatementIInv ==
    ASSUME IInv, Execute \/ ExecuteFails \/ Cancelled \/ AppWrites PROVE IInv'
<1>1. PICK c \in 1 .. size :
         /\ c \in {mine, app} /\ (UNCHANGED poolVars \/ Fails(c) \/ \E s : Runs(c, s))
  <2>1. CASE AppWrites
    BY <2>1, PoolFacts DEF AppWrites
  <2>2. CASE Execute \/ ExecuteFails \/ Cancelled
    BY <2>2, PoolFacts, ExecutesSettles DEF Execute, ExecuteFails, Cancelled
  <2>3. QED
    BY <2>1, <2>2
<1>2. /\ open' = open /\ DOMAIN conn' = 1 .. size
      /\ \A d \in 1 .. size : Settled(conn'[d])
  BY <1>1, StatementSettles DEF IInv
<1>3. CASE AppWrites
  BY <1>2, <1>3, PoolFacts, RunStepIInv DEF AppWrites, runVars
<1>4. CASE Execute \/ ExecuteFails \/ Cancelled
  <2>1. /\ UNCHANGED <<input, loadVars, app>>
        /\ pc = "execute" /\ pc' \in {"idle", "pick", "acquire"}
        /\ todo' \in {todo, {}} /\ mine' = None
    BY <1>4 DEF Execute, ExecuteFails, Cancelled, Stops
  <2>2. QED
    BY <1>2, <2>1, PoolFacts, RunStepIInv
<1>5. QED
  BY <1>3, <1>4

\* A call that gets no connection has none to give back.
LEMMA AcquireFailsIInv == ASSUME IInv, AcquireFails PROVE IInv'
<1>1. /\ UNCHANGED <<input, loadVars, poolVars, app>>
      /\ pc = "acquire" /\ pc' = "idle" /\ todo' = {} /\ mine' = None
  BY DEF AcquireFails, Stops
<1>2. QED
  BY <1>1, PoolFacts, RunStepIInv DEF poolVars

\* IInv is inductive.
LEMMA NextIInv == IInv /\ [Next]_vars => IInv'
<1> SUFFICES ASSUME IInv, [Next]_vars PROVE IInv'
  OBVIOUS
<1>1. CASE UNCHANGED vars
  BY <1>1, PoolFacts, RunStepIInv DEF vars, runVars, poolVars
<1>2. CASE Load \/ LoadFails
  BY <1>2, ListEntryIInv, ReadScriptsIInv, LoadStepIInv DEF Load
<1>3. CASE Run
  BY <1>3, CallIInv, StatementIInv DEF Run
<1>4. CASE \E c \in DOMAIN conn : Acquire(c) \/ Grow(c) \/ Reap(c) \/ AppAcquire(c)
  BY <1>4, AcquireIInv, PoolIInv
<1>5. CASE ExecuteFails \/ Cancelled \/ AcquireFails \/ AppWrites \/ Close
  BY <1>5, StatementIInv, AcquireFailsIInv, PoolIInv
<1>6. QED
  BY <1>1, <1>2, <1>3, <1>4, <1>5 DEF Next

THEOREM Invariance == Spec => []IInv
BY InitIInv, NextIInv, PTL DEF Spec
-----------------------------------------------------------------------------
\* The runner and the application never hold one connection together, whatever
\* statements fail and whichever connections the pool opens and closes, and outside of
\* a transaction a connection has nothing to roll back.
THEOREM TypeCorrect == Spec => []TypeOK
<1>1. IInv => TypeOK
  BY DEF IInv
<1>2. QED
  BY <1>1, Invariance, PTL

\* load_dir makes one migration for each version of an up file, of an up file and the
\* down file of the same name, in whatever order the directory is listed.
THEOREM LoadsDirectory == Spec => []DirectoryLoaded
<1>1. IInv => DirectoryLoaded
  <2> SUFFICES ASSUME IInv, pc \in {"idle", "pick", "acquire", "execute"}
               PROVE  /\ \A f \in dir : f.kind = "up" => f.version \in DOMAIN loaded
                      /\ \A v \in DOMAIN loaded : \E f \in dir :
                            /\ f.kind = "up" /\ f.version = v
                            /\ loaded[v].name = f.name /\ loaded[v].up = f.script
                            /\ loaded[v].down =
                                  {d.script : d \in {g \in dir : /\ g.kind = "down" /\ g.padded
                                                                 /\ g.version = v
                                                                 /\ g.name = f.name}}
    BY DEF DirectoryLoaded
  <2>1. \A f \in dir : f.kind = "up" => f.version \in DOMAIN loaded
    BY DEF IInv, Listed
  <2>2. ASSUME NEW v \in DOMAIN loaded
        PROVE  \E f \in dir :
                  /\ f.kind = "up" /\ f.version = v
                  /\ loaded[v].name = f.name /\ loaded[v].up = f.script
                  /\ loaded[v].down =
                        {d.script : d \in {g \in dir : /\ g.kind = "down" /\ g.padded
                                                       /\ g.version = v /\ g.name = f.name}}
    <3>1. PICK f \in File(v, "up") :
             loaded[v] = [name |-> f.name, up |-> f.script,
                          down |-> {d.script : d \in Down(v)}]
      BY DEF IInv, ReadAsSeen
    <3>2. f \in dir /\ f.version = v /\ f.name = seen[v] /\ f.kind = "up"
      BY DEF File
    <3>3. Down(v) = {g \in dir : /\ g.kind = "down" /\ g.padded
                                 /\ g.version = v /\ g.name = f.name}
      BY <3>2 DEF Down, File
    <3>4. QED
      BY <3>1, <3>2, <3>3
  <2>3. QED
    BY <2>1, <2>2
<1>2. QED
  BY <1>1, Invariance, PTL
-----------------------------------------------------------------------------
(***************************************************************************)
(* What is recorded is in effect, on pools and scripts for which the       *)
(* property claims it, if split_sql cuts the scripts as SplitAsRead says.  *)
(***************************************************************************)
Claimed == Undisturbed \/ AllUnbracketed

\* The files are those of one of the worlds.
LEMMA FilesKept == Spec => [](dir \in {w.dir : w \in Worlds})
<1>1. Init => dir \in {w.dir : w \in Worlds}
  BY DEF Init
<1>2. ASSUME dir \in {w.dir : w \in Worlds}, [Next]_vars
      PROVE  (dir \in {w.dir : w \in Worlds})'
  <2>1. dir' = dir
    BY <1>2 DEF Next, vars, input, Load, LoadFails, Run, ListEntry, ListEnds, ReadScripts,
       LoadEnds, Up, Apply, UpReturns, Execute, Acquire, Grow, Reap, AppAcquire, ExecuteFails,
       Cancelled, AcquireFails, AppWrites, Close, Stops
  <2>2. QED
    BY <1>2, <2>1
<1>3. QED
  BY <1>1, <1>2, PTL DEF Spec

\* What the server executes of a script is what it executes of its chunks.
LEMMA ChunkByChunk ==
    ASSUME SplitShape, NEW w \in Worlds, NEW f \in w.dir, NEW s, s = f.script
    PROVE  Range(Sent(s)) = UNION {Codes(Statements(chunk)) : chunk \in Range(SplitSql(s))}
<1>1. s \in {g.script : g \in w.dir}
  OBVIOUS
<1>2. PICK at \in [DOMAIN Sent(s) -> DOMAIN SplitSql(s)] :
         \A k \in DOMAIN SplitSql(s) :
            Codes(Statements(SplitSql(s)[k])) = {Sent(s)[i] : i \in {j \in DOMAIN at : at[j] = k}}
  BY <1>1 DEF SplitShape
<1> DEFINE codes(k) == Codes(Statements(SplitSql(s)[k]))
           sent == Sent(s)
<1>3. \A k \in DOMAIN SplitSql(s) : codes(k) = {sent[i] : i \in {j \in DOMAIN sent : at[j] = k}}
  BY <1>2
<1>4. \A i \in DOMAIN sent : at[i] \in DOMAIN SplitSql(s)
  BY <1>2
<1> HIDE DEF codes, sent
<1>5. {sent[i] : i \in DOMAIN sent} = UNION {codes(k) : k \in DOMAIN SplitSql(s)}
  BY <1>3, <1>4
<1>6. QED
  BY <1>5 DEF Range, codes, sent

\* What the hypotheses say of a script that was loaded.
LEMMA LoadedScripts ==
    ASSUME SplitFaithful, NoneRecords, dir \in {w.dir : w \in Worlds}, IInv,
           NEW v \in DOMAIN loaded, NEW s, s = loaded[v].up
    PROVE  /\ SplitSql(s) \in Seq(Range(SplitSql(s)))
           /\ \A chunk \in Range(SplitSql(s)) :
                 Statements(chunk) \in Seq(Range(Statements(chunk)))
           /\ Range(Sent(s)) = UNION {Codes(Statements(chunk)) : chunk \in Range(SplitSql(s))}
           /\ Plain(s) => Sent(s) = Said(s)
           /\ \A u \in DOMAIN loaded : Record(u) \notin Range(Sent(s))
<1>1. PICK w \in Worlds : dir = w.dir
  OBVIOUS
<1>2. \A u \in DOMAIN loaded : \E f \in dir : f.version = u /\ loaded[u].up = f.script
  BY DEF IInv, ReadAsSeen, File
<1>3. PICK f \in w.dir : s = f.script
  BY <1>1, <1>2
<1>4. s \in {g.script : g \in w.dir}
  BY <1>3
<1>5. \A u \in DOMAIN loaded : Record(u) \notin Range(Sent(s))
  BY <1>1, <1>2, <1>3 DEF NoneRecords
<1>6. Range(Sent(s)) = UNION {Codes(Statements(chunk)) : chunk \in Range(SplitSql(s))}
  BY <1>3, ChunkByChunk DEF SplitFaithful
<1>7. QED
  BY <1>4, <1>5, <1>6 DEF SplitFaithful, SplitShape

\* The statements of the version table, of the application and of transactions differ,
\* and so do the records of two versions.
LEMMA StatementsDiffer ==
    /\ \A v : Record(v) \notin Brackets \cup {<<"app">>}
    /\ <<"app">> \notin Brackets /\ <<"BEGIN">> # <<"COMMIT">>
    /\ \A u, v : Record(u) = Record(v) => u = v
BY DEF Record, Brackets

\* A step that changes nothing about the files changes nothing about what is claimed.
LEMMA ClaimFrame ==
    ASSUME UNCHANGED <<input, loadVars>>
    PROVE  /\ Undisturbed' = Undisturbed /\ AllUnbracketed' = AllUnbracketed
           /\ Claimed' = Claimed /\ size' = size /\ loaded' = loaded
           /\ \A v : Effects(v)' = Effects(v)
BY DEF input, loadVars, Undisturbed, AllUnbracketed, Unbracketed, Claimed, Effects
-----------------------------------------------------------------------------
\* What a statement does on a connection that is not aborted.
Outcome(c, s) ==
    \/ /\ s \notin Brackets /\ ~conn[c].tx
       /\ committed' = committed \cup {s} /\ conn' = conn
    \/ /\ s \notin Brackets /\ conn[c].tx
       /\ committed' = committed /\ conn' = [conn EXCEPT ![c].writes = @ \cup {s}]
    \/ /\ s = <<"BEGIN">>
       /\ committed' = committed /\ conn' = [conn EXCEPT ![c].tx = TRUE]
    \/ /\ s = <<"COMMIT">>
       /\ committed' = Visible(c) /\ conn' = [conn EXCEPT ![c] = Fresh]

LEMMA RunsOutcome ==
    ASSUME NEW c, NEW s, Runs(c, s), conn[c].aborted \in BOOLEAN,
           ~conn[c].aborted \/ s # <<"COMMIT">>
    PROVE  Outcome(c, s) /\ ~conn[c].aborted /\ UNCHANGED <<open, closed>>
<1>1. ~conn[c].aborted /\ UNCHANGED <<open, closed>>
  BY Zenon DEF Runs
<1>2. CASE s = <<"BEGIN">>
  BY <1>2, StatementsDiffer, Zenon DEF Runs, Outcome
<1>3. CASE s = <<"COMMIT">>
  BY <1>1, <1>3, StatementsDiffer, Zenon DEF Runs, Outcome, Visible
<1>4. CASE s # <<"BEGIN">> /\ s # <<"COMMIT">>
  <2>1. s \notin Brackets
    BY <1>4 DEF Brackets
  <2>2. QED
    BY <1>4, <2>1, Zenon DEF Runs, Outcome
<1>5. QED
  BY <1>1, <1>2, <1>3, <1>4

\* The same, connection by connection: conn' has the fields that Outcome gives it.
LEMMA OutcomeFields ==
    ASSUME IInv, NEW c \in 1 .. size, NEW s, Outcome(c, s)
    PROVE  /\ \A d \in 1 .. size \ {c} : conn'[d] = conn[d]
           /\ \/ /\ s \notin Brackets /\ ~conn[c].tx
                 /\ committed' = committed \cup {s} /\ conn'[c] = conn[c]
              \/ /\ s \notin Brackets /\ conn[c].tx /\ committed' = committed
                 /\ conn'[c].writes = conn[c].writes \cup {s}
                 /\ conn'[c].tx = conn[c].tx /\ conn'[c].aborted = conn[c].aborted
              \/ /\ s = <<"BEGIN">> /\ committed' = committed
                 /\ conn'[c].writes = conn[c].writes
                 /\ conn'[c].aborted = conn[c].aborted
              \/ /\ s = <<"COMMIT">> /\ committed' = Visible(c)
                 /\ conn'[c].writes = {} /\ ~conn'[c].tx /\ ~conn'[c].aborted
<1>1. c \in DOMAIN conn /\ Settled(conn[c]) /\ DOMAIN conn = 1 .. size
  BY PoolFacts
<1>2. DOMAIN Fresh = {"tx", "writes", "aborted"}
  BY DEF Fresh
<1>3. DOMAIN conn[c] = {"tx", "writes", "aborted"}
  BY <1>1, <1>2 DEF Settled
<1>4. \A d \in 1 .. size \ {c} : conn'[d] = conn[d]
  BY <1>1 DEF Outcome
<1>5. CASE conn' = conn /\ s \notin Brackets /\ ~conn[c].tx /\ committed' = committed \cup {s}
  BY <1>4, <1>5
<1>6. CASE /\ s \notin Brackets /\ conn[c].tx /\ committed' = committed
           /\ conn' = [conn EXCEPT ![c].writes = @ \cup {s}]
  <2>1. conn'[c] = [conn[c] EXCEPT !.writes = @ \cup {s}]
    BY <1>1, <1>6
  <2>2. /\ conn'[c].writes = conn[c].writes \cup {s}
        /\ conn'[c].tx = conn[c].tx /\ conn'[c].aborted = conn[c].aborted
    BY <1>3, <2>1
  <2>3. QED
    BY <1>4, <1>6, <2>2
<1>7. CASE /\ s = <<"BEGIN">> /\ committed' = committed
           /\ conn' = [conn EXCEPT ![c].tx = TRUE]
  <2>1. conn'[c] = [conn[c] EXCEPT !.tx = TRUE]
    BY <1>1, <1>7
  <2>2. QED
    BY <1>3, <1>4, <1>7, <2>1
<1>8. CASE /\ s = <<"COMMIT">> /\ committed' = Visible(c)
           /\ conn' = [conn EXCEPT ![c] = Fresh]
  <2>1. conn'[c] = Fresh
    BY <1>1, <1>8
  <2>2. conn'[c].writes = {} /\ ~conn'[c].tx /\ ~conn'[c].aborted
    BY <2>1 DEF Fresh
  <2>3. QED
    BY <1>4, <1>8, <2>2
<1>9. QED
  BY <1>5, <1>6, <1>7, <1>8 DEF Outcome

\* A failing statement writes nothing.
LEMMA FailsFields ==
    ASSUME IInv, NEW c \in 1 .. size, Fails(c)
    PROVE  /\ UNCHANGED <<open, committed, closed>>
           /\ \A d \in 1 .. size : /\ conn'[d].writes = conn[d].writes
                                   /\ conn'[d].tx = conn[d].tx
<1>1. c \in DOMAIN conn /\ Settled(conn[c]) /\ DOMAIN conn = 1 .. size
  BY PoolFacts
<1>2. DOMAIN conn[c] = {"tx", "writes", "aborted"}
  BY <1>1 DEF Settled, Fresh
<1>3. conn'[c] = [conn[c] EXCEPT !.aborted = conn[c].tx /\ db = "postgres"]
  BY <1>1, Zenon DEF Fails
<1>4. conn'[c].writes = conn[c].writes /\ conn'[c].tx = conn[c].tx
  BY <1>2, <1>3
<1>5. \A d \in 1 .. size \ {c} : conn'[d] = conn[d]
  BY <1>1, Zenon DEF Fails
<1>6. QED
  BY <1>4, <1>5 DEF Fails
-----------------------------------------------------------------------------
\* Effects that explain the records among them still do so together, and with a statement
\* more, if it is no record or what it records is there.
LEMMA ExplainedUnion ==
    ASSUME NEW X, NEW Y, Explained(X), Explained(Y) PROVE Explained(X \cup Y)
BY DEF Explained

LEMMA ExplainedAdd ==
    ASSUME NEW X, NEW s, Explained(X),
           \A v \in DOMAIN loaded : s = Record(v) /\ Plain(loaded[v].up) => Effects(v) \subseteq X
    PROVE  Explained(X \cup {s})
BY DEF Explained

\* A statement on c keeps every record with what it records, if it is a record only of
\* what c sees.
LEMMA ExplainedStays ==
    ASSUME IInv, NEW c \in 1 .. size, NEW s, Outcome(c, s),
           Explained(committed), \A d \in 1 .. size : Explained(Visible(d)),
           \A v \in DOMAIN loaded :
              s = Record(v) /\ Plain(loaded[v].up) => Effects(v) \subseteq Visible(c)
    PROVE  Explained(committed') /\ \A d \in 1 .. size : Explained(Visible(d)')
<1>1. ~conn[c].tx => conn[c].writes = {}
  BY PoolFacts DEF Settled
<1>2. \A d \in 1 .. size \ {c} : conn'[d] = conn[d]
  BY OutcomeFields
<1>3. CASE /\ s \notin Brackets /\ ~conn[c].tx
           /\ committed' = committed \cup {s} /\ conn'[c] = conn[c]
  <2>1. Visible(c) = committed
    BY <1>1, <1>3 DEF Visible
  <2>2. Explained(committed')
    BY <1>3, <2>1, ExplainedAdd
  <2>3. ASSUME NEW d \in 1 .. size PROVE Explained(Visible(d)')
    <3>1. Visible(d)' = Visible(d) \cup {s}
      BY <1>2, <1>3 DEF Visible
    <3>2. committed \subseteq Visible(d)
      BY DEF Visible
    <3>3. Explained(Visible(d) \cup {s})
      BY <2>1, <3>2, ExplainedAdd
    <3>4. QED
      BY <3>1, <3>3
  <2>4. QED
    BY <2>2, <2>3
<1>4. CASE s \notin Brackets /\ committed' = committed /\ conn'[c].writes = conn[c].writes \cup {s}
  <2>1. Visible(c)' = Visible(c) \cup {s}
    BY <1>4 DEF Visible
  <2>2. Explained(Visible(c)')
    BY <2>1, ExplainedAdd
  <2>3. \A d \in 1 .. size \ {c} : Visible(d)' = Visible(d)
    BY <1>2, <1>4 DEF Visible
  <2>4. ASSUME NEW d \in 1 .. size PROVE Explained(Visible(d)')
    BY <2>2, <2>3
  <2>5. QED
    BY <1>4, <2>4
<1>5. CASE s = <<"BEGIN">> /\ committed' = committed /\ conn'[c].writes = conn[c].writes
  <2>1. \A d \in 1 .. size : Visible(d)' = Visible(d)
    BY <1>2, <1>5 DEF Visible
  <2>2. QED
    BY <1>5, <2>1
<1>6. CASE s = <<"COMMIT">> /\ committed' = Visible(c) /\ conn'[c].writes = {}
  <2>1. Explained(committed')
    BY <1>6
  <2>2. Visible(c)' = Visible(c)
    BY <1>6 DEF Visible
  <2>3. ASSUME NEW d \in 1 .. size \ {c} PROVE Explained(Visible(d)')
    <3>1. Visible(d)' = Visible(d) \cup Visible(c)
      BY <1>2, <1>6 DEF Visible
    <3>2. Explained(Visible(d) \cup Visible(c))
      BY ExplainedUnion
    <3>3. QED
      BY <3>1, <3>2
  <2>4. QED
    BY <2>1, <2>2, <2>3
<1>7. QED
  BY <1>3, <1>4, <1>5, <1>6, OutcomeFields

\* Nothing that was reached is lost by a statement, and it is reached itself.
LEMMA ReachedGrows ==
    ASSUME IInv, NEW c \in 1 .. size, NEW s, Outcome(c, s), size' = size
    PROVE  Reached \subseteq Reached' /\ {s} \ Brackets \subseteq Reached'
<1>1. committed \subseteq committed'
  BY OutcomeFields DEF Visible
<1>2. conn[c].writes \subseteq committed' \cup conn'[c].writes
  BY OutcomeFields DEF Visible
<1>3. \A d \in 1 .. size : conn[d].writes \subseteq committed' \cup conn'[d].writes
  BY <1>2, OutcomeFields
<1>4. {s} \ Brackets \subseteq committed' \cup conn'[c].writes
  BY OutcomeFields DEF Brackets
<1>5. QED
  BY <1>1, <1>3, <1>4 DEF Reached

\* Where no transaction is open, or there is one connection, what was reached is what any
\* connection sees.
LEMMA ReachedVisible ==
    ASSUME IInv, PoolInv, Claimed, ~Loading, NEW c \in 1 .. size
    PROVE  Reached \subseteq Visible(c)
<1>1. CASE Undisturbed
  BY <1>1 DEF Undisturbed, Reached, Visible
<1>2. CASE AllUnbracketed
  <2>1. \A d \in 1 .. size : conn[d].writes = {}
    BY <1>2, PoolFacts DEF PoolInv, NoTransaction, Settled
  <2>2. QED
    BY <2>1 DEF Reached, Visible
<1>3. QED
  BY <1>1, <1>2 DEF Claimed

\* Sending the first of several chunks leaves the others.
LEMMA Sending ==
    ASSUME NEW S, NEW t \in Seq(S), t # <<>>
    PROVE  /\ Len(t) = 1 => Head(t) = t[Len(t)] /\ {t[i] : i \in 1 .. Len(t) - 1} = {}
           /\ Len(t) # 1 =>
                /\ Tail(t) \in Seq(Range(Tail(t))) /\ Tail(t) # <<>>
                /\ Tail(t)[Len(Tail(t))] = t[Len(t)]
                /\ {t[i] : i \in 1 .. Len(t) - 1}
                      = {Head(t)} \cup {Tail(t)[i] : i \in 1 .. Len(Tail(t)) - 1}
<1>1. Len(t) \in Nat /\ Len(t) # 0
  BY EmptySeq
<1>2. Head(t) = t[1]
  BY <1>1
<1>3. /\ Tail(t) \in Seq(S) /\ Len(Tail(t)) = Len(t) - 1
      /\ \A i \in 1 .. Len(Tail(t)) : Tail(t)[i] = t[i + 1]
  BY HeadTailProperties
<1>4. CASE Len(t) = 1
  <2>1. 1 .. Len(t) - 1 = {}
    BY <1>4
  <2>2. QED
    BY <1>2, <1>4, <2>1
<1>5. CASE Len(t) # 1
  <2>1. PICK n \in Nat : n = Len(t) - 1 /\ n > 0
    <3>1. \A l \in Nat : l # 0 /\ l # 1 => l - 1 \in Nat /\ l - 1 > 0
      OBVIOUS
    <3>2. Len(t) - 1 \in Nat /\ Len(t) - 1 > 0
      BY <1>1, <1>5, <3>1, Zenon
    <3>3. QED
      BY <3>2, Zenon
  <2>2. Len(Tail(t)) = n /\ \A i \in 1 .. n : Tail(t)[i] = t[i + 1]
    BY <1>3, <2>1
  <2>3. Tail(t) \in Seq(Range(Tail(t)))
    BY <1>3, SeqOfRange
  <2>4. n \in 1 .. n /\ n + 1 = Len(t)
    BY <1>1, <2>1
  <2>5. Tail(t)[n] = t[Len(t)]
    BY <2>2, <2>4
  <2>6. Tail(t) # <<>>
    <3>1. Len(<<>>) = 0
      OBVIOUS
    <3>2. n # 0
      BY <2>1
    <3>3. QED
      BY <2>2, <3>1, <3>2, Zenon
  <2>7. ASSUME NEW i \in 1 .. n
        PROVE  t[i] \in {t[1]} \cup {Tail(t)[k] : k \in 1 .. n - 1}
    <3>1. CASE i = 1
      BY <3>1
    <3>2. CASE i # 1
      <4>1. i - 1 \in 1 .. n - 1 /\ i - 1 \in 1 .. n /\ (i - 1) + 1 = i
        BY <2>1, <3>2
      <4>2. Tail(t)[i - 1] = t[i]
        BY <2>2, <4>1
      <4>3. QED
        BY <4>1, <4>2
    <3>3. QED
      BY <3>1, <3>2
  <2>8. ASSUME NEW k \in 1 .. n - 1
        PROVE  Tail(t)[k] \in {t[i] : i \in 1 .. n}
    <3>1. k \in 1 .. n /\ k + 1 \in 1 .. n
      BY <2>1
    <3>2. QED
      BY <2>2, <3>1
  <2>9. 1 \in 1 .. n
    BY <2>1
  <2>10. {t[i] : i \in 1 .. n} = {t[1]} \cup {Tail(t)[k] : k \in 1 .. n - 1}
    BY <2>7, <2>8, <2>9
  <2>11. QED
    BY <1>2, <1>5, <2>1, <2>2, <2>3, <2>5, <2>6, <2>10
<1>6. QED
  BY <1>4, <1>5

\* A sequence with an element more has it last, and the sequence before it.
LEMMA WithLast ==
    ASSUME NEW S, NEW t \in Seq(S), NEW e
    PROVE  LET u == t \o <<e>>
           IN  /\ u \in Seq(Range(u)) /\ u # <<>> /\ u[Len(u)] = e
               /\ {u[i] : i \in 1 .. Len(u) - 1} = Range(t)
<1> DEFINE T == S \cup {e}
           u == t \o <<e>>
<1>1. t \in Seq(T) /\ <<e>> \in Seq(T) /\ Len(<<e>>) = 1 /\ <<e>>[1] = e
  BY SeqMonotonic
<1>2. PICK n \in Nat : n = Len(t)
  BY LenProperties
<1>3. /\ u \in Seq(T) /\ Len(u) = n + 1
      /\ \A i \in 1 .. n + 1 : u[i] = IF i <= n THEN t[i] ELSE <<e>>[i - n]
  BY <1>1, <1>2, ConcatProperties
<1>4. u \in Seq(Range(u))
  BY <1>3, SeqOfRange
<1>5. u[n + 1] = e
  <2>1. n + 1 \in 1 .. n + 1 /\ ~(n + 1 <= n) /\ (n + 1) - n = 1
    BY <1>2
  <2>2. QED
    BY <1>1, <1>3, <2>1
<1>6. \A i \in 1 .. n : u[i] = t[i]
  BY <1>2, <1>3
<1>7. Range(t) = {t[i] : i \in 1 .. n}
  BY <1>2, RangeEquality
<1>8. {u[i] : i \in 1 .. n} = Range(t)
  BY <1>6, <1>7
<1>9. u # <<>>
  <2>1. Len(<<>>) = 0
    OBVIOUS
  <2>2. n + 1 # 0
    BY <1>2
  <2>3. QED
    BY <1>3, <2>1, <2>2, Zenon
<1>10. (n + 1) - 1 = n
  BY <1>2
<1>11. QED
  BY <1>3, <1>4, <1>5, <1>8, <1>9, <1>10

\* s is a statement the runner executes: on a connection that is not aborted, no bracket
\* where there are none, and the record only of what is there.
Executed(s) ==
    /\ Outcome(mine, s) /\ ~conn[mine].aborted
    /\ AllUnbracketed => s \notin Brackets
    /\ \A v \in DOMAIN loaded :
          s = Record(v) /\ Plain(loaded[v].up) => Effects(v) \subseteq Visible(mine)
    /\ IF Len(left) = 1 THEN s = Head(left) ELSE Codes(Statements(Head(left))) = {s}

\* What the runner executes: nothing, or a statement of the script it is at, or, when all
\* of the script was reached, the record.
LEMMA ExecuteOutcome ==
    ASSUME SplitFaithful, NoneRecords, dir \in {w.dir : w \in Worlds},
           IInv, PoolInv, Claimed, pc = "execute", Executes(mine)
    PROVE  /\ mine \in 1 .. size /\ UNCHANGED <<open, closed>>
           /\ \/ /\ UNCHANGED poolVars
                 /\ Len(left) # 1 /\ Codes(Statements(Head(left))) = {}
              \/ \E s : Executed(s)
<1>1. mine \in 1 .. size /\ conn[mine].aborted \in BOOLEAN /\ ~Loading
  BY PoolFacts DEF Settled, Loading
<1>2. ~conn[mine].aborted
  BY <1>1, PoolFacts DEF Claimed, PoolInv, NoTransaction, Alone, InCall, Settled
<1>3. PICK v \in DOMAIN loaded :
         LET chunks == Range(SplitSql(loaded[v].up))
             unsent == {left[i] : i \in 1 .. Len(left) - 1}
         IN  /\ left \in Seq(Range(left)) /\ left # <<>> /\ left[Len(left)] = Record(v)
             /\ unsent \subseteq chunks
             /\ \A chunk \in chunks \ unsent :
                   Codes(Statements(chunk)) \ Brackets \subseteq Reached
  BY DEF PoolInv, AtWork, Claimed
<1> DEFINE up == loaded[v].up
           chunks == Range(SplitSql(up))
<1>4. /\ \A chunk \in chunks : Statements(chunk) \in Seq(Range(Statements(chunk)))
      /\ Range(Sent(up)) = UNION {Codes(Statements(chunk)) : chunk \in chunks}
      /\ Plain(up) => Sent(up) = Said(up)
      /\ \A u \in DOMAIN loaded : Record(u) \notin Range(Sent(up))
  BY LoadedScripts
<1>5. left \in Seq(Range(left)) /\ left # <<>> /\ left[Len(left)] = Record(v)
  BY <1>3
<1>6. CASE Len(left) = 1
  <2>1. Head(left) = Record(v) /\ Runs(mine, Record(v))
    BY <1>5, <1>6, Sending DEF Executes
  <2>2. /\ Outcome(mine, Record(v)) /\ UNCHANGED <<open, closed>>
        /\ Record(v) \notin Brackets
    BY <1>1, <1>2, <2>1, RunsOutcome, StatementsDiffer
  <2>3. ASSUME Plain(up) PROVE Effects(v) \subseteq Visible(mine)
    <3>1. Effects(v) = (UNION {Codes(Statements(chunk)) : chunk \in chunks}) \ Brackets
      BY <1>4, <2>3 DEF Effects
    <3>2. \A chunk \in chunks : Codes(Statements(chunk)) \ Brackets \subseteq Reached
      BY <1>3, <1>6
    <3>3. QED
      BY <1>1, <3>1, <3>2, ReachedVisible
  <2>4. \A u \in DOMAIN loaded :
           Record(v) = Record(u) /\ Plain(loaded[u].up) => Effects(u) \subseteq Visible(mine)
    BY <2>3, StatementsDiffer
  <2>5. QED
    BY <1>1, <1>2, <1>6, <2>1, <2>2, <2>4 DEF Executed
<1>7. CASE Len(left) # 1
  <2>1. Head(left) \in chunks
    <3>1. Head(left) \in {left[i] : i \in 1 .. Len(left) - 1}
      BY <1>5, <1>7, Sending
    <3>2. QED
      BY <1>3, <3>1
  <2> DEFINE stmts == Statements(Head(left))
  <2>2. stmts \in Seq(Range(stmts))
    BY <1>4, <2>1
  <2>3. CASE stmts = <<>>
    <3>1. Codes(stmts) = {}
      BY <2>3 DEF Codes
    <3>2. UNCHANGED poolVars
      BY <1>7, <2>3, Zenon DEF Executes
    <3>3. QED
      BY <1>1, <1>7, <3>1, <3>2 DEF poolVars
  <2>4. CASE stmts # <<>>
    <3> DEFINE s == stmts[1].code
    <3>1. Len(stmts) = 1 /\ Runs(mine, s)
      BY <1>7, <2>4, Zenon DEF Executes
    <3>2. Codes(stmts) = {s}
      <4>1. DOMAIN stmts = {1}
        BY <2>2, <3>1
      <4>2. QED
        BY <4>1 DEF Codes
    <3>3. s \in Range(Sent(up))
      BY <1>4, <2>1, <3>2
    <3>4. AllUnbracketed => s \notin Brackets
      BY <3>3 DEF AllUnbracketed, Unbracketed
    <3>5. \A u \in DOMAIN loaded : s # Record(u)
      BY <1>4, <3>3
    <3>6. Outcome(mine, s) /\ UNCHANGED <<open, closed>>
      BY <1>1, <1>2, <3>1, RunsOutcome
    <3> HIDE DEF s
    <3>7. QED
      BY <1>1, <1>2, <1>7, <3>2, <3>4, <3>5, <3>6 DEF Executed
  <2>5. QED
    BY <2>3, <2>4
<1>8. QED
  BY <1>6, <1>7

\* So a step of the runner's keeps what was reached and what explains the records, opens
\* no transaction where there are none, and leaves the connection in order.
LEMMA ExecuteKeeps ==
    ASSUME SplitFaithful, NoneRecords, dir \in {w.dir : w \in Worlds},
           IInv, PoolInv, Claimed, pc = "execute", Executes(mine), UNCHANGED <<input, loadVars>>
    PROVE  /\ Reached \subseteq Reached'
           /\ Len(left) # 1 => Codes(Statements(Head(left))) \ Brackets \subseteq Reached'
           /\ Explained(committed') /\ \A d \in 1 .. size : Explained(Visible(d)')
           /\ AllUnbracketed => \A d \in 1 .. size : ~conn'[d].tx
           /\ Undisturbed => \A d \in 1 .. size : ~conn'[d].aborted
<1>1. /\ size' = size /\ ~Loading
      /\ Explained(committed) /\ \A d \in 1 .. size : Explained(Visible(d))
      /\ AllUnbracketed => \A d \in 1 .. size : ~conn[d].tx
      /\ Undisturbed => \A d \in 1 .. size : ~conn[d].aborted
  BY DEF input, Loading, PoolInv, RecordedInEffect, Recorded, RecordsFollow, Explained, Claimed,
     NoTransaction, Alone, InCall
<1>2. CASE /\ UNCHANGED poolVars
           /\ Len(left) # 1 /\ Codes(Statements(Head(left))) = {}
  <2>1. Reached' = Reached /\ committed' = committed /\ \A d : Visible(d)' = Visible(d)
    BY <1>1, <1>2 DEF Reached, Visible, poolVars
  <2>2. QED
    BY <1>1, <1>2, <2>1 DEF poolVars
<1>3. CASE mine \in 1 .. size /\ \E s : Executed(s)
  <2>1. PICK s : Executed(s)
    BY <1>3
  <2>2. Reached \subseteq Reached' /\ {s} \ Brackets \subseteq Reached'
    BY <1>1, <1>3, <2>1, ReachedGrows DEF Executed
  <2>3. Explained(committed') /\ \A d \in 1 .. size : Explained(Visible(d)')
    BY <1>1, <1>3, <2>1, ExplainedStays DEF Executed
  <2>4. AllUnbracketed => \A d \in 1 .. size : ~conn'[d].tx
    BY <1>1, <1>3, <2>1, OutcomeFields DEF Executed, Brackets
  <2>5. Undisturbed => \A d \in 1 .. size : ~conn'[d].aborted
    BY <1>1, <1>3, <2>1, OutcomeFields DEF Executed
  <2>6. Len(left) # 1 => Codes(Statements(Head(left))) = {s}
    BY <2>1 DEF Executed
  <2>7. QED
    BY <2>2, <2>3, <2>4, <2>5, <2>6
<1>4. QED
  BY <1>2, <1>3, ExecuteOutcome
-----------------------------------------------------------------------------
\* At first nothing is committed, and no connection has written anything.
LEMMA InitPool == Init => PoolInv
<1> SUFFICES ASSUME Init PROVE PoolInv
  OBVIOUS
<1>1. DOMAIN <<>> = {} /\ loaded = <<>>
  BY DEF Init
<1>2. pc = "list" /\ committed = {} /\ \A c \in 1 .. size : ~conn[c].tx
  BY DEF Init, Fresh
<1>3. RecordedInEffect /\ RecordsFollow
  BY <1>1 DEF RecordedInEffect, Recorded, RecordsFollow, Explained
<1>4. QED
  BY <1>2, <1>3 DEF PoolInv, BeforeCalls, NoTransaction, Alone, InCall, AtWork

\* While files are read the pool has nothing to do with them.
LEMMA LoadPool == ASSUME IInv, PoolInv, Load \/ LoadFails PROVE PoolInv'
<1>1. /\ Loading /\ UNCHANGED <<input, poolVars, app>>
      /\ pc' \in {"list", "read", "failed", "idle"}
  BY DEF Load, LoadFails, ListEntry, ListEnds, ReadScripts, LoadEnds, Loading, runVars
<1>2. committed \subseteq {<<"app">>} /\ \A c \in 1 .. size : ~conn[c].tx /\ conn[c].writes = {}
  BY <1>1, PoolFacts DEF PoolInv, BeforeCalls, NoTransaction, Settled
<1>3. \A v : Record(v) \notin committed
  BY <1>2, StatementsDiffer
<1>4. committed' = committed /\ conn' = conn /\ size' = size
  BY <1>1 DEF input, poolVars
<1>5. BeforeCalls' /\ NoTransaction' /\ Alone' /\ AtWork'
  BY <1>1, <1>2, <1>4 DEF BeforeCalls, NoTransaction, Alone, InCall, AtWork
<1>6. \A v : Record(v)' = Record(v)
  BY DEF Record
<1>7. RecordedInEffect'
  BY <1>3, <1>4, <1>6 DEF RecordedInEffect, Recorded
<1>8. RecordsFollow'
  BY <1>2, <1>3, <1>4, <1>6 DEF RecordsFollow, Explained, Visible
<1>9. QED
  BY <1>5, <1>7, <1>8 DEF PoolInv

\* Where neither the files nor what was written changes, what is said of them stays.
LEMMA SamePool ==
    ASSUME PoolInv, UNCHANGED <<input, loadVars, conn, committed>>,
           pc' = pc \/ (~Loading /\ ~Loading')
    PROVE  /\ BeforeCalls' /\ NoTransaction' /\ RecordedInEffect' /\ RecordsFollow'
           /\ Reached' = Reached
<1>1. BeforeCalls'
  BY DEF PoolInv, BeforeCalls, Loading
<1>2. NoTransaction'
  BY ClaimFrame DEF PoolInv, NoTransaction, Loading
<1>3. RecordedInEffect'
  BY ClaimFrame DEF PoolInv, RecordedInEffect, Recorded, Record, Claimed
<1>4. RecordsFollow'
  BY ClaimFrame DEF PoolInv, RecordsFollow, Explained, Visible, Record, Claimed
<1>5. Reached' = Reached
  BY DEF Reached, input
<1>6. QED
  BY <1>1, <1>2, <1>3, <1>4, <1>5

\* What is left of a script is as before when nothing is sent and nothing is lost.
LEMMA SameWork ==
    ASSUME PoolInv, UNCHANGED <<input, loadVars, left>>,
           pc' \in {"acquire", "execute"} => pc \in {"acquire", "execute"},
           Claimed /\ pc' \in {"acquire", "execute"} =>
              \/ closed' /\ pc' = "acquire"
              \/ ~(closed /\ pc = "acquire") /\ Reached \subseteq Reached'
    PROVE  AtWork'
<1> SUFFICES ASSUME pc' \in {"acquire", "execute"} PROVE AtWork'
  BY DEF AtWork
<1>1. PICK v \in DOMAIN loaded :
         LET chunks == Range(SplitSql(loaded[v].up))
             unsent == {left[i] : i \in 1 .. Len(left) - 1}
         IN  /\ left \in Seq(Range(left)) /\ left # <<>> /\ left[Len(left)] = Record(v)
             /\ unsent \subseteq chunks
             /\ Claimed => \/ closed /\ pc = "acquire"
                          \/ \A chunk \in chunks \ unsent :
                                Codes(Statements(chunk)) \ Brackets \subseteq Reached
  BY DEF PoolInv, AtWork, Claimed
<1> DEFINE chunks == Range(SplitSql(loaded[v].up))
           unsent == {left[i] : i \in 1 .. Len(left) - 1}
<1>2. Claimed => \/ closed' /\ pc' = "acquire"
                 \/ \A chunk \in chunks \ unsent :
                       Codes(Statements(chunk)) \ Brackets \subseteq Reached'
  BY <1>1
<1>3. loaded' = loaded /\ left' = left /\ Record(v)' = Record(v) /\ Claimed' = Claimed
  BY ClaimFrame DEF Record
<1>4. QED
  BY <1>1, <1>2, <1>3 DEF AtWork, Claimed

\* A call begins on a connection that is idle and in order.
LEMMA UpPool == ASSUME IInv, PoolInv, NEW c \in DOMAIN conn, Up(c) PROVE PoolInv'
<1>1. /\ pc = "idle" /\ pc' = "pick" /\ c \in open /\ c # app /\ ~conn[c].aborted
      /\ UNCHANGED <<input, loadVars, left, mine, poolVars, app>>
  BY DEF Up, Idle
<1>2. BeforeCalls' /\ NoTransaction' /\ RecordedInEffect' /\ RecordsFollow'
  BY <1>1, SamePool DEF Loading, poolVars
<1>3. Alone'
  <2>1. ASSUME Undisturbed' PROVE app = None /\ \A d \in 1 .. size : ~conn[d].aborted
    <3>1. size = 1 /\ c = 1
      BY <2>1, PoolFacts, ClaimFrame, <1>1 DEF Undisturbed
    <3>2. app = None
      BY <1>1, <3>1, PoolFacts
    <3>3. QED
      BY <1>1, <3>1, <3>2
  <2>2. QED
    BY <1>1, <2>1 DEF Alone, input, poolVars
<1>4. AtWork'
  BY <1>1 DEF AtWork
<1>5. QED
  BY <1>2, <1>3, <1>4 DEF PoolInv

\* At the start of a script all of its chunks are left, and its record behind them.
LEMMA ApplyPool ==
    ASSUME SplitFaithful, NoneRecords, dir \in {w.dir : w \in Worlds},
           IInv, PoolInv, NEW v \in DOMAIN loaded, Apply(v)
    PROVE  PoolInv'
<1>1. /\ pc = "pick" /\ pc' = "acquire" /\ left' = SplitSql(loaded[v].up) \o <<Record(v)>>
      /\ UNCHANGED <<input, loadVars, mine, poolVars, app>>
  BY DEF Apply
<1>2. BeforeCalls' /\ NoTransaction' /\ RecordedInEffect' /\ RecordsFollow'
  BY <1>1, SamePool DEF Loading, poolVars
<1>3. Alone'
  BY <1>1, ClaimFrame DEF PoolInv, Alone, InCall, poolVars
<1>4. AtWork'
  <2> DEFINE split == SplitSql(loaded[v].up)
             unsent == {left'[i] : i \in 1 .. Len(left') - 1}
  <2>1. split \in Seq(Range(split))
    BY LoadedScripts
  <2>2. left' \in Seq(Range(left')) /\ left' # <<>> /\ left'[Len(left')] = Record(v)
        /\ unsent = Range(split)
    BY <1>1, <2>1, WithLast
  <2>3. loaded' = loaded /\ Record(v)' = Record(v)
    BY <1>1, ClaimFrame DEF Record
  <2>4. QED
    BY <2>2, <2>3 DEF AtWork
<1>5. QED
  BY <1>2, <1>3, <1>4 DEF PoolInv

\* The steps that touch no connection and send nothing.
LEMMA CallPool ==
    ASSUME IInv, PoolInv, UpReturns \/ AcquireFails \/ Cancelled \/ Close
                          \/ \E c \in DOMAIN conn : Acquire(c) \/ Grow(c) \/ AppAcquire(c)
    PROVE  PoolInv'
<1>1. /\ UNCHANGED <<input, loadVars, conn, committed>>
      /\ pc' = pc \/ (~Loading /\ ~Loading')
  <2>1. CASE UpReturns \/ AcquireFails \/ Cancelled \/ \E c \in DOMAIN conn : Acquire(c)
    BY <2>1 DEF UpReturns, AcquireFails, Cancelled, Stops, Acquire, Loading, poolVars
  <2>2. CASE Close \/ \E c \in DOMAIN conn : Grow(c) \/ AppAcquire(c)
    <3>1. UNCHANGED runVars /\ UNCHANGED <<input, loadVars, conn, committed>>
      BY <2>2 DEF Close, Grow, AppAcquire, poolVars
    <3>2. pc' = pc
      BY <3>1 DEF runVars
    <3>3. QED
      BY <3>1, <3>2, Zenon
  <2>3. QED
    BY <2>1, <2>2
<1>2. /\ BeforeCalls' /\ NoTransaction' /\ RecordedInEffect' /\ RecordsFollow'
      /\ Reached' = Reached
  BY <1>1, SamePool
<1>3. Alone'
  <2>1. ASSUME Undisturbed, InCall' PROVE InCall /\ app' = app
    BY <2>1 DEF UpReturns, AcquireFails, Cancelled, Stops, Close, Acquire, Grow, AppAcquire,
       InCall, Undisturbed, runVars
  <2>2. QED
    BY <1>1, <2>1, ClaimFrame DEF PoolInv, Alone
<1>4. AtWork'
  <2>1. CASE pc' \notin {"acquire", "execute"}
    BY <2>1 DEF AtWork
  <2>2. CASE pc' \in {"acquire", "execute"}
    <3>1. /\ left' = left /\ pc \in {"acquire", "execute"}
          /\ (closed' /\ pc' = "acquire") \/ ~(closed /\ pc = "acquire")
      BY <2>2 DEF UpReturns, AcquireFails, Cancelled, Stops, Close, Acquire, Grow, AppAcquire,
         poolVars, runVars
    <3>2. QED
      BY <1>1, <1>2, <3>1, SameWork
  <2>3. QED
    BY <2>1, <2>2
<1>5. QED
  BY <1>2, <1>3, <1>4 DEF PoolInv

\* Closing an idle connection takes back what it has not committed: nothing where there
\* are no transactions, and on an undisturbed connection nothing of a call under way.
LEMMA ReapPool == ASSUME IInv, PoolInv, NEW c \in DOMAIN conn, Reap(c) PROVE PoolInv'
<1>1. /\ c \in 1 .. size /\ c # mine /\ (quiet => pc = "idle" \/ closed)
      /\ UNCHANGED <<input, loadVars, runVars, committed, closed, app>>
      /\ size' = size /\ pc' = pc /\ left' = left
  BY PoolFacts DEF Reap, Idle, input, runVars
<1>2. \A d \in 1 .. size : conn'[d] = IF d = c THEN Fresh ELSE conn[d]
  BY PoolFacts DEF Reap
<1>3. ASSUME NEW d \in 1 .. size
      PROVE  /\ conn'[d].writes = IF d = c THEN {} ELSE conn[d].writes
             /\ conn'[d].tx => conn[d].tx
             /\ conn'[d].aborted => conn[d].aborted
  <2>1. CASE d = c
    <3>1. conn'[d] = Fresh
      BY <1>2, <2>1
    <3>2. QED
      BY <2>1, <3>1 DEF Fresh
  <2>2. CASE d # c
    <3>1. conn'[d] = conn[d]
      BY <1>2, <2>2
    <3>2. QED
      BY <2>2, <3>1
  <2>3. QED
    BY <2>1, <2>2
<1>4. BeforeCalls' /\ NoTransaction' /\ Alone'
  BY <1>1, <1>3, ClaimFrame DEF PoolInv, BeforeCalls, NoTransaction, Alone, Loading, InCall
<1>5. RecordedInEffect'
  BY <1>1, ClaimFrame DEF PoolInv, RecordedInEffect, Recorded, Record, Claimed
<1>6. RecordsFollow'
  <2>1. ASSUME Claimed, NEW d \in 1 .. size PROVE Explained(Visible(d)')
    <3>1. Explained(committed) /\ Explained(Visible(d))
      BY <2>1 DEF PoolInv, RecordedInEffect, Recorded, RecordsFollow, Explained, Claimed
    <3>2. Visible(d)' \in {committed, Visible(d)}
      BY <1>1, <1>3 DEF Visible
    <3>3. QED
      BY <3>1, <3>2
  <2>2. QED
    BY <1>1, <2>1, ClaimFrame DEF RecordsFollow, Explained, Record, Claimed
<1>7. AtWork'
  <2>1. CASE pc \notin {"acquire", "execute"}
    BY <1>1, <2>1 DEF AtWork
  <2>2. CASE pc \in {"acquire", "execute"} /\ Undisturbed
    <3>1. closed /\ pc = "acquire"
      BY <1>1, <2>2, PoolFacts DEF Undisturbed
    <3>2. QED
      BY <1>1, <3>1, SameWork
  <2>3. CASE pc \in {"acquire", "execute"} /\ ~Undisturbed
    <3>1. ASSUME Claimed PROVE Reached' = Reached
      <4>1. \A d \in 1 .. size : conn[d].writes = {}
        BY <2>3, <3>1, PoolFacts DEF PoolInv, NoTransaction, Settled, Claimed
      <4>2. \A d \in 1 .. size : conn'[d].writes = conn[d].writes
        BY <1>3, <4>1
      <4>3. QED
        BY <1>1, <4>2 DEF Reached
    <3>2. QED
      BY <1>1, <2>3, <3>1, SameWork
  <2>4. QED
    BY <2>1, <2>2, <2>3
<1>8. QED
  BY <1>4, <1>5, <1>6, <1>7 DEF PoolInv

\* Another caller's write is nobody's record, and no call goes on around it where
\* transactions are claimed for.
LEMMA AppWritesPool == ASSUME IInv, PoolInv, AppWrites PROVE PoolInv'
<1>1. /\ app \in 1 .. size /\ app # None
      /\ Runs(app, <<"app">>) \/ Fails(app)
      /\ UNCHANGED <<input, loadVars, runVars>>
  BY PoolFacts DEF AppWrites
<1>2. size' = size /\ pc' = pc /\ left' = left /\ Loading' = Loading /\ InCall' = InCall
  BY <1>1 DEF input, runVars, Loading, InCall
<1>3. <<"app">> \notin Brackets /\ \A v : <<"app">> # Record(v)
  BY StatementsDiffer
<1>4. Claimed' = Claimed /\ Undisturbed' = Undisturbed /\ AllUnbracketed' = AllUnbracketed
  BY <1>1, ClaimFrame
<1>5. closed' = closed
  BY <1>1, RunsOutcome DEF Fails, Runs
<1>6. Alone'
  BY <1>1, <1>2, <1>4 DEF PoolInv, Alone
<1>7. Claimed => Explained(committed) /\ \A d \in 1 .. size : Explained(Visible(d))
  BY DEF PoolInv, RecordedInEffect, Recorded, RecordsFollow, Explained, Claimed
<1>8. ASSUME /\ Reached \subseteq Reached'
             /\ \A d \in 1 .. size : conn'[d].tx => conn[d].tx
             /\ Loading => committed' \subseteq {<<"app">>}
             /\ Claimed => Explained(committed') /\ \A d \in 1 .. size : Explained(Visible(d)')
      PROVE  PoolInv'
  <2>1. BeforeCalls'
    BY <1>2, <1>8 DEF BeforeCalls
  <2>2. NoTransaction'
    BY <1>2, <1>4, <1>8 DEF PoolInv, NoTransaction
  <2>3. loaded' = loaded /\ \A v : Record(v)' = Record(v) /\ Effects(v)' = Effects(v)
    BY <1>1, ClaimFrame DEF Record
  <2>4. RecordedInEffect' /\ RecordsFollow'
    BY <1>2, <1>4, <1>8, <2>3 DEF RecordedInEffect, Recorded, RecordsFollow, Explained, Claimed
  <2>5. AtWork'
    <3>1. (closed' /\ pc' = "acquire") \/ ~(closed /\ pc = "acquire")
      BY <1>2, <1>5, Zenon
    <3>2. QED
      BY <1>1, <1>2, <1>8, <3>1, SameWork
  <2>6. QED
    BY <1>6, <2>1, <2>2, <2>4, <2>5 DEF PoolInv
<1>9. CASE Runs(app, <<"app">>)
  <2>1. Outcome(app, <<"app">>)
    <3>1. conn[app].aborted \in BOOLEAN /\ <<"app">> # <<"COMMIT">>
      BY <1>1, <1>3, PoolFacts DEF Settled, Brackets
    <3>2. QED
      BY <1>9, <3>1, RunsOutcome
  <2>2. Reached \subseteq Reached'
    BY <1>1, <1>2, <2>1, ReachedGrows
  <2>3. \A d \in 1 .. size : conn'[d].tx => conn[d].tx
    BY <1>1, <1>3, <2>1, OutcomeFields DEF Brackets
  <2>4. Loading => committed' \subseteq {<<"app">>}
    BY <1>1, <1>3, <2>1, OutcomeFields DEF PoolInv, BeforeCalls, NoTransaction, Brackets
  <2>5. ASSUME Claimed
        PROVE  Explained(committed') /\ \A d \in 1 .. size : Explained(Visible(d)')
    BY <1>1, <1>2, <1>3, <1>7, <2>1, <2>5, ExplainedStays
  <2>6. QED
    BY <1>8, <2>2, <2>3, <2>4, <2>5
<1>10. CASE Fails(app)
  <2>1. committed' = committed
        /\ \A d \in 1 .. size : conn'[d].writes = conn[d].writes /\ conn'[d].tx = conn[d].tx
    BY <1>1, <1>10, FailsFields
  <2>2. Reached' = Reached /\ \A d \in 1 .. size : Visible(d)' = Visible(d)
    BY <1>2, <2>1 DEF Reached, Visible
  <2>3. Loading => committed' \subseteq {<<"app">>}
    BY <2>1 DEF PoolInv, BeforeCalls
  <2>4. QED
    BY <1>7, <1>8, <2>1, <2>2, <2>3
<1>11. QED
  BY <1>1, <1>9, <1>10

\* The runner's own statement, whether the call goes on behind it or ends.
LEMMA ExecutePool ==
    ASSUME SplitFaithful, NoneRecords, dir \in {w.dir : w \in Worlds},
           IInv, PoolInv, Execute \/ ExecuteFails
    PROVE  PoolInv'
<1>1. /\ pc = "execute" /\ mine \in 1 .. size /\ ~Loading /\ InCall
      /\ UNCHANGED <<input, loadVars, app>> /\ size' = size
      /\ pc' \in {"idle", "pick", "acquire"} /\ ~Loading'
  BY PoolFacts DEF Execute, ExecuteFails, Stops, Loading, InCall, input
<1>2. /\ Claimed' = Claimed /\ Undisturbed' = Undisturbed /\ AllUnbracketed' = AllUnbracketed
      /\ loaded' = loaded /\ \A v : Record(v)' = Record(v) /\ Effects(v)' = Effects(v)
  BY <1>1, ClaimFrame DEF Record
<1>3. BeforeCalls'
  BY <1>1 DEF BeforeCalls
<1>4. CASE Fails(mine) /\ pc' = "idle"
  <2>1. committed' = committed
        /\ \A d \in 1 .. size : conn'[d].writes = conn[d].writes /\ conn'[d].tx = conn[d].tx
    BY <1>1, <1>4, FailsFields
  <2>2. \A d \in 1 .. size : Visible(d)' = Visible(d)
    BY <2>1 DEF Visible
  <2>3. NoTransaction' /\ Alone' /\ AtWork'
    BY <1>1, <1>2, <1>4, <2>1 DEF PoolInv, NoTransaction, Alone, InCall, AtWork
  <2>4. RecordedInEffect' /\ RecordsFollow'
    BY <1>1, <1>2, <2>1, <2>2
    DEF PoolInv, RecordedInEffect, Recorded, RecordsFollow, Explained, Claimed
  <2>5. QED
    BY <1>3, <2>3, <2>4 DEF PoolInv
<1>5. CASE Executes(mine)
  <2>1. Claimed => /\ Explained(committed') /\ \A d \in 1 .. size : Explained(Visible(d)')
                   /\ AllUnbracketed => \A d \in 1 .. size : ~conn'[d].tx
                   /\ Undisturbed => \A d \in 1 .. size : ~conn'[d].aborted
    BY <1>1, <1>5, ExecuteKeeps
  <2>2. NoTransaction' /\ Alone'
    BY <1>1, <1>2, <2>1 DEF PoolInv, NoTransaction, Alone, Claimed
  <2>3. RecordedInEffect' /\ RecordsFollow'
    BY <1>1, <1>2, <2>1 DEF RecordedInEffect, Recorded, RecordsFollow, Explained, Claimed
  <2>4. AtWork'
    <3> SUFFICES ASSUME pc' = "acquire" PROVE AtWork'
      BY <1>1 DEF AtWork
    <3>1. Len(left) # 1 /\ left' = Tail(left)
      BY <1>1 DEF Execute, ExecuteFails, Stops
    <3>2. PICK v \in DOMAIN loaded :
             LET chunks == Range(SplitSql(loaded[v].up))
                 unsent == {left[i] : i \in 1 .. Len(left) - 1}
             IN  /\ left \in Seq(Range(left)) /\ left # <<>> /\ left[Len(left)] = Record(v)
                 /\ unsent \subseteq chunks
                 /\ Claimed => \A chunk \in chunks \ unsent :
                                  Codes(Statements(chunk)) \ Brackets \subseteq Reached
      BY <1>1 DEF PoolInv, AtWork, Claimed
    <3> DEFINE chunks == Range(SplitSql(loaded[v].up))
               unsent == {left[i] : i \in 1 .. Len(left) - 1}
               rest == {left'[i] : i \in 1 .. Len(left') - 1}
    <3>3. /\ left' \in Seq(Range(left')) /\ left' # <<>> /\ left'[Len(left')] = Record(v)
          /\ unsent = {Head(left)} \cup rest
      BY <3>1, <3>2, Sending
    <3>4. rest \subseteq chunks
      BY <3>2, <3>3
    <3>5. ASSUME Claimed, NEW chunk \in chunks \ rest
          PROVE  Codes(Statements(chunk)) \ Brackets \subseteq Reached'
      <4>1. CASE chunk \in unsent
        <5>1. chunk = Head(left)
          BY <3>3, <3>5, <4>1
        <5>2. QED
          BY <1>1, <1>5, <3>1, <3>5, <5>1, ExecuteKeeps
      <4>2. CASE chunk \notin unsent
        <5>1. Codes(Statements(chunk)) \ Brackets \subseteq Reached
          BY <3>2, <3>5, <4>2
        <5>2. QED
          BY <1>1, <1>5, <3>5, <5>1, ExecuteKeeps
      <4>3. QED
        BY <4>1, <4>2
    <3>6. QED
      BY <1>2, <3>3, <3>4, <3>5 DEF AtWork, Claimed
  <2>5. QED
    BY <1>3, <2>2, <2>3, <2>4 DEF PoolInv
<1>6. (Fails(mine) /\ pc' = "idle") \/ Executes(mine)
  BY DEF Execute, ExecuteFails, Stops
<1>7. QED
  BY <1>4, <1>5, <1>6

LEMMA NextPool ==
    ASSUME SplitFaithful, NoneRecords, dir \in {w.dir : w \in Worlds},
           IInv, PoolInv, [Next]_vars
    PROVE  PoolInv'
<1>1. CASE Load \/ LoadFails
  BY <1>1, LoadPool
<1>2. CASE Run
  BY <1>2, UpPool, ApplyPool, CallPool, ExecutePool DEF Run
<1>3. CASE \E c \in DOMAIN conn : Acquire(c) \/ Grow(c) \/ Reap(c) \/ AppAcquire(c)
  BY <1>3, CallPool, ReapPool
<1>4. CASE ExecuteFails \/ Cancelled \/ AcquireFails \/ AppWrites \/ Close
  BY <1>4, CallPool, ExecutePool, AppWritesPool
<1>5. CASE UNCHANGED vars
  <2>1. /\ UNCHANGED <<input, loadVars, conn, committed>> /\ pc' = pc /\ left' = left
        /\ closed' = closed /\ app' = app
    BY <1>5 DEF vars, runVars, poolVars
  <2>2. /\ BeforeCalls' /\ NoTransaction' /\ RecordedInEffect' /\ RecordsFollow'
        /\ Reached' = Reached
    <3>1. pc' = pc \/ (~Loading /\ ~Loading')
      BY <2>1, Zenon
    <3>2. QED
      BY <2>1, <3>1, SamePool, Zenon
  <2>3. Alone'
    BY <2>1, ClaimFrame DEF PoolInv, Alone, InCall
  <2>4. (closed' /\ pc' = "acquire") \/ ~(closed /\ pc = "acquire")
    BY <2>1, Zenon
  <2>5. AtWork'
    BY <2>1, <2>2, <2>4, SameWork
  <2>6. QED
    BY <2>2, <2>3, <2>5 DEF PoolInv
<1>6. QED
  BY <1>1, <1>2, <1>3, <1>4, <1>5 DEF Next

\* Whatever fails and however often a call to up is repeated, a version that is recorded
\* has what its script says in effect: for scripts without BEGIN and COMMIT with any pool
\* and any other users of it, for all scripts on one connection that nobody else uses
\* during a call (Migrator::up, DbPool::exec).  That split_sql cuts the scripts as SQL
\* reads them is assumed here: it is what SplitAsRead checks of them.
THEOREM RecordsInEffect ==
    ASSUME SplitFaithful, NoneRecords
    PROVE  Spec => []RecordedInEffect
<1>1. PoolInv => RecordedInEffect
  BY DEF PoolInv
<1>2. dir \in {w.dir : w \in Worlds} /\ IInv /\ PoolInv /\ [Next]_vars => PoolInv'
  BY NextPool
<1>3. QED
  BY <1>1, <1>2, InitPool, Invariance, FilesKept, PTL DEF Spec
-----------------------------------------------------------------------------
(***************************************************************************)
(* BEGIN and COMMIT make a script atomic on an undisturbed connection.     *)
(***************************************************************************)
\* The chunks of a script, and what the server executes for one of them.
Chunks(v) == SplitSql(loaded[v].up)
Code(v, k) == Codes(Statements(Chunks(v)[k]))

\* A script of which a part is there, if only in the transaction, is the first that is
\* not recorded: the next call begins with it.
Partial(v) == Effects(v) \cap Visible(1) # {} /\ ~(Effects(v) \subseteq Visible(1))
Pending == {u \in DOMAIN loaded : Record(u) \notin Visible(1)}
PartialFirst == \A v \in DOMAIN loaded : Bracketed(v) /\ Partial(v) => \A u \in Pending : v <= u

\* k chunks of script v have been sent.  Between BEGIN and COMMIT the transaction is open.
SentUpTo(v, k) == /\ Len(left) = Len(Chunks(v)) - k + 1
                  /\ \A i \in 1 .. Len(Chunks(v)) - k : left[i] = Chunks(v)[k + i]
                  /\ left[Len(left)] = Record(v)
Enclosed(v, k) == /\ \E i \in 1 .. k : <<"BEGIN">> \in Code(v, i)
                  /\ \E j \in k + 1 .. Len(Chunks(v)) : <<"COMMIT">> \in Code(v, j)

\* A call works through what is pending in order.  (When the pool is closed under it, it
\* executes nothing more.)
AtScript(v, k) == /\ Bracketed(v) /\ Enclosed(v, k) => conn[1].tx
                  /\ Pending = todo \cup {v} /\ \A u \in todo : v < u
InOrder ==
    /\ pc = "pick" /\ ~closed => todo = Pending
    /\ pc \in {"acquire", "execute"} => \E v \in DOMAIN loaded : \E k \in 0 .. Len(Chunks(v)) :
          SentUpTo(v, k) /\ ((closed /\ pc = "acquire") \/ AtScript(v, k))

BracketInv == Undisturbed => BracketsHold /\ PartialFirst /\ InOrder

\* In a script that begins with BEGIN and ends with COMMIT, a chunk with another statement
\* comes behind BEGIN and before COMMIT, and nothing comes behind COMMIT.
LEMMA ChunksEnclosed ==
    ASSUME SplitShape, NEW w \in Worlds, NEW f \in w.dir, NEW s, s = f.script,
           Len(Sent(s)) > 2, Sent(s)[1] = <<"BEGIN">>, Sent(s)[Len(Sent(s))] = <<"COMMIT">>,
           \A i \in 2 .. Len(Sent(s)) - 1 : Sent(s)[i] \notin Brackets,
           NEW k \in 1 .. Len(SplitSql(s))
    PROVE  LET code(j) == Codes(Statements(SplitSql(s)[j]))
           IN  /\ code(k) \ Brackets # {} =>
                    /\ \E i \in 1 .. k : <<"BEGIN">> \in code(i)
                    /\ \E j \in k .. Len(SplitSql(s)) : <<"COMMIT">> \in code(j)
               /\ <<"COMMIT">> \in code(k) => \A j \in k + 1 .. Len(SplitSql(s)) : code(j) = {}
<1> DEFINE code(j) == Codes(Statements(SplitSql(s)[j]))
           sent == Sent(s)
           chunks == SplitSql(s)
<1>1. s \in {g.script : g \in w.dir}
  OBVIOUS
<1>2. sent \in Seq(Range(sent)) /\ chunks \in Seq(Range(chunks))
  BY <1>1 DEF SplitShape
<1>3. PICK at \in [DOMAIN sent -> DOMAIN chunks] :
         /\ \A i, j \in DOMAIN sent : i <= j => at[i] <= at[j]
         /\ \A j \in DOMAIN chunks :
               code(j) = {sent[i] : i \in {h \in DOMAIN at : at[h] = j}}
  BY <1>1 DEF SplitShape
<1>4. PICK n \in Nat : n = Len(sent) /\ DOMAIN sent = 1 .. n /\ n > 2
  BY <1>2, LenProperties
<1>5. PICK m \in Nat : m = Len(chunks) /\ DOMAIN chunks = 1 .. m /\ k \in 1 .. m
  BY <1>2, LenProperties
<1>6. /\ sent[1] = <<"BEGIN">> /\ sent[n] = <<"COMMIT">>
      /\ \A i \in 2 .. n - 1 : sent[i] \notin Brackets
  BY <1>4
<1>7. \A j \in 1 .. m : code(j) = {sent[i] : i \in {h \in 1 .. n : at[h] = j}}
  BY <1>3, <1>4, <1>5
<1>8. /\ \A i, j \in 1 .. n : i <= j => at[i] <= at[j]
      /\ \A i \in 1 .. n : at[i] \in 1 .. m
  BY <1>3, <1>4, <1>5
<1> HIDE DEF code, sent, chunks
<1>9. 1 \in 1 .. n /\ n \in 1 .. n /\ \A i \in 1 .. n : 1 <= i /\ i <= n
  BY <1>4
<1>10. \A i \in 1 .. n : at[1] <= at[i] /\ at[i] <= at[n]
  BY <1>8, <1>9
<1>11. ASSUME code(k) \ Brackets # {}
       PROVE  /\ \E i \in 1 .. k : <<"BEGIN">> \in code(i)
              /\ \E j \in k .. m : <<"COMMIT">> \in code(j)
  <2>1. PICK i \in 1 .. n : at[i] = k
    BY <1>5, <1>7, <1>11
  <2>2. at[1] \in 1 .. k /\ at[n] \in k .. m
    BY <1>5, <1>8, <1>9, <1>10, <2>1
  <2>3. \A h \in 1 .. n : sent[h] \in code(at[h])
    BY <1>7, <1>8
  <2>4. <<"BEGIN">> \in code(at[1]) /\ <<"COMMIT">> \in code(at[n])
    BY <1>6, <1>9, <2>3
  <2>5. QED
    BY <2>2, <2>4
<1>12. ASSUME <<"COMMIT">> \in code(k), NEW j \in k + 1 .. m PROVE code(j) = {}
  <2>1. PICK i \in 1 .. n : sent[i] = <<"COMMIT">> /\ at[i] = k
    BY <1>5, <1>7, <1>12
  <2>2. i # 1 /\ i \notin 2 .. n - 1
    BY <1>6, <2>1, StatementsDiffer DEF Brackets
  <2>3. i = n
    BY <1>4, <2>2
  <2>4. \A h \in 1 .. n : at[h] # j
    <3>1. ASSUME NEW h \in 1 .. n PROVE at[h] # j
      <4>1. at[h] <= k /\ at[h] \in 1 .. m
        BY <1>8, <1>10, <2>1, <2>3
      <4>2. QED
        BY <1>5, <4>1
    <3>2. QED
      BY <3>1
  <2>5. j \in 1 .. m
    BY <1>5
  <2>6. QED
    BY <1>7, <2>4, <2>5
<1>13. QED
  BY <1>5, <1>11, <1>12 DEF code, chunks

\* What the hypotheses say of scripts in brackets that were loaded.
LEMMA LoadedBrackets ==
    ASSUME SplitFaithful, NoneRecords, Apart, dir \in {w.dir : w \in Worlds}, IInv,
           NEW v \in DOMAIN loaded
    PROVE  /\ v \in Nat
           /\ Len(Chunks(v)) \in Nat /\ Range(Chunks(v)) = {Chunks(v)[k] : k \in 1 .. Len(Chunks(v))}
           /\ \A k \in 1 .. Len(Chunks(v)) : Code(v, k) \subseteq Range(Sent(loaded[v].up))
           /\ <<"app">> \notin Range(Sent(loaded[v].up))
           /\ \A u \in DOMAIN loaded :
                 /\ Record(u) \notin Range(Sent(loaded[v].up))
                 /\ u # v => Range(Sent(loaded[u].up)) \cap Range(Sent(loaded[v].up)) \subseteq Brackets
           /\ Bracketed(v) =>
                 /\ Effects(v) = Range(Sent(loaded[v].up)) \ Brackets
                 /\ \A e \in Effects(v) : \E k \in 1 .. Len(Chunks(v)) : e \in Code(v, k)
                 /\ \A k \in 1 .. Len(Chunks(v)) :
                       /\ Code(v, k) \ Brackets # {} =>
                            /\ \E i \in 1 .. k : <<"BEGIN">> \in Code(v, i)
                            /\ \E j \in k .. Len(Chunks(v)) : <<"COMMIT">> \in Code(v, j)
                       /\ <<"COMMIT">> \in Code(v, k) =>
                            \A j \in k + 1 .. Len(Chunks(v)) : Code(v, j) = {}
<1>1. PICK w \in Worlds : dir = w.dir
  OBVIOUS
<1>2. \A u \in DOMAIN loaded : \E f \in w.dir :
         f.kind = "up" /\ f.version = u /\ loaded[u].up = f.script
  BY <1>1 DEF IInv, ReadAsSeen, File
<1>3. PICK f \in w.dir : f.kind = "up" /\ f.version = v /\ loaded[v].up = f.script
  BY <1>2
<1> DEFINE s == loaded[v].up
<1>4. v \in Nat
  BY <1>3, ScriptsAssumption
<1>5. /\ Chunks(v) \in Seq(Range(Chunks(v)))
      /\ Range(Sent(s)) = UNION {Codes(Statements(chunk)) : chunk \in Range(Chunks(v))}
      /\ Plain(s) => Sent(s) = Said(s)
      /\ \A u \in DOMAIN loaded : Record(u) \notin Range(Sent(s))
  BY LoadedScripts DEF Chunks
<1>6. Len(Chunks(v)) \in Nat /\ Range(Chunks(v)) = {Chunks(v)[k] : k \in 1 .. Len(Chunks(v))}
  BY <1>5, LenProperties DEF Range
<1>7. Range(Sent(s)) = UNION {Code(v, k) : k \in 1 .. Len(Chunks(v))}
  BY <1>5, <1>6 DEF Code
<1>8. <<"app">> \notin Range(Sent(s))
  BY <1>3 DEF Apart
<1>9. ASSUME NEW u \in DOMAIN loaded, u # v
      PROVE  Range(Sent(loaded[u].up)) \cap Range(Sent(s)) \subseteq Brackets
  <2>1. PICK g \in w.dir : g.kind = "up" /\ g.version = u /\ loaded[u].up = g.script
    BY <1>2
  <2>2. QED
    BY <1>3, <1>9, <2>1 DEF Apart
<1>10. ASSUME Bracketed(v)
       PROVE  /\ Effects(v) = Range(Sent(s)) \ Brackets
              /\ \A k \in 1 .. Len(Chunks(v)) :
                    /\ Code(v, k) \ Brackets # {} =>
                         /\ \E i \in 1 .. k : <<"BEGIN">> \in Code(v, i)
                         /\ \E j \in k .. Len(Chunks(v)) : <<"COMMIT">> \in Code(v, j)
                    /\ <<"COMMIT">> \in Code(v, k) =>
                         \A j \in k + 1 .. Len(Chunks(v)) : Code(v, j) = {}
  <2>1. /\ Plain(s) /\ Len(Sent(s)) > 2
        /\ Sent(s)[1] = <<"BEGIN">> /\ Sent(s)[Len(Sent(s))] = <<"COMMIT">>
        /\ \A i \in 2 .. Len(Sent(s)) - 1 : Sent(s)[i] \notin Brackets
    BY <1>10 DEF Bracketed
  <2>2. Effects(v) = Range(Sent(s)) \ Brackets
    BY <1>5, <2>1 DEF Effects
  <2>3. SplitShape
    BY DEF SplitFaithful
  <2> DEFINE code(j) == Codes(Statements(SplitSql(s)[j]))
  <2>4. ASSUME NEW k \in 1 .. Len(SplitSql(s))
        PROVE  /\ code(k) \ Brackets # {} =>
                    /\ \E i \in 1 .. k : <<"BEGIN">> \in code(i)
                    /\ \E j \in k .. Len(SplitSql(s)) : <<"COMMIT">> \in code(j)
               /\ <<"COMMIT">> \in code(k) => \A j \in k + 1 .. Len(SplitSql(s)) : code(j) = {}
    <3>1. f \in w.dir /\ s = f.script
      BY <1>3
    <3> HIDE DEF s
    <3>2. QED
      BY <2>1, <2>3, <2>4, <3>1, ChunksEnclosed, Zenon
  <2>5. Chunks(v) = SplitSql(s) /\ \A k : Code(v, k) = code(k)
    BY DEF Chunks, Code
  <2> HIDE DEF code
  <2>6. QED
    BY <2>2, <2>4, <2>5
<1>11. Bracketed(v) => \A e \in Effects(v) : \E k \in 1 .. Len(Chunks(v)) : e \in Code(v, k)
  BY <1>7, <1>10
<1>12. \A u \in DOMAIN loaded :
          /\ Record(u) \notin Range(Sent(s))
          /\ u # v => Range(Sent(loaded[u].up)) \cap Range(Sent(s)) \subseteq Brackets
  BY <1>5, <1>9
<1>13. \A k \in 1 .. Len(Chunks(v)) : Code(v, k) \subseteq Range(Sent(s))
  BY <1>7
<1>14. QED
  BY <1>4, <1>6, <1>8, <1>10, <1>11, <1>12, <1>13

\* What the theorem assumes of the scripts.
Readable == SplitFaithful /\ NoneRecords /\ Apart /\ dir \in {w.dir : w \in Worlds}

LEMMA ScriptFrame ==
    ASSUME UNCHANGED <<input, loadVars>>
    PROVE  /\ loaded' = loaded /\ Undisturbed' = Undisturbed
           /\ \A v : /\ Chunks(v)' = Chunks(v) /\ Effects(v)' = Effects(v)
                     /\ Record(v)' = Record(v) /\ Bracketed(v)' = Bracketed(v)
                     /\ \A k : Code(v, k)' = Code(v, k)
BY ClaimFrame DEF Chunks, Code, Bracketed, Record, loadVars

LEMMA OneConnection ==
    ASSUME IInv, Undisturbed
    PROVE  size = 1 /\ 1 \in 1 .. size /\ \A c \in 1 .. size : c = 1
BY PoolFacts DEF Undisturbed

\* A script that is there in part is not recorded.
LEMMA PartialPending ==
    ASSUME IInv, PoolInv, Undisturbed, NEW v \in DOMAIN loaded, Bracketed(v), Partial(v)
    PROVE  v \in Pending
<1>1. Explained(Visible(1))
  BY OneConnection DEF PoolInv, RecordsFollow
<1>2. Plain(loaded[v].up)
  BY DEF Bracketed
<1>3. QED
  BY <1>1, <1>2 DEF Explained, Partial, Pending

\* Where a step writes nothing, no script is nearer to being there.
LEMMA NothingWritten ==
    ASSUME BracketsHold, PartialFirst, Undisturbed, UNCHANGED <<input, loadVars, committed>>,
           conn'[1].writes = conn[1].writes
    PROVE  BracketsHold' /\ PartialFirst' /\ Pending' = Pending
<1>1. Visible(1)' = Visible(1)
  BY DEF Visible
<1>2. Pending' = Pending
  BY <1>1, ScriptFrame DEF Pending
<1>3. \A v : Partial(v)' = Partial(v) /\ Whole(v)' = Whole(v)
  BY <1>1, ScriptFrame DEF Partial, Whole
<1>4. QED
  BY <1>2, <1>3, ScriptFrame DEF BracketsHold, PartialFirst

\* A statement keeps scripts in brackets whole if it commits no part of one, and is a
\* part of one only in a transaction.
LEMMA StatementKeepsWhole ==
    ASSUME IInv, Undisturbed, BracketsHold, PartialFirst, UNCHANGED <<input, loadVars>>,
           NEW s, Outcome(1, s),
           s = <<"COMMIT">> => \A p \in DOMAIN loaded : Bracketed(p) => ~Partial(p),
           s \notin Brackets => \A p \in DOMAIN loaded : Bracketed(p) /\ s \in Effects(p) =>
                                   conn[1].tx /\ \A u \in Pending : p <= u
    PROVE  /\ BracketsHold' /\ PartialFirst'
           /\ Visible(1) \subseteq Visible(1)'
           /\ Visible(1)' \subseteq Visible(1) \cup ({s} \ Brackets)
           /\ s \notin Brackets => s \in Visible(1)'
<1>1. 1 \in 1 .. size
  BY OneConnection
<1>2. /\ Visible(1)' = Visible(1) \cup ({s} \ Brackets)
      /\ \/ committed' = committed
         \/ s \notin Brackets /\ ~conn[1].tx /\ committed' = committed \cup {s}
         \/ s = <<"COMMIT">> /\ committed' = Visible(1)
  <2>1. CASE s \notin Brackets
    <3>1. {s} \ Brackets = {s} /\ s # <<"BEGIN">> /\ s # <<"COMMIT">>
      BY <2>1 DEF Brackets
    <3>2. QED
      BY <1>1, <2>1, <3>1, OutcomeFields DEF Visible
  <2>2. CASE s \in Brackets
    <3>1. {s} \ Brackets = {}
      BY <2>2
    <3>2. QED
      BY <1>1, <2>2, <3>1, OutcomeFields DEF Visible
  <2>3. QED
    BY <2>1, <2>2
<1>3. ASSUME NEW p \in DOMAIN loaded, Bracketed(p) PROVE Whole(p)'
  <2>1. Whole(p) /\ Effects(p)' = Effects(p)
    BY <1>3, ScriptFrame DEF BracketsHold
  <2>2. CASE committed' = committed
    BY <2>1, <2>2 DEF Whole
  <2>3. CASE s \notin Brackets /\ ~conn[1].tx /\ committed' = committed \cup {s}
    <3>1. s \notin Effects(p)
      BY <1>3, <2>3
    <3>2. QED
      BY <2>1, <2>3, <3>1 DEF Whole
  <2>4. CASE s = <<"COMMIT">> /\ committed' = Visible(1)
    <3>1. ~Partial(p)
      BY <1>3, <2>4
    <3>2. QED
      BY <2>1, <2>4, <3>1 DEF Whole, Partial
  <2>5. QED
    BY <1>2, <2>2, <2>3, <2>4
<1>4. Pending' \subseteq Pending
  BY <1>2, ScriptFrame DEF Pending
<1>5. ASSUME NEW p \in DOMAIN loaded, Bracketed(p), Partial(p)', NEW u \in Pending'
      PROVE  p <= u
  <2>1. u \in Pending /\ Effects(p)' = Effects(p)
    BY <1>4, ScriptFrame
  <2>2. CASE Partial(p)
    BY <1>5, <2>1, <2>2 DEF PartialFirst
  <2>3. CASE ~Partial(p)
    <3>1. s \in Effects(p) /\ s \notin Brackets
      BY <1>2, <1>5, <2>1, <2>3 DEF Partial
    <3>2. QED
      BY <1>5, <2>1, <3>1
  <2>4. QED
    BY <2>2, <2>3
<1>6. BracketsHold'
  BY <1>3, ScriptFrame DEF BracketsHold
<1>7. PartialFirst'
  BY <1>5, ScriptFrame DEF PartialFirst
<1>8. QED
  BY <1>2, <1>6, <1>7
-----------------------------------------------------------------------------
LEMMA InitBracket == Init => BracketInv
<1> SUFFICES ASSUME Init PROVE BracketInv
  OBVIOUS
<1>1. DOMAIN loaded = {} /\ pc = "list"
  BY DEF Init
<1>2. QED
  BY <1>1 DEF BracketInv, BracketsHold, PartialFirst, InOrder

\* While files are read nothing of any script is there.
LEMMA LoadBracket ==
    ASSUME Readable, IInv, PoolInv, Load \/ LoadFails
    PROVE  BracketInv'
<1>1. /\ Loading /\ UNCHANGED <<input, poolVars>>
      /\ pc' \in {"list", "read", "failed", "idle"}
  BY DEF Load, LoadFails, ListEntry, ListEnds, ReadScripts, LoadEnds, Loading, runVars
<1> SUFFICES ASSUME Undisturbed' PROVE BracketsHold' /\ PartialFirst' /\ InOrder'
  BY DEF BracketInv
<1>2. Undisturbed /\ committed' = committed /\ conn' = conn /\ dir' = dir
  BY <1>1 DEF Undisturbed, input, poolVars
<1>3. committed \subseteq {<<"app">>} /\ conn[1].writes = {}
  BY <1>1, <1>2, PoolFacts, OneConnection DEF PoolInv, BeforeCalls, NoTransaction, Settled
<1>4. Visible(1)' = committed /\ committed' = committed
  BY <1>2, <1>3 DEF Visible
<1>5. ASSUME NEW v \in DOMAIN loaded', Bracketed(v)' PROVE (Effects(v) \cap committed = {})'
  <2>1. IInv'
    <3>1. [Next]_vars
      BY DEF Next
    <3>2. QED
      BY <3>1, NextIInv
  <2>2. PICK w \in Worlds : dir = w.dir
    BY DEF Readable
  <2>3. PICK f \in w.dir : f.kind = "up" /\ loaded'[v].up = f.script
    BY <1>2, <2>1, <2>2 DEF IInv, ReadAsSeen, File
  <2>4. Plain(f.script)
    BY <1>5, <2>3 DEF Bracketed
  <2>5. Sent(f.script) = Said(f.script)
    BY <2>4 DEF Readable, SplitFaithful
  <2>6. <<"app">> \notin Range(Said(f.script))
    BY <2>3, <2>5 DEF Readable, Apart
  <2>7. <<"app">> \notin Effects(v)'
    BY <2>3, <2>6 DEF Effects
  <2>8. QED
    BY <1>2, <1>3, <2>7
<1>6. BracketsHold'
  BY <1>5 DEF BracketsHold, Whole
<1>7. PartialFirst'
  <2>1. ASSUME NEW v \in DOMAIN loaded', Bracketed(v)' PROVE ~Partial(v)'
    BY <1>4, <1>5, <2>1 DEF Partial
  <2>2. QED
    BY <2>1 DEF PartialFirst
<1>8. InOrder'
  BY <1>1 DEF InOrder
<1>9. QED
  BY <1>6, <1>7, <1>8

\* A call goes on where it was when nothing is sent, or it is over.
LEMMA StillInOrder ==
    ASSUME InOrder, UNCHANGED <<input, loadVars, left, todo>>, Pending' = Pending,
           conn'[1].tx = conn[1].tx,
           pc' = "pick" /\ ~closed' => pc = "pick" /\ ~closed,
           pc' \in {"acquire", "execute"} => pc \in {"acquire", "execute"},
           closed /\ pc = "acquire" => closed' /\ pc' # "execute"
    PROVE  InOrder'
<1>1. pc' = "pick" /\ ~closed' => todo' = Pending'
  BY DEF InOrder
<1>2. ASSUME pc' \in {"acquire", "execute"}
      PROVE  \E v \in DOMAIN loaded : \E k \in 0 .. Len(Chunks(v)) :
                SentUpTo(v, k)' /\ ((closed' /\ pc' = "acquire") \/ AtScript(v, k)')
  <2>1. PICK v \in DOMAIN loaded : \E k \in 0 .. Len(Chunks(v)) :
           SentUpTo(v, k) /\ ((closed /\ pc = "acquire") \/ AtScript(v, k))
    BY <1>2 DEF InOrder
  <2>2. PICK k \in 0 .. Len(Chunks(v)) :
           SentUpTo(v, k) /\ ((closed /\ pc = "acquire") \/ AtScript(v, k))
    BY <2>1
  <2>3. SentUpTo(v, k)'
    BY <2>2, ScriptFrame DEF SentUpTo
  <2>4. AtScript(v, k) => AtScript(v, k)'
    BY ScriptFrame DEF AtScript, Enclosed
  <2>5. closed /\ pc = "acquire" => closed' /\ pc' = "acquire"
    BY <1>2
  <2>6. QED
    BY <2>2, <2>3, <2>4, <2>5
<1>3. loaded' = loaded /\ \A v : Chunks(v)' = Chunks(v)
  BY ScriptFrame
<1>4. QED
  BY <1>1, <1>2, <1>3 DEF InOrder

\* The steps of a call that send nothing, and those of the pool that lose nothing.
LEMMA QuietBracket ==
    ASSUME BracketInv, UpReturns \/ AcquireFails \/ Cancelled \/ Close
                       \/ \E c \in DOMAIN conn : Acquire(c) \/ Grow(c) \/ AppAcquire(c)
    PROVE  BracketInv'
<1>1. UNCHANGED <<input, loadVars, conn, committed>>
  BY DEF UpReturns, AcquireFails, Cancelled, Stops, Close, Acquire, Grow, AppAcquire, poolVars
<1> SUFFICES ASSUME Undisturbed PROVE BracketsHold' /\ PartialFirst' /\ InOrder'
  BY <1>1, ScriptFrame DEF BracketInv
<1>2. BracketsHold' /\ PartialFirst' /\ Pending' = Pending
  BY <1>1, NothingWritten DEF BracketInv
<1>3. InOrder'
  <2>1. CASE pc' = "idle"
    BY <2>1 DEF InOrder
  <2>2. CASE \E c \in DOMAIN conn : Acquire(c)
    <3>1. /\ pc = "acquire" /\ pc' = "execute" /\ ~closed
          /\ UNCHANGED <<left, todo>>
      BY <2>2 DEF Acquire
    <3>2. QED
      BY <1>1, <1>2, <3>1, StillInOrder DEF BracketInv
  <2>3. CASE Close \/ \E c \in DOMAIN conn : Grow(c) \/ AppAcquire(c)
    <3>1. UNCHANGED runVars /\ (closed => closed')
      BY <2>3 DEF Close, Grow, AppAcquire, poolVars
    <3>2. pc' = pc /\ UNCHANGED <<left, todo>>
      BY <3>1 DEF runVars
    <3>3. pc' = "pick" /\ ~closed' => pc = "pick" /\ ~closed
      BY <3>1, <3>2, Zenon
    <3>4. closed /\ pc = "acquire" => closed' /\ pc' # "execute"
      BY <3>1, <3>2
    <3>5. QED
      BY <1>1, <1>2, <3>2, <3>3, <3>4, StillInOrder DEF BracketInv
  <2>4. QED
    BY <2>1, <2>2, <2>3 DEF UpReturns, AcquireFails, Cancelled, Stops
<1>4. QED
  BY <1>2, <1>3

\* A call begins with what is not recorded.
LEMMA UpBracket ==
    ASSUME IInv, BracketInv, NEW c \in DOMAIN conn, Up(c) PROVE BracketInv'
<1>1. /\ UNCHANGED <<input, loadVars, conn, committed>> /\ pc' = "pick"
      /\ todo' = {v \in DOMAIN loaded : Record(v) \notin Visible(c)}
  BY DEF Up, poolVars
<1> SUFFICES ASSUME Undisturbed PROVE BracketsHold' /\ PartialFirst' /\ InOrder'
  BY <1>1, ScriptFrame DEF BracketInv
<1>2. BracketsHold' /\ PartialFirst' /\ Pending' = Pending
  BY <1>1, NothingWritten DEF BracketInv
<1>3. c = 1
  BY OneConnection, PoolFacts
<1>4. QED
  BY <1>1, <1>2, <1>3 DEF InOrder, Pending

\* It takes the least first.
LEMMA ApplyBracket ==
    ASSUME Readable, IInv, PoolInv, BracketInv, NEW v \in DOMAIN loaded, Apply(v)
    PROVE  BracketInv'
<1>1. /\ pc = "pick" /\ v \in todo /\ \A u \in todo : v <= u
      /\ todo' = todo \ {v} /\ pc' = "acquire"
      /\ left' = SplitSql(loaded[v].up) \o <<Record(v)>>
      /\ UNCHANGED <<input, loadVars, poolVars>>
  BY DEF Apply
<1>2. UNCHANGED <<conn, committed, closed>>
  BY <1>1 DEF poolVars
<1> SUFFICES ASSUME Undisturbed PROVE BracketsHold' /\ PartialFirst' /\ InOrder'
  BY <1>1, ScriptFrame DEF BracketInv
<1>3. BracketsHold' /\ PartialFirst' /\ Pending' = Pending
  BY <1>1, <1>2, NothingWritten DEF BracketInv
<1>4. SentUpTo(v, 0)' /\ 0 \in 0 .. Len(Chunks(v))
  <2>1. PICK n \in Nat : n = Len(Chunks(v)) /\ Chunks(v) \in Seq(Range(Chunks(v)))
    BY LoadedBrackets, LoadedScripts DEF Readable, Chunks
  <2>2. left' = Chunks(v) \o <<Record(v)>>
    BY <1>1 DEF Chunks
  <2>3. /\ Len(left') = n + 1 /\ left'[n + 1] = Record(v)
        /\ \A i \in 1 .. n : left'[i] = Chunks(v)[i]
    <3> DEFINE S == Range(Chunks(v)) \cup {Record(v)}
    <3>1. /\ Chunks(v) \in Seq(S) /\ <<Record(v)>> \in Seq(S)
          /\ Len(<<Record(v)>>) = 1 /\ <<Record(v)>>[1] = Record(v)
      BY <2>1, SeqMonotonic
    <3>2. /\ Len(left') = n + 1
          /\ \A i \in 1 .. n + 1 : left'[i] = IF i <= n THEN Chunks(v)[i] ELSE <<Record(v)>>[i - n]
      BY <2>1, <2>2, <3>1, ConcatProperties
    <3>3. n + 1 \in 1 .. n + 1 /\ ~(n + 1 <= n) /\ (n + 1) - n = 1
      BY <2>1
    <3>4. \A i \in 1 .. n : i \in 1 .. n + 1 /\ i <= n
      BY <2>1
    <3>5. QED
      BY <3>1, <3>2, <3>3, <3>4
  <2>4. n - 0 = n /\ 0 \in 0 .. n /\ \A i \in 1 .. n : 0 + i = i
    BY <2>1
  <2>5. Chunks(v)' = Chunks(v) /\ Record(v)' = Record(v)
    BY <1>1, ScriptFrame
  <2>6. QED
    BY <2>1, <2>3, <2>4, <2>5 DEF SentUpTo
<1>5. ~closed => AtScript(v, 0)'
  <2>1. ASSUME ~closed PROVE Pending = todo' \cup {v} /\ \A u \in todo' : v < u
    <3>1. todo = Pending
      BY <1>1, <2>1 DEF BracketInv, InOrder
    <3>2. v \in Nat /\ \A u \in todo : u \in Nat
      BY <3>1, LoadedBrackets DEF Readable, Pending
    <3>3. QED
      BY <1>1, <3>1, <3>2
  <2>2. ~Enclosed(v, 0)'
    BY DEF Enclosed
  <2>3. QED
    BY <1>3, <2>1, <2>2 DEF AtScript
<1>6. InOrder'
  <2>1. loaded' = loaded /\ Chunks(v)' = Chunks(v) /\ pc' = "acquire" /\ closed' = closed
    BY <1>1, <1>2, ScriptFrame
  <2>2. SentUpTo(v, 0)' /\ ((closed' /\ pc' = "acquire") \/ AtScript(v, 0)')
    BY <1>4, <1>5, <2>1, Zenon
  <2>3. QED
    BY <1>4, <2>1, <2>2 DEF InOrder
<1>7. QED
  BY <1>3, <1>6

\* A connection that is closed takes the parts of scripts in its transaction with it.
LEMMA ReapBracket ==
    ASSUME IInv, BracketInv, NEW c \in DOMAIN conn, Reap(c) PROVE BracketInv'
<1>1. /\ c \in 1 .. size /\ c # mine /\ (quiet => pc = "idle" \/ closed)
      /\ UNCHANGED <<input, loadVars, runVars, committed, closed>>
      /\ conn'[c] = Fresh
  BY PoolFacts DEF Reap, Idle
<1> SUFFICES ASSUME Undisturbed PROVE BracketsHold' /\ PartialFirst' /\ InOrder'
  BY <1>1, ScriptFrame DEF BracketInv
<1>2. c = 1 /\ conn'[1].writes = {} /\ quiet
  BY <1>1, OneConnection DEF Fresh, Undisturbed
<1>3. pc' = pc /\ left' = left /\ todo' = todo /\ closed' = closed
  BY <1>1 DEF runVars
<1>4. Visible(1)' = committed /\ committed' = committed
  BY <1>1, <1>2 DEF Visible
<1>5. BracketsHold'
  BY <1>4, ScriptFrame, <1>1 DEF BracketInv, BracketsHold, Whole
<1>6. PartialFirst'
  <2>1. ASSUME NEW v \in DOMAIN loaded, Bracketed(v) PROVE ~Partial(v)'
    <3>1. Whole(v) /\ Effects(v)' = Effects(v)
      BY <1>1, <2>1, ScriptFrame DEF BracketInv, BracketsHold
    <3>2. QED
      BY <1>4, <3>1 DEF Whole, Partial
  <2>2. QED
    BY <1>1, <2>1, ScriptFrame DEF PartialFirst
<1>7. InOrder'
  <2>1. pc = "execute" => mine = 1
    BY PoolFacts, OneConnection
  <2>2. pc \notin {"pick", "execute"} \/ (pc = "pick" /\ closed)
    BY <1>1, <1>2, <2>1
  <2>3. CASE pc # "acquire"
    BY <1>3, <2>2, <2>3 DEF InOrder
  <2>4. CASE pc = "acquire"
    <3>1. closed
      BY <1>1, <1>2, <2>4
    <3>2. PICK v \in DOMAIN loaded : \E h \in 0 .. Len(Chunks(v)) : SentUpTo(v, h)
      BY <2>4 DEF BracketInv, InOrder
    <3>3. PICK k \in 0 .. Len(Chunks(v)) : SentUpTo(v, k)
      BY <3>2
    <3>4. loaded' = loaded /\ Chunks(v)' = Chunks(v) /\ Record(v)' = Record(v)
      BY <1>1, ScriptFrame
    <3>5. SentUpTo(v, k)'
      BY <1>3, <3>3, <3>4 DEF SentUpTo
    <3>6. QED
      BY <1>3, <2>4, <3>1, <3>4, <3>5 DEF InOrder
  <2>5. QED
    BY <2>3, <2>4
<1>8. QED
  BY <1>5, <1>6, <1>7

\* Another caller writes between two calls, and no part of a script.
LEMMA AppWritesBracket ==
    ASSUME Readable, IInv, PoolInv, BracketInv, AppWrites PROVE BracketInv'
<1>1. /\ app \in 1 .. size /\ app # None
      /\ Runs(app, <<"app">>) \/ Fails(app)
      /\ UNCHANGED <<input, loadVars, runVars>>
  BY PoolFacts DEF AppWrites
<1> SUFFICES ASSUME Undisturbed PROVE BracketsHold' /\ PartialFirst' /\ InOrder'
  BY <1>1, ScriptFrame DEF BracketInv
<1>2. app = 1
  BY <1>1, OneConnection
<1>3. InOrder'
  <2>1. ~InCall /\ pc' = pc
    BY <1>1 DEF PoolInv, Alone, runVars
  <2>2. QED
    BY <2>1 DEF InOrder, InCall
<1>4. CASE Runs(app, <<"app">>)
  <2>1. <<"app">> \notin Brackets /\ <<"app">> # <<"COMMIT">>
    BY StatementsDiffer DEF Brackets
  <2>2. conn[1].aborted \in BOOLEAN
    BY OneConnection, PoolFacts DEF Settled
  <2>3. Outcome(1, <<"app">>)
    BY <1>2, <1>4, <2>1, <2>2, RunsOutcome
  <2>4. \A p \in DOMAIN loaded : Bracketed(p) => <<"app">> \notin Effects(p)
    BY LoadedBrackets DEF Readable
  <2>5. QED
    BY <1>1, <1>3, <2>1, <2>3, <2>4, StatementKeepsWhole DEF BracketInv
<1>5. CASE Fails(app)
  <2>1. committed' = committed /\ conn'[1].writes = conn[1].writes
    BY <1>2, <1>5, OneConnection, FailsFields
  <2>2. QED
    BY <1>1, <1>3, <2>1, NothingWritten DEF BracketInv
<1>6. QED
  BY <1>1, <1>4, <1>5

\* The runner at chunk k + 1 of script v, or at its record.
LEMMA AtHead ==
    ASSUME Readable, IInv, PoolInv, NEW v \in DOMAIN loaded, NEW k \in 0 .. Len(Chunks(v)),
           pc = "execute", SentUpTo(v, k)
    PROVE  /\ k \in Nat /\ Len(Chunks(v)) \in Nat
           /\ Len(left) = 1 => k = Len(Chunks(v)) /\ Head(left) = Record(v)
           /\ Len(left) # 1 =>
                /\ k + 1 \in 1 .. Len(Chunks(v)) /\ k + 1 \in 0 .. Len(Chunks(v))
                /\ Head(left) = Chunks(v)[k + 1]
                /\ left' = Tail(left) => SentUpTo(v, k + 1)' \/ ~(Chunks(v)' = Chunks(v) /\ Record(v)' = Record(v))
<1>1. PICK n \in Nat : n = Len(Chunks(v))
  BY LoadedBrackets DEF Readable
<1>2. /\ k \in Nat /\ k <= n /\ Len(left) = n - k + 1 /\ left[Len(left)] = Record(v)
      /\ \A i \in 1 .. n - k : left[i] = Chunks(v)[k + i]
  BY <1>1 DEF SentUpTo
<1>3. left \in Seq(Range(left)) /\ left # <<>>
  BY DEF PoolInv, AtWork
<1>4. PICK d \in Nat : d = n - k /\ n = k + d
  <2>1. \A a, b \in Nat : a <= b => b - a \in Nat /\ b = a + (b - a)
    OBVIOUS
  <2>2. n - k \in Nat /\ n = k + (n - k)
    BY <1>1, <1>2, <2>1, Zenon
  <2>3. QED
    BY <2>2, Zenon
<1>5. Len(left) = d + 1 /\ left[d + 1] = Record(v) /\ \A i \in 1 .. d : left[i] = Chunks(v)[k + i]
  BY <1>2, <1>4
<1>6. Head(left) = left[1]
  BY <1>3
<1>7. CASE d = 0
  <2>1. n = k /\ Len(left) = 1 /\ left[1] = Record(v)
    BY <1>4, <1>5, <1>7
  <2>2. QED
    BY <1>1, <1>2, <1>6, <2>1
<1>8. CASE d # 0
  <2>1. PICK m \in Nat : d = m + 1
    <3>1. d - 1 \in Nat /\ d = (d - 1) + 1
      BY <1>8
    <3>2. QED
      BY <3>1
  <2>2. 1 \in 1 .. d /\ k + 1 \in 1 .. n /\ k + 1 \in 0 .. n /\ n - (k + 1) = m /\ d + 1 # 1
    BY <1>4, <2>1
  <2>3. Head(left) = Chunks(v)[k + 1]
    BY <1>5, <1>6, <2>2
  <2>4. /\ Len(Tail(left)) = Len(left) - 1
        /\ \A i \in 1 .. Len(Tail(left)) : Tail(left)[i] = left[i + 1]
    BY <1>3, HeadTailProperties
  <2>5. Len(Tail(left)) = m + 1
    BY <1>5, <2>1, <2>4
  <2>6. \A i \in 1 .. m : /\ i \in 1 .. m + 1 /\ i + 1 \in 1 .. d
                           /\ k + (i + 1) = (k + 1) + i
    BY <1>2, <2>1
  <2>7. m + 1 \in 1 .. m + 1 /\ (m + 1) + 1 = d + 1
    BY <2>1
  <2>8. /\ \A i \in 1 .. m : Tail(left)[i] = Chunks(v)[(k + 1) + i]
        /\ Tail(left)[m + 1] = Record(v)
    BY <1>5, <2>4, <2>5, <2>6, <2>7
  <2>9. ASSUME left' = Tail(left), Chunks(v)' = Chunks(v), Record(v)' = Record(v)
        PROVE  SentUpTo(v, k + 1)'
    BY <1>1, <2>2, <2>5, <2>8, <2>9 DEF SentUpTo
  <2>10. QED
    BY <1>1, <1>2, <1>5, <2>2, <2>3, <2>9
<1>9. QED
  BY <1>7, <1>8

\* COMMIT is sent when all of its script was reached, so no script is there in part only.
LEMMA CommitsWhole ==
    ASSUME Readable, IInv, PoolInv, Undisturbed, PartialFirst, pc = "execute",
           NEW v \in DOMAIN loaded, NEW k \in 0 .. Len(Chunks(v)), SentUpTo(v, k), AtScript(v, k),
           k + 1 \in 1 .. Len(Chunks(v)), Code(v, k + 1) = {<<"COMMIT">>},
           NEW p \in DOMAIN loaded, Bracketed(p)
    PROVE  ~Partial(p)
<1> SUFFICES ASSUME Partial(p) PROVE FALSE
  OBVIOUS
<1>1. p = v
  <2>1. p \in Pending /\ v \in Pending /\ Pending = todo \cup {v} /\ \A u \in todo : v < u
    BY PartialPending DEF AtScript
  <2>2. p <= v
    BY <2>1 DEF PartialFirst
  <2>3. p \in Nat /\ v \in Nat
    BY LoadedBrackets DEF Readable
  <2>4. QED
    BY <2>1, <2>2, <2>3
<1>2. PICK n \in Nat : n = Len(Chunks(v)) /\ k \in Nat /\ k + 1 \in 1 .. n
  BY LoadedBrackets DEF Readable
<1>3. /\ \A e \in Effects(v) : \E i \in 1 .. n : e \in Code(v, i)
      /\ \A i \in 1 .. n : <<"COMMIT">> \in Code(v, i) => \A j \in i + 1 .. n : Code(v, j) = {}
      /\ Range(Chunks(v)) = {Chunks(v)[i] : i \in 1 .. n}
  BY <1>1, <1>2, LoadedBrackets DEF Readable
<1>4. \A j \in (k + 1) + 1 .. n : Code(v, j) = {}
  BY <1>2, <1>3
<1>5. PICK w \in DOMAIN loaded :
         /\ left[Len(left)] = Record(w)
         /\ \A chunk \in Range(SplitSql(loaded[w].up)) \ {left[i] : i \in 1 .. Len(left) - 1} :
               Codes(Statements(chunk)) \ Brackets \subseteq Reached
  BY DEF PoolInv, AtWork
<1>6. w = v
  BY <1>5, StatementsDiffer DEF SentUpTo
<1>7. PICK d \in Nat : d = n - k /\ n = k + d
  <2>1. \A a, b \in Nat : a + 1 \in 1 .. b => b - a \in Nat /\ b = a + (b - a)
    OBVIOUS
  <2>2. n - k \in Nat /\ n = k + (n - k)
    BY <1>2, <2>1, Zenon
  <2>3. QED
    BY <2>2, Zenon
<1>8. Len(left) - 1 = d /\ \A i \in 1 .. d : left[i] = Chunks(v)[k + i]
  <2>1. Len(left) = d + 1
    BY <1>2, <1>7 DEF SentUpTo
  <2>2. (d + 1) - 1 = d
    OBVIOUS
  <2>3. QED
    BY <1>2, <1>7, <2>1, <2>2 DEF SentUpTo
<1>9. ASSUME NEW e \in Effects(v) PROVE e \in Visible(1)
  <2>1. PICK i \in 1 .. n : e \in Code(v, i)
    BY <1>3
  <2>2. e \notin Brackets /\ <<"COMMIT">> \in Brackets
    BY DEF Effects, Brackets
  <2>3. Chunks(v)[i] \notin {left[j] : j \in 1 .. d}
    <3> SUFFICES ASSUME NEW j \in 1 .. d, Chunks(v)[i] = left[j] PROVE FALSE
      OBVIOUS
    <3>1. e \in Code(v, k + j)
      BY <1>8, <2>1 DEF Code
    <3>2. k + j = k + 1 \/ k + j \in (k + 1) + 1 .. n
      BY <1>2, <1>7
    <3>3. QED
      BY <1>4, <2>2, <3>1, <3>2
  <2>4. Chunks(v)[i] \in Range(Chunks(v))
    BY <1>3, <2>1
  <2>5. Code(v, i) \ Brackets \subseteq Reached
    BY <1>5, <1>6, <1>8, <2>3, <2>4 DEF Chunks, Code
  <2>6. Reached \subseteq Visible(1)
    BY ReachedVisible, OneConnection DEF Claimed, Loading
  <2>7. QED
    BY <2>1, <2>2, <2>5, <2>6
<1>10. QED
  BY <1>1, <1>9 DEF Partial

\* A statement of a script in brackets is sent inside of its transaction, and of no script
\* but the first that is pending.
LEMMA WritesEnclosed ==
    ASSUME Readable, IInv, PoolInv, NEW v \in DOMAIN loaded, NEW k \in 0 .. Len(Chunks(v)),
           AtScript(v, k), k + 1 \in 1 .. Len(Chunks(v)),
           NEW s, s \notin Brackets, Code(v, k + 1) = {s},
           NEW p \in DOMAIN loaded, Bracketed(p), s \in Effects(p)
    PROVE  conn[1].tx /\ \A u \in Pending : p <= u
<1>1. PICK n \in Nat : n = Len(Chunks(v)) /\ k \in Nat /\ k + 1 \in 1 .. n
  BY LoadedBrackets DEF Readable
<1>2. p = v
  <2>1. Effects(p) = Range(Sent(loaded[p].up)) \ Brackets
    BY LoadedBrackets DEF Readable
  <2>2. s \in Range(Sent(loaded[v].up))
    BY LoadedBrackets DEF Readable
  <2>3. p # v => Range(Sent(loaded[p].up)) \cap Range(Sent(loaded[v].up)) \subseteq Brackets
    BY LoadedBrackets DEF Readable
  <2>4. QED
    BY <2>1, <2>2, <2>3
<1>3. /\ \E i \in 1 .. k + 1 : <<"BEGIN">> \in Code(v, i)
      /\ \E j \in k + 1 .. n : <<"COMMIT">> \in Code(v, j)
  BY <1>1, <1>2, LoadedBrackets DEF Readable
<1>4. PICK i \in 1 .. k + 1 : <<"BEGIN">> \in Code(v, i)
  BY <1>3
<1>5. i # k + 1
  BY <1>4 DEF Brackets
<1>6. i \in 1 .. k
  BY <1>1, <1>4, <1>5
<1>7. Enclosed(v, k)
  BY <1>1, <1>3, <1>4, <1>6 DEF Enclosed
<1>8. Pending = todo \cup {v} /\ \A u \in todo : v < u
  BY DEF AtScript
<1>9. v \in Nat /\ \A u \in Pending : u \in Nat
  BY LoadedBrackets DEF Readable, Pending
<1>10. QED
  BY <1>2, <1>7, <1>8, <1>9 DEF AtScript

\* Whatever chunk k + 1 of a script in brackets executes, the transaction is open behind
\* it if the script goes on inside of it.
LEMMA StaysEnclosed ==
    ASSUME Readable, IInv, Undisturbed, NEW v \in DOMAIN loaded, NEW k \in 0 .. Len(Chunks(v)),
           AtScript(v, k), k + 1 \in 1 .. Len(Chunks(v)), Bracketed(v), Enclosed(v, k + 1),
           \/ Code(v, k + 1) = {} /\ conn'[1].tx = conn[1].tx
           \/ \E s : Code(v, k + 1) = {s} /\ Outcome(1, s)
    PROVE  conn'[1].tx
<1>1. PICK n \in Nat : n = Len(Chunks(v)) /\ k \in Nat /\ k + 1 \in 1 .. n
  BY LoadedBrackets DEF Readable
<1>2. PICK i \in 1 .. k + 1 : <<"BEGIN">> \in Code(v, i)
  BY DEF Enclosed
<1>3. PICK j \in (k + 1) + 1 .. n : <<"COMMIT">> \in Code(v, j)
  BY <1>1 DEF Enclosed
<1>4. ASSUME <<"BEGIN">> \notin Code(v, k + 1) PROVE conn[1].tx
  <2>1. i \in 1 .. k /\ j \in k + 1 .. n
    BY <1>1, <1>2, <1>3, <1>4
  <2>2. QED
    BY <1>1, <1>2, <1>3, <2>1 DEF AtScript, Enclosed
<1>5. CASE Code(v, k + 1) = {} /\ conn'[1].tx = conn[1].tx
  BY <1>4, <1>5
<1>6. CASE \E s : Code(v, k + 1) = {s} /\ Outcome(1, s)
  <2>1. PICK s : Code(v, k + 1) = {s} /\ Outcome(1, s)
    BY <1>6
  <2>2. 1 \in DOMAIN conn /\ "tx" \in DOMAIN conn[1]
    BY OneConnection, PoolFacts DEF Settled, Fresh
  <2>3. CASE s = <<"BEGIN">>
    <3>1. conn' = [conn EXCEPT ![1].tx = TRUE]
      BY <2>1, <2>3, StatementsDiffer DEF Outcome, Brackets
    <3>2. conn'[1] = [conn[1] EXCEPT !.tx = TRUE]
      BY <2>2, <3>1
    <3>3. QED
      BY <2>2, <3>2
  <2>4. CASE s = <<"COMMIT">>
    <3>1. \A h \in (k + 1) + 1 .. n : Code(v, h) = {}
      BY <1>1, <2>1, <2>4, LoadedBrackets DEF Readable
    <3>2. QED
      BY <1>3, <3>1
  <2>5. CASE s \notin Brackets
    <3>1. conn[1].tx
      BY <1>4, <2>1, <2>5 DEF Brackets
    <3>2. QED
      BY <2>1, <2>5, <3>1, OneConnection, OutcomeFields DEF Brackets
  <2>6. QED
    BY <2>3, <2>4, <2>5 DEF Brackets
<1>7. QED
  BY <1>5, <1>6

\* The runner's own statement keeps the scripts whole and its place in them.
LEMMA ExecuteBracket ==
    ASSUME Readable, IInv, PoolInv, BracketInv, Execute \/ ExecuteFails
    PROVE  BracketInv'
<1>1. /\ pc = "execute" /\ UNCHANGED <<input, loadVars>>
      /\ (Fails(mine) /\ pc' = "idle") \/ Executes(mine)
      /\ \/ pc' = "idle"
         \/ /\ left' = Tail(left) /\ todo' = todo
            /\ pc' = IF Len(left) = 1 THEN "pick" ELSE "acquire"
  BY DEF Execute, ExecuteFails, Stops
<1> SUFFICES ASSUME Undisturbed PROVE BracketsHold' /\ PartialFirst' /\ InOrder'
  BY <1>1, ScriptFrame DEF BracketInv
<1>2. mine = 1 /\ 1 \in 1 .. size /\ BracketsHold /\ PartialFirst /\ InOrder /\ Claimed
  BY <1>1, OneConnection, PoolFacts DEF BracketInv, Claimed
<1>3. PICK v \in DOMAIN loaded : \E h \in 0 .. Len(Chunks(v)) : SentUpTo(v, h) /\ AtScript(v, h)
  BY <1>1, <1>2 DEF InOrder
<1>4. PICK k \in 0 .. Len(Chunks(v)) : SentUpTo(v, k) /\ AtScript(v, k)
  BY <1>3
<1>5. /\ Len(left) = 1 => Head(left) = Record(v)
      /\ Len(left) # 1 =>
            /\ k + 1 \in 1 .. Len(Chunks(v)) /\ k + 1 \in 0 .. Len(Chunks(v))
            /\ Codes(Statements(Head(left))) = Code(v, k + 1)
            /\ left' = Tail(left) => SentUpTo(v, k + 1)'
  BY <1>1, <1>4, AtHead, ScriptFrame DEF Code
<1>6. loaded' = loaded /\ \A u : Chunks(u)' = Chunks(u) /\ Bracketed(u)' = Bracketed(u)
  BY <1>1, ScriptFrame
<1>7. Pending = todo \cup {v} /\ v \notin todo
  <2>1. v \in Nat
    BY LoadedBrackets DEF Readable
  <2>2. QED
    BY <1>4, <2>1 DEF AtScript
<1>8. ASSUME Len(left) # 1, Pending' = Pending,
             Bracketed(v) /\ Enclosed(v, k + 1) => conn'[1].tx
      PROVE  InOrder'
  <2> SUFFICES ASSUME pc' # "idle" PROVE InOrder'
    BY DEF InOrder
  <2>1. pc' = "acquire" /\ todo' = todo /\ left' = Tail(left)
    BY <1>1, <1>8
  <2>2. Enclosed(v, k + 1)' = Enclosed(v, k + 1)
    BY <1>1, ScriptFrame DEF Enclosed
  <2>3. AtScript(v, k + 1)'
    BY <1>4, <1>6, <1>8, <2>1, <2>2 DEF AtScript
  <2>4. QED
    BY <1>5, <1>6, <1>8, <2>1, <2>3 DEF InOrder
<1>9. CASE Fails(mine) /\ pc' = "idle"
  <2>1. committed' = committed /\ conn'[1].writes = conn[1].writes
    BY <1>2, <1>9, FailsFields
  <2>2. InOrder'
    BY <1>9 DEF InOrder
  <2>3. QED
    BY <1>1, <1>2, <2>1, <2>2, NothingWritten
<1>10. CASE UNCHANGED poolVars /\ Len(left) # 1 /\ Codes(Statements(Head(left))) = {}
  <2>1. committed' = committed /\ conn' = conn
    BY <1>10 DEF poolVars
  <2>2. BracketsHold' /\ PartialFirst' /\ Pending' = Pending
    BY <1>1, <1>2, <2>1, NothingWritten
  <2>3. Bracketed(v) /\ Enclosed(v, k + 1) => conn'[1].tx
    BY <1>4, <1>5, <1>10, <2>1, StaysEnclosed
  <2>4. QED
    BY <1>8, <1>10, <2>2, <2>3
<1>11. ASSUME NEW s, Executed(s), Len(left) # 1
       PROVE  BracketsHold' /\ PartialFirst' /\ InOrder'
  <2>1. Outcome(1, s) /\ Code(v, k + 1) = {s}
    BY <1>2, <1>5, <1>11 DEF Executed
  <2>2. \A u \in DOMAIN loaded : s # Record(u)
    BY <1>5, <1>11, <2>1, LoadedBrackets DEF Readable
  <2>3. s = <<"COMMIT">> => \A p \in DOMAIN loaded : Bracketed(p) => ~Partial(p)
    BY <1>1, <1>2, <1>4, <1>5, <1>11, <2>1, CommitsWhole
  <2>4. s \notin Brackets => \A p \in DOMAIN loaded : Bracketed(p) /\ s \in Effects(p) =>
                                conn[1].tx /\ \A u \in Pending : p <= u
    BY <1>4, <1>5, <1>11, <2>1, WritesEnclosed
  <2>5. /\ BracketsHold' /\ PartialFirst'
        /\ Visible(1) \subseteq Visible(1)' /\ Visible(1)' \subseteq Visible(1) \cup ({s} \ Brackets)
    BY <1>1, <1>2, <2>1, <2>3, <2>4, StatementKeepsWhole
  <2>6. Pending' = Pending
    BY <1>1, <2>2, <2>5, ScriptFrame DEF Pending
  <2>7. Bracketed(v) /\ Enclosed(v, k + 1) => conn'[1].tx
    BY <1>4, <1>5, <1>11, <2>1, StaysEnclosed
  <2>8. QED
    BY <1>8, <1>11, <2>5, <2>6, <2>7
<1>12. ASSUME NEW s, Executed(s), Len(left) = 1
       PROVE  BracketsHold' /\ PartialFirst' /\ InOrder'
  <2>1. Outcome(1, s) /\ s = Record(v)
    BY <1>2, <1>5, <1>12 DEF Executed
  <2>2. s \notin Brackets /\ s # <<"COMMIT">>
    BY <2>1, StatementsDiffer DEF Brackets
  <2>3. \A p \in DOMAIN loaded : Bracketed(p) => s \notin Effects(p)
    BY <2>1, LoadedBrackets DEF Readable
  <2>4. /\ BracketsHold' /\ PartialFirst' /\ s \in Visible(1)'
        /\ Visible(1) \subseteq Visible(1)' /\ Visible(1)' \subseteq Visible(1) \cup {s}
    BY <1>1, <1>2, <2>1, <2>2, <2>3, StatementKeepsWhole
  <2>5. Pending' = Pending \ {v}
    BY <1>1, <2>1, <2>4, ScriptFrame, StatementsDiffer DEF Pending
  <2>6. InOrder'
    BY <1>1, <1>7, <1>12, <2>5 DEF InOrder
  <2>7. QED
    BY <2>4, <2>6
<1>13. QED
  <2>1. CASE Executes(mine)
    <3>1. \/ UNCHANGED poolVars /\ Len(left) # 1 /\ Codes(Statements(Head(left))) = {}
          \/ \E s : Executed(s)
      BY <1>1, <1>2, <2>1, ExecuteOutcome DEF Readable
    <3>2. QED
      BY <1>10, <1>11, <1>12, <3>1
  <2>2. QED
    BY <1>1, <1>9, <2>1

\* BracketInv is inductive beside IInv and PoolInv.
LEMMA NextBracket ==
    ASSUME Readable, IInv, PoolInv, BracketInv, [Next]_vars
    PROVE  BracketInv'
<1>1. CASE Load \/ LoadFails
  BY <1>1, LoadBracket
<1>2. CASE Run
  BY <1>2, UpBracket, ApplyBracket, QuietBracket, ExecuteBracket DEF Run
<1>3. CASE \E c \in DOMAIN conn : Acquire(c) \/ Grow(c) \/ Reap(c) \/ AppAcquire(c)
  BY <1>3, QuietBracket, ReapBracket
<1>4. CASE ExecuteFails \/ Cancelled \/ AcquireFails \/ AppWrites \/ Close
  BY <1>4, QuietBracket, ExecuteBracket, AppWritesBracket
<1>5. CASE UNCHANGED vars
  <2>1. /\ UNCHANGED <<input, loadVars, left, todo>> /\ pc' = pc /\ closed' = closed
        /\ conn' = conn /\ committed' = committed
    BY <1>5 DEF vars, runVars, poolVars
  <2>2. Undisturbed' = Undisturbed
    BY <2>1, ScriptFrame
  <2>3. Undisturbed => BracketsHold' /\ PartialFirst' /\ Pending' = Pending
    BY <2>1, NothingWritten DEF BracketInv
  <2>4. /\ pc' = "pick" /\ ~closed' => pc = "pick" /\ ~closed
        /\ closed /\ pc = "acquire" => closed' /\ pc' # "execute"
    BY <2>1, Zenon
  <2>5. Undisturbed => InOrder'
    BY <2>1, <2>3, <2>4, StillInOrder DEF BracketInv
  <2>6. QED
    BY <2>2, <2>3, <2>5 DEF BracketInv
<1>6. QED
  BY <1>1, <1>2, <1>3, <1>4, <1>5 DEF Next

\* On one connection that nobody else uses during a call BEGIN and COMMIT make a script
\* atomic, whichever statement of it fails, wherever the call is dropped, and however
\* often it is repeated or the connection is closed in between: what is committed of it
\* is all or nothing, as the comment on SqlMigration says.  A transaction that a call left
\* open is the next call's, and that one begins with the same script (Migrator::up,
\* DbPool::exec).
THEOREM HoldsBrackets ==
    ASSUME SplitFaithful, NoneRecords, Apart
    PROVE  Spec => []BracketsHold
<1>1. BracketInv => BracketsHold
  BY DEF BracketInv, BracketsHold
<1>2. dir \in {w.dir : w \in Worlds} /\ IInv /\ PoolInv /\ [Next]_vars => PoolInv'
  BY NextPool
<1>3. dir \in {w.dir : w \in Worlds} /\ IInv /\ PoolInv /\ BracketInv /\ [Next]_vars => BracketInv'
  BY NextBracket DEF Readable
<1>4. QED
  BY <1>1, <1>2, <1>3, InitPool, InitBracket, Invariance, FilesKept, PTL DEF Spec
============================================================================
